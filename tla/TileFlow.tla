-------------------------------- MODULE TileFlow -------------------------------
(* How a change of the document reaches the screens: the Kit renders tiles as *)
(* keyframes or deltas against its last rendering, the broker caches them,    *)
(* invalidates them, asks for them and sends each client what it has not been *)
(* sent, through a queue that drops superseded tiles; clients answer with     *)
(* 'tileprocessed'.                                                           *)
(*                                                                            *)
(* kit/Kit.cpp, kit/Delta.hpp, common/RenderTiles.hpp, wsd/DocumentBroker.cpp *)
(* and wsd/ClientSession.cpp, over the operators of TileCache and KitQueue.   *)
EXTENDS TileCache, KitQueue

CONSTANTS
  Session, View, Layouts,  \* sessions, canonical views, ways to share the views
  Tiles,                   \* number of tiles, positions 1..Tiles
  Visible,                 \* the tiles in the visible area of each session
  OnFlyLimit,              \* getTilesOnFlyUpperLimit
  MaxChanges,              \* edits and evictions (of cached tiles, of the deltas of the Kit)
  MaxEvents                \* requests, users that idle or leave, timeouts

ASSUME TileFlowAssumption ==
  /\ IsFiniteSet(Session)
  /\ Layouts \subseteq [Session -> View] /\ Layouts # {}
  /\ Tiles \in Nat \ {0}
  /\ Visible \in [Session -> SUBSET (1..Tiles)]
  /\ OnFlyLimit \in Nat \ {0}
  /\ {MaxChanges, MaxEvents} \subseteq Nat

Tile == 1..Tiles
Key == View \X Tile            \* TileDescCacheCompareEq: view and position
NoImage == -1                  \* the client has no keyframe of the tile
Garbage == -2                  \* a delta was applied to another content

VARIABLES
  doc,     \* the content of each tile in the loaded document
  kit,     \* the Kit's Document: sessions, queues, DeltaGenerator, wire id
  wsd,     \* the broker's tile cache, renderings, version and its sessions
  toKit,   \* broker to Kit
  toWsd,   \* Kit to broker
  client,  \* each client: what it shows, what it asked for, its 'tileprocessed'
  unsynced,\* history: views that missed an invalidation for want of an active session
  count    \* how often each bounded event has happened

vars == <<doc, kit, wsd, toKit, toWsd, client, unsynced, count>>

(* SessionMap::createCanonicalId: sessions whose views look the same share a  *)
(* canonical view id and with it the tiles.                                   *)
ViewOf == kit.viewOf

FreshSession ==
  [lastSent |-> [k \in Key |-> 0], requested |-> <<>>, onFly |-> <<>>, queue |-> <<>>]

FreshClient == [image |-> [t \in Tile |-> NoImage], asked |-> {}, acks |-> <<>>]

Init ==
  /\ doc = [t \in Tile |-> 0]
  /\ \E layout \in Layouts :
       kit = [sessions |-> Session, active |-> Session, missed |-> {}, callbacks |-> <<>>,
              tiles |-> {}, deltas |-> {}, wid |-> 0, viewOf |-> layout]
  /\ wsd = [cache |-> [k \in Key |-> NoTile], rendering |-> [k \in Key |-> NoTile],
            ver |-> 0, sessions |-> Session, session |-> [s \in Session |-> FreshSession],
            out |-> <<>>]
  /\ toKit = <<>> /\ toWsd = <<>>
  /\ client = [s \in Session |-> FreshClient]
  /\ unsynced = {}
  /\ count = [changes |-> 0, events |-> 0]

Counts(event, max) == count[event] < max /\ count' = [count EXCEPT ![event] = @ + 1]
-----------------------------------------------------------------------------
(* The broker's handlers, as functions of its state w, which carries the      *)
(* requests to send in w.out while a handler runs.                            *)

(* Tiles of one request: positions from left to right, each once.             *)
Row(tiles) ==
  LET row[n \in 0 .. Tiles] ==
        IF n = 0 THEN <<>> ELSE IF n \in tiles THEN Append(row[n - 1], n) ELSE row[n - 1]
  IN  row[Tiles]

(* A TileDesc; `force` is isForcedKeyFrame(), an old wire id of 0.            *)
TileRequest(key, force) == [type |-> "tile", key |-> key, ver |-> 0, force |-> force]

(* ClientSession::sendTileNow and enqueueSendMessage: what changed since the  *)
(* last one sent. A tile is tracked as on the fly when the queue has grown,   *)
(* so not when it took the place of a queued one.                             *)
SendTileNow(ses, key, wid, tile) ==
  LET since == ses.lastSent[key]
      item  == [type  |-> IF NeedsKeyframe(tile, since) THEN "tile" ELSE "delta",
                key   |-> key, wid |-> wid, blobs |-> ChangesSince(tile, since)]
      queue == Enqueue(ses.queue, item)
  IN  [ses EXCEPT !.lastSent[key] = wid, !.queue = queue,
                  !.onFly = IF Len(queue) # Len(ses.queue) THEN Append(@, [wid |-> wid, old |-> FALSE]) ELSE @]

(* Mutant: any rendering under way will do. *)
RequestRenderingOnce(w, s, request, ver, force) ==
  LET entry == w.rendering[request.key]
      needed == ~HasTileBeingRendered(entry)
      asked == [request EXCEPT !.ver = IF needed THEN ver ELSE @,
                               !.force = @ \/ (needed /\ force)]
  IN  [w EXCEPT !.out = IF needed THEN Append(@, asked) ELSE @,
                !.rendering[request.key] = SubscribeToTileRendering(entry, asked.ver, s)]

(* DocumentBroker::requestTileRendering: a rendering is asked for unless one  *)
(* of this version is under way, and the session subscribes to it.            *)
RequestTileRendering(w, s, request, ver, force) ==
  LET entry == w.rendering[request.key]
      needed == ~HasTileBeingRendered(entry) \/ TileBeingRenderedVersion(entry) < request.ver
      asked == [request EXCEPT !.ver = IF needed THEN ver ELSE @,
                               !.force = @ \/ (needed /\ force)]
  IN  [w EXCEPT !.out = IF needed THEN Append(@, asked) ELSE @,
                !.rendering[request.key] = SubscribeToTileRendering(entry, asked.ver, s)]

(* One turn of the loop of sendRequestedTiles: valid tiles come from the      *)
(* cache, the others are rendered with `ver`, to which the first of them bumps *)
(* _tileVersion.                                                              *)
SendRequestedTile(w, s, request, ver) ==
  LET tile == w.cache[request.key]
  IN  IF Len(w.session[s].onFly) >= OnFlyLimit
      THEN [w EXCEPT !.session[s].requested = Append(@, request)]
      ELSE IF tile # NoTile /\ tile.valid
      THEN [w EXCEPT !.session[s] = SendTileNow(@, request.key, LastWid(tile), tile)]
      ELSE RequestTileRendering([w EXCEPT !.ver = ver], s, request, ver, tile = NoTile)

(* removeOutdatedTilesOnFly looks at the beginning of the list only.          *)
RemoveOutdatedTilesOnFly(onFly) ==
  From(onFly, {i \in DOMAIN onFly : ~onFly[i].old})

(* DocumentBroker::sendRequestedTiles.                                        *)
SendRequestedTiles(w, s) ==
  LET ses == w.session[s]
      after[n \in 0 .. Len(ses.requested)] ==
        IF n = 0
        THEN [w EXCEPT !.session[s] =
                [ses EXCEPT !.onFly = RemoveOutdatedTilesOnFly(@), !.requested = <<>>]]
        ELSE SendRequestedTile(after[n - 1], s, ses.requested[n], w.ver + 1)
  IN  after[Len(ses.requested)]

(* The tiles of a request join the ones that wait; a tile that waits already  *)
(* takes the newer request's version and wire ids.                            *)
Accumulate(requested, request) ==
  IF \E i \in DOMAIN requested : requested[i].key = request.key
  THEN [i \in DOMAIN requested |-> IF requested[i].key = request.key THEN request ELSE requested[i]]
  ELSE Append(requested, request)

(* The loop of handleTileCombinedRequest over the tiles of the request: a     *)
(* keyframe the client asks for is sent from what is cached, one is rendered  *)
(* only when there is no tile or its deltas have grown too large.             *)
PrepareTile(w, s, request, canForce) ==
  LET reset == canForce /\ request.force
      tile  == w.cache[request.key]
      force == tile = NoTile \/ TooLarge(tile)
      req   == [request EXCEPT !.ver = w.ver, !.force = (@ /\ ~reset) \/ force]
      w1    == IF reset THEN [w EXCEPT !.session[s].lastSent[request.key] = 0] ELSE w
      w2    == IF tile = NoTile \/ ~tile.valid \/ TooLarge(tile)
               THEN RequestTileRendering(w1, s, req, w.ver, force) ELSE w1
  IN  [w2 EXCEPT !.session[s].requested = Accumulate(@, req)]

HandleTileCombinedRequest(w, s, requests, canForce) ==
  LET after[n \in 0 .. Len(requests)] ==
        IF n = 0 THEN [w EXCEPT !.ver = @ + 1]
        ELSE PrepareTile(after[n - 1], s, requests[n], canForce)
  IN  SendRequestedTiles(after[Len(requests)], s)

(* DocumentBroker::handleTileRequest, the older request for one tile: it      *)
(* always resets the sequence, and the message to the Kit is made before      *)
(* forceKeyframe().                                                           *)
HandleTileRequest(w, s, request) ==
  LET tile == w.cache[request.key]
      w1   == [w EXCEPT !.ver = @ + 1, !.session[s].lastSent[request.key] = 0]
  IN  IF tile # NoTile /\ tile.valid
      THEN [w1 EXCEPT !.session[s] = SendTileNow(@, request.key, LastWid(tile), tile)]
      ELSE [w1 EXCEPT
              !.rendering[request.key] = SubscribeToTileRendering(@, w1.ver, s),
              !.out = Append(@, [request EXCEPT !.ver = w1.ver])]

(* ClientSession::handleTileInvalidation: the cached tiles of the session's   *)
(* view are invalid, and the visible ones are asked for again.                *)
HandleTileInvalidation(w, s, area) ==
  LET view == ViewOf[s]
      hit  == {t \in Tile : area.lo <= t /\ t <= area.hi}
      w1   == [w EXCEPT !.cache =
                 [k \in Key |-> IF k[1] = view /\ k[2] \in hit /\ @[k] # NoTile
                                THEN Invalidate(@[k]) ELSE @[k]]]
      visible == Row(hit \cap Visible[s])
      requests == [i \in DOMAIN visible |->
                     LET key == <<view, visible[i]>> IN TileRequest(key, w1.cache[key] = NoTile)]
  IN  IF requests = <<>> THEN w1
      ELSE HandleTileCombinedRequest(w1, s, requests, FALSE)

(* TileCache::saveTileAndNotify for a rendered tile: cached, sent to those    *)
(* who wait for it, and no longer awaited unless a newer one is.              *)
SaveTileAndNotify(w, msg) ==
  LET tile  == SaveDataToCache(w.cache[msg.key], msg.blob)
      entry == w.rendering[msg.key]
      told  == IF entry = NoTile \/ tile = NoTile THEN {}
               ELSE entry.subscribers \cap w.sessions
  IN  [w EXCEPT
         !.cache[msg.key] = tile,
         !.session = [s \in Session |->
                        IF s \in told THEN SendTileNow(@[s], msg.key, msg.blob.wid, tile) ELSE @[s]],
         !.rendering[msg.key] = ForgetTileBeingRendered(@, msg.ver)]
-----------------------------------------------------------------------------
(* The broker's poll loop.                                                    *)

Commit(w) == wsd' = [w EXCEPT !.out = <<>>] /\ toKit' = toKit \o w.out

(* An active session of the view is known on both sides.                      *)
Synced(view) == \E s \in kit.active \cap wsd.sessions : ViewOf[s] = view

(* Tiles of one message are saved one after the other, as they were rendered.  *)
HandleTileCombinedResponse(w, tiles) ==
  LET after[n \in 0 .. Len(tiles)] ==
        IF n = 0 THEN w ELSE SaveTileAndNotify(after[n - 1], tiles[n])
  IN  after[Len(tiles)]

(* An invalidation for a session that is not known (yet) is dropped.          *)
Invalidation(msg) ==
  IF msg.session \in wsd.sessions
  THEN HandleTileInvalidation(wsd, msg.session, msg.area)
  ELSE wsd

(* A message of the Kit: rendered tiles, an invalidation for one session,     *)
(* 'memorytrimmed:', which clears the cache, or the view of a new session.    *)
HandleKitMessage ==
  /\ toWsd # <<>>
  /\ LET msg == Head(toWsd) IN
       \/ /\ msg.type = "tiles"
          /\ Commit(HandleTileCombinedResponse(wsd, msg.tiles))
          /\ UNCHANGED unsynced
       \/ /\ msg.type = "invalidate"
          /\ Commit(Invalidation(msg))
          /\ unsynced' = IF msg.session \in wsd.sessions
                         THEN unsynced ELSE unsynced \cup {ViewOf[msg.session]}
       \/ /\ msg.type = "trimmed"
          /\ Commit([wsd EXCEPT !.cache = [k \in Key |-> NoTile]])
          /\ UNCHANGED unsynced
       \/ /\ msg.type = "canonicalidchange"
          /\ Commit([wsd EXCEPT !.sessions = @ \cup {msg.session}])
          /\ UNCHANGED unsynced
  /\ toWsd' = Tail(toWsd)
  /\ UNCHANGED <<doc, kit, client, count>>

(* 'tileprocessed': the tile is no longer on the fly, and others may go.      *)
TileProcessed(s) ==
  /\ s \in wsd.sessions /\ client[s].acks # <<>>
  /\ LET onFly == wsd.session[s].onFly
         pos   == {i \in DOMAIN onFly : onFly[i].wid = Head(client[s].acks)}
         left  == IF pos = {} THEN onFly
                  ELSE RemoveAt(onFly, CHOOSE i \in pos : \A j \in pos : i <= j)
     IN  Commit(SendRequestedTiles([wsd EXCEPT !.session[s].onFly = left], s))
  /\ client' = [client EXCEPT ![s].acks = Tail(@)]
  /\ UNCHANGED <<doc, kit, toWsd, count, unsynced>>

(* COMMAND_TIMEOUT_MS pass: the renderings under way are stale.               *)
RenderingStalls ==
  /\ \E k \in Key : HasTileBeingRendered(wsd.rendering[k])
  /\ Counts("events", MaxEvents)
  /\ wsd' = [wsd EXCEPT !.rendering = [k \in Key |-> IF @[k] = NoTile THEN NoTile
                                                   ELSE [@[k] EXCEPT !.stale = TRUE]]]
  /\ UNCHANGED <<doc, kit, toKit, toWsd, client, unsynced>>

(* TILE_ROUNDTRIP_TIMEOUT_MS pass: the tiles on the fly are outdated.         *)
ClientStalls(s) ==
  /\ \E i \in DOMAIN wsd.session[s].onFly : ~wsd.session[s].onFly[i].old
  /\ Counts("events", MaxEvents)
  /\ wsd' = [wsd EXCEPT !.session[s].onFly = [i \in DOMAIN @ |-> [@[i] EXCEPT !.old = TRUE]]]
  /\ UNCHANGED <<doc, kit, toKit, toWsd, client, unsynced>>

(* setMaxCacheSize in the poll loop and ensureCacheSize when a tile is saved. *)
CleanCache(victim) ==
  /\ Cardinality(CachedTiles(wsd.cache)) >= 2
  /\ Counts("changes", MaxChanges)
  /\ wsd' = [wsd EXCEPT !.cache = EnsureCacheSize(@, wsd.rendering, victim)]
  /\ UNCHANGED <<doc, kit, toKit, toWsd, client, unsynced>>
-----------------------------------------------------------------------------
(* The Kit's main thread.                                                     *)

Invalidate_(s, area) == [type |-> "invalidate", session |-> s, area |-> area]

(* Input of a client changes the document; LibreOffice reports the area       *)
(* within the same call, and ViewCallback queues it for all views.            *)
Edit(lo, hi) ==
  /\ kit.active # {}
  /\ Counts("changes", MaxChanges)
  /\ doc' = [t \in Tile |-> IF lo <= t /\ t <= hi THEN doc[t] + 1 ELSE doc[t]]
  /\ kit' = [kit EXCEPT !.callbacks = PutInvalidation(@, Area(lo, hi))]
  /\ UNCHANGED <<wsd, toKit, toWsd, client, unsynced>>

(* drainCallbacks: each invalidation goes to every active session, and the    *)
(* StateRecorder of an inactive one remembers that there was one.             *)
DrainCallbacks ==
  /\ kit.callbacks # <<>>
  /\ LET told == SetToSeq(kit.active)
         sent[n \in 0 .. Len(kit.callbacks)] ==
           IF n = 0 THEN toWsd
           ELSE sent[n - 1] \o [j \in DOMAIN told |-> Invalidate_(told[j], kit.callbacks[n])]
     IN  toWsd' = sent[Len(kit.callbacks)]
  /\ kit' = [kit EXCEPT !.callbacks = <<>>, !.missed = @ \cup (kit.sessions \ kit.active)]
  /\ unsynced' = unsynced \cup {v \in View : ~Synced(v)}
  /\ UNCHANGED <<doc, wsd, toKit, client, count>>

(* DeltaGenerator::createDelta and compressOrDelta: without an entry, or when *)
(* forced, a keyframe; else a delta from the entry, which is replaced.        *)
Render(request, wid) ==
  LET entries == {d \in kit.deltas : d.key = request.key}
      to      == doc[request.key[2]]
      blob    == IF entries = {} \/ request.force THEN Keyframe(wid, to)
                 ELSE Delta(wid, (CHOOSE d \in entries : TRUE).to, to)
  IN  [key |-> request.key, ver |-> request.ver, blob |-> blob]

(* renderTiles and doRender of one combined request: the tiles get the next   *)
(* wire ids and are answered together. Without a session of the view the      *)
(* request is dropped.                                                        *)
RenderTiles(view, requests) ==
  /\ requests \in CombinedWith(kit.tiles, view)
  /\ IF \E s \in kit.sessions : ViewOf[s] = view
     THEN LET order == Row({r.key[2] : r \in requests})
              done  == [i \in DOMAIN order |->
                          Render(CHOOSE r \in requests : r.key[2] = order[i], kit.wid + i)]
              keys  == {r.key : r \in requests}
          IN  /\ toWsd' = Append(toWsd, [type |-> "tiles", tiles |-> done])
              /\ kit' = [kit EXCEPT
                           !.tiles = @ \ requests, !.wid = @ + Len(order),
                           !.deltas = {d \in @ : d.key \notin keys} \cup
                             {[key |-> done[i].key, to |-> done[i].blob.to, wid |-> kit.wid + i] :
                                i \in DOMAIN done}]
     ELSE /\ kit' = [kit EXCEPT !.tiles = @ \ requests]
          /\ UNCHANGED toWsd
  /\ UNCHANGED <<doc, wsd, toKit, client, unsynced, count>>

(* rebalanceDeltas: the entries of the lowest wire ids go.                    *)
RebalanceDeltas(entry) ==
  /\ entry \in kit.deltas
  /\ Counts("changes", MaxChanges)
  /\ kit' = [kit EXCEPT !.deltas = {d \in @ : d.wid > entry.wid}]
  /\ UNCHANGED <<doc, wsd, toKit, toWsd, client, unsynced>>

(* A message of the broker arrives: a tile request joins the queue; 'user-    *)
(* active' sends the invalidation a session has missed; 'userinactive' trims  *)
(* the memory when nobody is active; a session is removed when it leaves.     *)
KitReceive ==
  /\ toKit # <<>>
  /\ LET msg == Head(toKit) IN
       \/ /\ msg.type = "tile"
          /\ kit' = [kit EXCEPT !.tiles = PushTile(@, msg)]
          /\ UNCHANGED toWsd
       \/ /\ msg.type = "useractive" /\ msg.session \in kit.sessions
          /\ kit' = [kit EXCEPT !.active = @ \cup {msg.session}, !.missed = @ \ {msg.session}]
          /\ toWsd' = IF msg.session \in kit.missed
                      THEN Append(toWsd, Invalidate_(msg.session, Area(1, Tiles))) ELSE toWsd
       \/ /\ msg.type = "userinactive" /\ msg.session \in kit.sessions
          /\ IF kit.active \subseteq {msg.session}
             THEN /\ kit' = [kit EXCEPT !.active = {}, !.deltas = {}]
                  /\ toWsd' = Append(toWsd, [type |-> "trimmed"])
             ELSE /\ kit' = [kit EXCEPT !.active = @ \ {msg.session}]
                  /\ UNCHANGED toWsd
       \/ /\ msg.type = "disconnect"
          /\ kit' = [kit EXCEPT !.sessions = @ \ {msg.session}, !.active = @ \ {msg.session},
                                !.missed = @ \ {msg.session}]
          /\ UNCHANGED toWsd
       \/ /\ msg.type = "load"
          /\ kit' = [kit EXCEPT !.sessions = @ \cup {msg.session}, !.active = @ \cup {msg.session}]
          /\ toWsd' = Append(toWsd, [type |-> "canonicalidchange", session |-> msg.session])
  /\ toKit' = Tail(toKit)
  /\ UNCHANGED <<doc, wsd, client, unsynced, count>>
-----------------------------------------------------------------------------
(* Clients. The browser is external: it applies what it receives in order,    *)
(* asks for a keyframe of what it does not have and reports what it has       *)
(* processed.                                                                 *)

ApplyBlob(content, blob) ==
  IF blob.key THEN blob.to
  ELSE IF content = blob.from THEN blob.to
  ELSE IF content = NoImage THEN NoImage
  ELSE IF IsEmpty(blob) THEN content ELSE Garbage

Apply(content, blobs) ==
  LET after[n \in 0 .. Len(blobs)] ==
        IF n = 0 THEN content ELSE ApplyBlob(after[n - 1], blobs[n])
  IN  after[Len(blobs)]

(* writeQueuedMessages takes a message from the queue and the client applies  *)
(* it and acknowledges its wire id.                                           *)
ClientReceive(s) ==
  /\ s \in wsd.sessions /\ wsd.session[s].queue # <<>>
  /\ LET msg  == Head(wsd.session[s].queue)
         tile == msg.key[2]
         had  == client[s]
     IN  client' = [client EXCEPT ![s] =
                      [image |-> [had.image EXCEPT ![tile] = Apply(@, msg.blobs)],
                       asked |-> had.asked \ {tile}, acks |-> Append(had.acks, msg.wid)]]
  /\ wsd' = [wsd EXCEPT !.session[s].queue = Tail(@)]
  /\ UNCHANGED <<doc, kit, toKit, toWsd, count, unsynced>>

(* 'tilecombine': the client asks for tiles, with a keyframe.                 *)
AskTiles(s, tiles) ==
  /\ s \in wsd.sessions
  /\ LET order == Row(tiles)
         requests == [i \in DOMAIN order |-> TileRequest(<<ViewOf[s], order[i]>>, TRUE)]
     IN  Commit(HandleTileCombinedRequest(wsd, s, requests, TRUE))

(* The client scrolls, or has dropped what it had and asks for it again.      *)
ClientRequest(s, tiles) ==
  /\ Counts("events", MaxEvents)
  /\ AskTiles(s, tiles)
  /\ client' = [client EXCEPT
                  ![s].image = [t \in Tile |-> IF t \in tiles THEN NoImage ELSE @[t]],
                  ![s].asked = @ \cup tiles]
  /\ UNCHANGED <<doc, kit, toWsd, unsynced>>

(* The client asks for the visible tiles it has no keyframe of.               *)
Missing(s) == {t \in Visible[s] : client[s].image[t] = NoImage} \ client[s].asked

ClientRefetch(s) ==
  /\ Missing(s) # {}
  /\ AskTiles(s, Missing(s))
  /\ client' = [client EXCEPT ![s].asked = @ \cup Missing(s)]
  /\ UNCHANGED <<doc, kit, toWsd, count, unsynced>>

(* 'tile': one tile, always a keyframe.                                       *)
ClientRequestTile(s, t) ==
  /\ s \in wsd.sessions
  /\ Counts("events", MaxEvents)
  /\ Commit(HandleTileRequest(wsd, s, TileRequest(<<ViewOf[s], t>>, TRUE)))
  /\ UNCHANGED <<doc, kit, toWsd, client, unsynced>>

UserIdle(s) ==
  /\ s \in wsd.sessions
  /\ Counts("events", MaxEvents)
  /\ toKit' = Append(toKit, [type |-> "userinactive", session |-> s])
  /\ UNCHANGED <<doc, kit, wsd, toWsd, client, unsynced>>

UserActive(s) ==
  /\ s \in wsd.sessions /\ s \notin kit.active
  /\ s \in kit.sessions
  /\ \A i \in DOMAIN toKit : toKit[i].type # "useractive"
  /\ toKit' = Append(toKit, [type |-> "useractive", session |-> s])
  /\ UNCHANGED <<doc, kit, wsd, toWsd, client, unsynced, count>>

(* The session is removed from the broker, and the Kit is told; the document  *)
(* is unloaded with the last one.                                             *)
Leave(s) ==
  /\ s \in wsd.sessions /\ wsd.sessions # {s}
  /\ Counts("events", MaxEvents)
  /\ wsd' = [wsd EXCEPT !.sessions = @ \ {s},
                        !.rendering = [k \in Key |-> IF wsd.rendering[k] = NoTile THEN NoTile ELSE
                                         [wsd.rendering[k] EXCEPT !.subscribers = @ \ {s}]],
                        !.session[s] = FreshSession]
  /\ toKit' = Append(toKit, [type |-> "disconnect", session |-> s])
  /\ client' = [client EXCEPT ![s] = FreshClient]
  /\ UNCHANGED <<doc, kit, toWsd, unsynced>>

(* A new session loads a view of the document; it takes part once the Kit has *)
(* told its canonical view id.                                                *)
JoinView(s) ==
  /\ s \notin wsd.sessions \cup kit.sessions
  /\ \A i \in DOMAIN toKit : toKit[i].type # "tile" => toKit[i].session # s
  /\ toKit' = Append(toKit, [type |-> "load", session |-> s])
  /\ UNCHANGED <<doc, kit, wsd, toWsd, client, unsynced, count>>
-----------------------------------------------------------------------------
Next ==
  \/ HandleKitMessage \/ DrainCallbacks \/ KitReceive
  \/ \E s \in Session : \/ TileProcessed(s) \/ ClientReceive(s) \/ UserIdle(s)
                        \/ UserActive(s) \/ Leave(s) \/ JoinView(s) \/ ClientStalls(s)
                        \/ ClientRefetch(s)
                        \/ \E S \in SUBSET Tile : S # {} /\ ClientRequest(s, S)
                        \/ \E t \in Tile : ClientRequestTile(s, t)
  \/ RenderingStalls
  \/ \E key \in CachedTiles(wsd.cache) : CleanCache(key)
  \/ \E lo, hi \in Tile : lo <= hi /\ Edit(lo, hi)
  \/ \E view \in View : \E R \in SUBSET kit.tiles : RenderTiles(view, R)
  \/ \E d \in kit.deltas : RebalanceDeltas(d)

Spec == Init /\ [][Next]_vars
-----------------------------------------------------------------------------
Blob == [wid : Nat, key : BOOLEAN, from : Nat, to : Nat]
CachedTile == [blobs : Seq(Blob) \ {<<>>}, valid : BOOLEAN, first : Nat]
Rendering == [ver : Nat, subscribers : SUBSET Session, stale : BOOLEAN]
Request == [type : {"tile"}, key : Key, ver : Nat, force : BOOLEAN]
Item == [type : {"tile", "delta"}, key : Key, wid : Nat, blobs : Seq(Blob)]
SessionState ==
  [lastSent : [Key -> Nat], requested : Seq(Request), onFly : Seq([wid : Nat, old : BOOLEAN]),
   queue : Seq(Item)]
Broker ==
  [cache : [Key -> CachedTile \cup {NoTile}], rendering : [Key -> Rendering \cup {NoTile}],
   ver : Nat, sessions : SUBSET Session, session : [Session -> SessionState], out : Seq(Request)]
Areas == [lo : Int, hi : Int]
Entry == [key : Key, to : Nat, wid : Nat]
KitState ==
  [sessions : SUBSET Session, active : SUBSET Session, missed : SUBSET Session,
   callbacks : Seq(Areas), tiles : SUBSET Request, deltas : SUBSET Entry, wid : Nat,
   viewOf : [Session -> View]]
Rendered == [key : Key, ver : Nat, blob : Blob]
ToKit == Request \cup [type : {"useractive", "userinactive", "disconnect", "load"}, session : Session]
ToWsd ==
  [type : {"tiles"}, tiles : Seq(Rendered)] \cup [type : {"trimmed"}]
    \cup [type : {"invalidate"}, session : Session, area : Areas]
    \cup [type : {"canonicalidchange"}, session : Session]
ClientState == [image : [Tile -> Int], asked : SUBSET Tile, acks : Seq(Nat)]

(* The types of all that is kept and of all that is on its way.               *)
TypeOK ==
  /\ doc \in [Tile -> Nat] /\ unsynced \subseteq View
  /\ kit \in KitState
  /\ wsd \in Broker /\ wsd.out = <<>>
  /\ toKit \in Seq(ToKit) /\ toWsd \in Seq(ToWsd)
  /\ client \in [Session -> ClientState]
  /\ count \in [changes : Nat, events : Nat]

(* Kit and broker agree on what a delta is made from: a chain in the cache is *)
(* a keyframe and deltas, each from the content before it, whatever was       *)
(* dropped, evicted or rendered twice meanwhile (the FIXME of                 *)
(* handleTileInvalidation, "out of (a)sync kit vs. TileCache re: keyframes"). *)
ChainIsSound ==
  \A k \in CachedTiles(wsd.cache) :
    LET blobs == wsd.cache[k].blobs IN
      /\ blobs[1].key
      /\ \A i \in 2..Len(blobs) : blobs[i].from = blobs[i - 1].to /\ blobs[i].wid > blobs[i - 1].wid

Awaited(s, t) ==
  \/ \E i \in DOMAIN kit.callbacks : kit.callbacks[i].lo <= t /\ t <= kit.callbacks[i].hi
  \/ \E i \in DOMAIN toWsd : /\ toWsd[i].type = "invalidate" /\ toWsd[i].session = s
                             /\ toWsd[i].area.lo <= t /\ t <= toWsd[i].area.hi

(* A tile the broker would send from its cache shows the document as it is,   *)
(* unless the invalidation is on its way: setting _valid when a rendering     *)
(* arrives cannot cover up a later change (the FIXME of appendBlob,           *)
(* "possible race").                                                          *)
CacheIsFresh ==
  \A k \in CachedTiles(wsd.cache) :
    wsd.cache[k].valid /\ Synced(k[1]) /\ k[1] \notin unsynced =>
      \/ Last(wsd.cache[k].blobs).to = doc[k[2]]
      \/ \E s \in Session : ViewOf[s] = k[1] /\ Awaited(s, k[2])

(* "all views have to be in sync" (Document::ViewCallback): no session of a   *)
(* canonical view is needed for the tiles of that view to be invalidated.     *)
ViewsInSync ==
  \A k \in CachedTiles(wsd.cache) :
    wsd.cache[k].valid =>
      Last(wsd.cache[k].blobs).to = doc[k[2]] \/ \E s \in Session : Awaited(s, k[2])

(* A session that waits for a tile is always owed an answer that is new       *)
(* enough to end the wait: versions never strand a subscriber between two     *)
(* racing renderings.                                                         *)
SubscriberIsServed ==
  \A k \in Key :
    wsd.rendering[k] # NoTile /\ wsd.rendering[k].subscribers # {} =>
      \/ \E i \in DOMAIN toKit : /\ toKit[i].type = "tile" /\ toKit[i].key = k
                                 /\ toKit[i].ver >= wsd.rendering[k].ver
      \/ \E r \in kit.tiles : r.key = k /\ r.ver >= wsd.rendering[k].ver
      \/ \E i \in DOMAIN toWsd : /\ toWsd[i].type = "tiles"
                                 /\ \E j \in DOMAIN toWsd[i].tiles :
                                      /\ toWsd[i].tiles[j].key = k
                                      /\ toWsd[i].tiles[j].ver >= wsd.rendering[k].ver

(* "Tracks view-port area tiles to track which we last sent to avoid          *)
(* re-sending an existing delta causing grief" (ClientDeltaTracker).          *)
NeverGarbage == \A s \in Session, t \in Tile : client[s].image[t] # Garbage

(* When nothing is under way any more, every active client shows the document *)
(* as it is: no change gets lost between the Kit, the cache, the tracker of   *)
(* what was sent and the queue. A session whose limit of tiles on the fly is  *)
(* exhausted waits for an acknowledgement or for the timeout.                 *)
Quiet ==
  /\ toKit = <<>> /\ toWsd = <<>> /\ kit.callbacks = <<>> /\ kit.tiles = {}
  /\ \A s \in wsd.sessions :
       wsd.session[s].queue = <<>> /\ client[s].acks = <<>> /\ Missing(s) = {}

ScreensAreRight ==
  Quiet => \A s \in wsd.sessions \cap kit.active : \A t \in Visible[s] :
             \/ ViewOf[s] \in unsynced
             \/ Len(wsd.session[s].onFly) >= OnFlyLimit
             \/ client[s].image[t] = doc[t]

(* "All tiles were processed on client side that we sent last time"           *)
(* (sendRequestedTiles): a tile counted as on the fly is one the client has   *)
(* still to receive or has acknowledged, so that it leaves the count.         *)
OnFlyIsOwed ==
  \A s \in wsd.sessions : \A i \in DOMAIN wsd.session[s].onFly :
    LET wid == wsd.session[s].onFly[i].wid IN
      \/ \E j \in DOMAIN wsd.session[s].queue : wsd.session[s].queue[j].wid = wid
      \/ \E j \in DOMAIN client[s].acks : client[s].acks[j] = wid
=============================================================================
