------------------------------- MODULE TileProofs ------------------------------
(* What the broker caches of a rendered tile fits together, and whoever waits *)
(* for one is served, for any sessions, views and tiles.                      *)
(*                                                                            *)
(* The chains (Chains): per tile, the last cached blob and the renderings on  *)
(* their way to the broker are in the order of their wire ids, each delta     *)
(* starts from what the one before it ends in, and so will the next, if the   *)
(* Kit still holds what it rendered last. A tile that is dropped by the broker *)
(* comes back with a keyframe only, and so does one whose last rendering the  *)
(* Kit has dropped.                                                           *)
(*                                                                            *)
(* The versions (Served): an entry with subscribers is older than something   *)
(* that is asked for, queued in the Kit or on its way back, versions rise     *)
(* along that way, so that a newer request replaces an older one, and an entry *)
(* without is older than every request that may still join it. The Kit drops  *)
(* a request only for a view without sessions, and then nobody waits for it,  *)
(* since the sessions of the broker are sessions of the Kit (Members).        *)
EXTENDS TileFlow, Induction, FiniteSetTheorems, SequenceTheorems

(* Positions from left to right are those positions, each once.               *)
LEMMA RowIs ==
  ASSUME Tiles \in Nat, NEW T \in SUBSET Tile
  PROVE  /\ Row(T) \in Seq(T)
         /\ \A i, j \in DOMAIN Row(T) : i # j => Row(T)[i] # Row(T)[j]
         /\ \A t \in T : \E i \in DOMAIN Row(T) : Row(T)[i] = t
<1> DEFINE L == Tiles
           A == Seq(T)
           B == <<>>
           K(x, n) == IF n \in T THEN Append(x, n) ELSE x
           F(h) == [n \in 0 .. L |-> IF n = 0 THEN B ELSE K(h[n - 1], n)]
<1>1. L \in Nat /\ B \in A /\ \A x \in A : \A n \in 1 .. L : K(x, n) \in A
  <2>1. \A S : <<>> \in Seq(S)
    OBVIOUS
  <2> QED BY <2>1
<1>2. \E h : h = F(h)
  <2> DEFINE step == [x \in A |-> [n \in 1 .. L |-> K(x, n)]]
  <2> HIDE DEF A, B, L, K
  <2>1. step \in [A -> [1 .. L -> A]]
    BY <1>1
  <2>2. \A x \in A : \A n \in 1 .. L : step[x][n] = K(x, n)
    OBVIOUS
  <2> HIDE DEF step
  <2>3. PICK h \in [0 .. L -> A] : FoldsAlong(h, B, step, L)
    BY <1>1, <2>1, FoldExists
  <2>4. h[0] = B /\ \A n \in 1 .. L : h[n] = step[h[n - 1]][n]
    BY <2>3 DEF FoldsAlong
  <2>5. ASSUME NEW n \in 0 .. L PROVE h[n] = IF n = 0 THEN B ELSE K(h[n - 1], n)
    <3>1. n # 0 => n \in 1 .. L /\ n - 1 \in 0 .. L
      BY <1>1
    <3> QED BY <2>2, <2>4, <3>1
  <2>6. h = F(h)
    BY <2>5
  <2> QED BY <2>6
<1>3. PICK k : k = F(k) /\ Row(T) = k[L]
  BY <1>2 DEF Row
<1>4. k[0] = B /\ \A n \in 1 .. L : k[n] = K(k[n - 1], n)
  <2> HIDE DEF A, B, L, K
  <2>1. \A n \in 0 .. L : k[n] = F(k)[n]
    BY <1>3
  <2>2. F(k)[0] = B
    BY <1>1
  <2>3. ASSUME NEW n \in 1 .. L PROVE F(k)[n] = K(k[n - 1], n)
    BY <1>1
  <2> HIDE DEF F
  <2>4. 0 \in 0 .. L /\ \A n \in 1 .. L : n \in 0 .. L
    BY <1>1
  <2> QED BY <2>1, <2>2, <2>3, <2>4
<1>5. \A n \in 0 .. L : k[n] \in A
  <2> HIDE DEF A, B, L, K
  <2>1. \A n \in 1 .. L : k[n - 1] \in A => k[n] \in A
    BY <1>1, <1>4
  <2> QED BY <1>1, <1>4, <2>1, Along
<1> HIDE DEF F
<1> DEFINE Once(s, n) == \A i \in DOMAIN s : s[i] \in 1 .. n /\ \A j \in DOMAIN s : i # j => s[i] # s[j]
           P == {n \in 0 .. L : Once(k[n], n)}
<1>6. 0 \in P
  BY <1>1, <1>4
<1>7. ASSUME NEW n \in 1 .. L, n - 1 \in P PROVE n \in P
  <2>1. /\ k[n - 1] \in Seq(T) /\ Once(k[n - 1], n - 1) /\ k[n] = K(k[n - 1], n) /\ n \in 0 .. L
        /\ n - 1 \in 0 .. L
    BY <1>1, <1>4, <1>5, <1>7
  <2>2. CASE n \in T
    <3> DEFINE s == k[n - 1]
    <3>1. k[n] = Append(s, n) /\ s \in Seq(T)
      BY <2>1, <2>2
    <3>2. /\ DOMAIN Append(s, n) = 1 .. Len(s) + 1 /\ Len(s) \in Nat /\ DOMAIN s = 1 .. Len(s)
          /\ Append(s, n)[Len(s) + 1] = n /\ \A i \in 1 .. Len(s) : Append(s, n)[i] = s[i]
      BY <2>1, <2>2
    <3>3. \A i \in 1 .. Len(s) + 1 : i = Len(s) + 1 \/ i \in 1 .. Len(s)
      BY <3>2
    <3>4. \A i \in DOMAIN s : s[i] \in 1 .. n - 1 /\ \A j \in DOMAIN s : i # j => s[i] # s[j]
      BY <2>1
    <3> HIDE DEF s
    <3>5. Once(Append(s, n), n)
      BY <3>2, <3>3, <3>4
    <3> QED BY <2>1, <3>1, <3>5
  <2>3. CASE n \notin T
    <3>1. k[n] = k[n - 1]
      BY <2>1, <2>3
    <3>2. \A i \in 1 .. n - 1 : i \in 1 .. n
      OBVIOUS
    <3>3. Once(k[n], n)
      BY <2>1, <3>1, <3>2
    <3> QED BY <2>1, <3>3
  <2> QED BY <2>2, <2>3
<1> HIDE DEF P
<1>8. L \in P /\ k[L] \in Seq(T)
  <2>1. \A n \in 0 .. L : n \in P
    BY <1>1, <1>6, <1>7, Stepwise
  <2> QED BY <1>1, <1>5, <2>1
<1> DEFINE All(s, n) == \A t \in T : t <= n => \E i \in DOMAIN s : s[i] = t
           Q == {n \in 0 .. L : All(k[n], n)}
<1>9. T \in SUBSET Nat /\ \A t \in T : 1 <= t /\ t <= L
  BY DEF Tile
<1>10. 0 \in Q
  BY <1>1, <1>9
<1>11. ASSUME NEW n \in 1 .. L, n - 1 \in Q PROVE n \in Q
  <2>1. /\ k[n - 1] \in Seq(T) /\ All(k[n - 1], n - 1) /\ k[n] = K(k[n - 1], n) /\ n \in 0 .. L
        /\ n - 1 \in 0 .. L
    BY <1>1, <1>4, <1>5, <1>11
  <2>2. \A t \in T : t <= n => t = n \/ t <= n - 1
    BY <1>9
  <2>3. CASE n \in T
    <3> DEFINE s == k[n - 1]
    <3>1. k[n] = Append(s, n) /\ s \in Seq(T)
      BY <2>1, <2>3
    <3>2. /\ DOMAIN Append(s, n) = 1 .. Len(s) + 1 /\ Len(s) \in Nat /\ DOMAIN s = 1 .. Len(s)
          /\ Append(s, n)[Len(s) + 1] = n /\ \A i \in 1 .. Len(s) : Append(s, n)[i] = s[i]
      BY <2>1, <2>3
    <3>3. Len(s) + 1 \in 1 .. Len(s) + 1 /\ \A i \in 1 .. Len(s) : i \in 1 .. Len(s) + 1
      BY <3>2
    <3>4. \A t \in T : t <= n - 1 => \E i \in DOMAIN s : s[i] = t
      BY <2>1
    <3> HIDE DEF s
    <3>5. All(Append(s, n), n)
      BY <2>2, <3>2, <3>3, <3>4
    <3> QED BY <2>1, <3>1, <3>5
  <2>4. CASE n \notin T
    <3>1. k[n] = k[n - 1]
      BY <2>1, <2>4
    <3>2. All(k[n], n)
      BY <2>1, <2>2, <2>4, <3>1
    <3> QED BY <2>1, <3>2
  <2> QED BY <2>3, <2>4
<1> HIDE DEF Q
<1>12. L \in Q
  <2>1. \A n \in 0 .. L : n \in Q
    BY <1>1, <1>10, <1>11, Stepwise
  <2> QED BY <1>1, <2>1
<1>13. \A t \in T : \E i \in DOMAIN k[L] : k[L][i] = t
  BY <1>9, <1>12 DEF Q
<1> QED BY <1>3, <1>8, <1>13 DEF P

(* The rest of a sequence from the first of some of its places on.            *)
LEMMA FromIs ==
  ASSUME NEW S, NEW seq \in Seq(S), NEW places \in SUBSET (DOMAIN seq)
  PROVE  From(seq, places) \in Seq(S)
<1>1. \A X : <<>> \in Seq(X)
  OBVIOUS
<1>2. CASE places # {}
  <2> DEFINE p == CHOOSE i \in places : \A j \in places : i <= j
  <2>1. places \in SUBSET Nat /\ places # {}
    BY <1>2
  <2>2. \E i \in places : \A j \in places : i <= j
    BY <2>1, Least
  <2>3. p \in places /\ p \in 1 .. Len(seq)
    BY <2>2
  <2> HIDE DEF p
  <2>4. SubSeq(seq, p, Len(seq)) \in Seq(S)
    BY <2>3
  <2> QED BY <1>2, <2>4 DEF From, p
<1> QED BY <1>1, <1>2 DEF From

(* A sequence without one of its places.                                      *)
LEMMA RemoveAtIs ==
  ASSUME NEW S, NEW seq \in Seq(S), NEW i \in DOMAIN seq
  PROVE  RemoveAt(seq, i) \in Seq(S)
<1>1. SubSeq(seq, 1, i - 1) \in Seq(S) /\ SubSeq(seq, i + 1, Len(seq)) \in Seq(S)
  OBVIOUS
<1> QED BY <1>1 DEF RemoveAt

(* A finite set, put into a sequence.                                         *)
LEMMA SetToSeqIs ==
  ASSUME NEW S, IsFiniteSet(S)
  PROVE  SetToSeq(S) \in Seq(S)
<1> DEFINE n == Cardinality(S)
<1>1. n \in Nat /\ \E g : g \in [1 .. n -> S] /\ \A a, b \in DOMAIN g : g[a] = g[b] => a = b
  <2>1. n \in Nat /\ ExistsBijection(1 .. n, S)
    BY FS_CardinalityType
  <2>2. PICK g \in Bijection(1 .. n, S) : TRUE
    BY <2>1 DEF ExistsBijection
  <2>3. g \in [1 .. n -> S] /\ \A a, b \in 1 .. n : g[a] = g[b] => a = b
    BY <2>2 DEF Bijection, Injection, IsInjective
  <2>4. DOMAIN g = 1 .. n
    BY <2>3
  <2> QED BY <2>1, <2>3, <2>4
<1>2. SetToSeq(S) \in [1 .. n -> S]
  BY <1>1 DEF SetToSeq, IsInjective
<1> QED BY <1>1, <1>2

-----------------------------------------------------------------------------
(* The operators of the queues and of the cache.                              *)

(* Areas that are joined or kept are areas.                                   *)
LEMMA PutIs ==
  ASSUME NEW callbacks \in Seq(Areas), NEW area \in Areas
  PROVE  PutInvalidation(callbacks, area) \in Seq(Areas)
<1> DEFINE L == Len(callbacks)
           A == [msg : Areas, kept : Seq(Areas)]
           B == [msg |-> area, kept |-> <<>>]
           K(x, n) == ElideStep(x, callbacks[n])
           F(h) == [n \in 0 .. L |-> IF n = 0 THEN B ELSE K(h[n - 1], n)]
<1>1. L \in Nat /\ B \in A /\ \A x \in A : \A n \in 1 .. L : K(x, n) \in A
  <2>1. \A S : <<>> \in Seq(S)
    OBVIOUS
  <2>2. B \in A
    BY <2>1
  <2>3. ASSUME NEW x \in A, NEW n \in 1 .. L PROVE K(x, n) \in A
    <3>1. callbacks[n] \in Areas /\ x.msg \in Areas /\ x.kept \in Seq(Areas)
      OBVIOUS
    <3>2. Join(x.msg, callbacks[n]) \in Areas
      BY <3>1 DEF Join, Area, Areas
    <3>3. [x EXCEPT !.msg = Join(x.msg, callbacks[n])] \in A
      BY <3>1, <3>2
    <3>4. Append(x.kept, callbacks[n]) \in Seq(Areas)
      BY <3>1
    <3>5. [x EXCEPT !.kept = Append(@, callbacks[n])] \in A
      <4> HIDE DEF L
      <4> QED BY <3>1, <3>4
    <3> HIDE DEF A
    <3> QED BY <3>3, <3>5 DEF ElideStep
  <2> HIDE DEF A, B
  <2> QED BY <2>2, <2>3
<1>2. \E h : h = F(h)
  <2> DEFINE step == [x \in A |-> [n \in 1 .. L |-> K(x, n)]]
  <2> HIDE DEF A, B, L, K
  <2>1. step \in [A -> [1 .. L -> A]]
    BY <1>1
  <2>2. \A x \in A : \A n \in 1 .. L : step[x][n] = K(x, n)
    OBVIOUS
  <2> HIDE DEF step
  <2>3. PICK h \in [0 .. L -> A] : FoldsAlong(h, B, step, L)
    BY <1>1, <2>1, FoldExists
  <2>4. h[0] = B /\ \A n \in 1 .. L : h[n] = step[h[n - 1]][n]
    BY <2>3 DEF FoldsAlong
  <2>5. ASSUME NEW n \in 0 .. L PROVE h[n] = IF n = 0 THEN B ELSE K(h[n - 1], n)
    <3>1. n # 0 => n \in 1 .. L /\ n - 1 \in 0 .. L
      BY <1>1
    <3> QED BY <2>2, <2>4, <3>1
  <2>6. h = F(h)
    BY <2>5
  <2> QED BY <2>6
<1>3. PICK k : k = F(k) /\ PutInvalidation(callbacks, area) = Append(k[L].kept, k[L].msg)
  BY <1>2 DEF PutInvalidation
<1>4. k[0] = B /\ \A n \in 1 .. L : k[n] = K(k[n - 1], n)
  <2> HIDE DEF A, B, L, K
  <2>1. \A n \in 0 .. L : k[n] = F(k)[n]
    BY <1>3
  <2>2. F(k)[0] = B
    BY <1>1
  <2>3. ASSUME NEW n \in 1 .. L PROVE F(k)[n] = K(k[n - 1], n)
    BY <1>1
  <2> HIDE DEF F
  <2>4. 0 \in 0 .. L /\ \A n \in 1 .. L : n \in 0 .. L
    BY <1>1
  <2> QED BY <2>1, <2>2, <2>3, <2>4
<1>5. \A n \in 0 .. L : k[n] \in A
  <2> HIDE DEF A, B, L, K
  <2>1. \A n \in 1 .. L : k[n - 1] \in A => k[n] \in A
    BY <1>1, <1>4
  <2> QED BY <1>1, <1>4, <2>1, Along
<1>6. k[L] \in A
  BY <1>1, <1>5
<1> HIDE DEF F, L
<1> QED BY <1>3, <1>6

(* What a client shows is a content, or none, or garbage.                     *)
LEMMA ApplyIs ==
  ASSUME NEW content \in Int, NEW blobs \in Seq(Blob)
  PROVE  Apply(content, blobs) \in Int
<1> DEFINE L == Len(blobs)
           A == Int
           B == content
           K(x, n) == ApplyBlob(x, blobs[n])
           F(h) == [n \in 0 .. L |-> IF n = 0 THEN B ELSE K(h[n - 1], n)]
<1>1. L \in Nat /\ B \in A /\ \A x \in A : \A n \in 1 .. L : K(x, n) \in A
  <2>1. ASSUME NEW x \in Int, NEW n \in 1 .. L PROVE K(x, n) \in Int
    <3>1. blobs[n] \in Blob
      OBVIOUS
    <3>2. blobs[n].to \in Int
      BY <3>1 DEF Blob
    <3> QED BY <3>2 DEF ApplyBlob, NoImage, Garbage
  <2> QED BY <2>1
<1>2. \E h : h = F(h)
  <2> DEFINE step == [x \in A |-> [n \in 1 .. L |-> K(x, n)]]
  <2> HIDE DEF A, B, L, K
  <2>1. step \in [A -> [1 .. L -> A]]
    BY <1>1
  <2>2. \A x \in A : \A n \in 1 .. L : step[x][n] = K(x, n)
    OBVIOUS
  <2> HIDE DEF step
  <2>3. PICK h \in [0 .. L -> A] : FoldsAlong(h, B, step, L)
    BY <1>1, <2>1, FoldExists
  <2>4. h[0] = B /\ \A n \in 1 .. L : h[n] = step[h[n - 1]][n]
    BY <2>3 DEF FoldsAlong
  <2>5. ASSUME NEW n \in 0 .. L PROVE h[n] = IF n = 0 THEN B ELSE K(h[n - 1], n)
    <3>1. n # 0 => n \in 1 .. L /\ n - 1 \in 0 .. L
      BY <1>1
    <3> QED BY <2>2, <2>4, <3>1
  <2>6. h = F(h)
    BY <2>5
  <2> QED BY <2>6
<1>3. PICK k : k = F(k) /\ Apply(content, blobs) = k[L]
  BY <1>2 DEF Apply
<1>4. k[0] = B /\ \A n \in 1 .. L : k[n] = K(k[n - 1], n)
  <2> HIDE DEF A, B, L, K
  <2>1. \A n \in 0 .. L : k[n] = F(k)[n]
    BY <1>3
  <2>2. F(k)[0] = B
    BY <1>1
  <2>3. ASSUME NEW n \in 1 .. L PROVE F(k)[n] = K(k[n - 1], n)
    BY <1>1
  <2> HIDE DEF F
  <2>4. 0 \in 0 .. L /\ \A n \in 1 .. L : n \in 0 .. L
    BY <1>1
  <2> QED BY <2>1, <2>2, <2>3, <2>4
<1>5. \A n \in 0 .. L : k[n] \in A
  <2> HIDE DEF A, B, L, K
  <2>1. \A n \in 1 .. L : k[n - 1] \in A => k[n] \in A
    BY <1>1, <1>4
  <2> QED BY <1>1, <1>4, <2>1, Along
<1>6. k[L] \in A
  BY <1>1, <1>5
<1> HIDE DEF F, L
<1> QED BY <1>3, <1>6

(* The queue to a client.                                                     *)
LEMMA EnqueueIs ==
  ASSUME NEW queue \in Seq(Item), NEW item \in Item
  PROVE  Enqueue(queue, item) \in Seq(Item)
<1> DEFINE Same == {i \in DOMAIN queue : queue[i].type = "tile" /\ queue[i].key = item.key}
<1>1. ASSUME Same # {} PROVE \E i \in Same : \A j \in 1 .. (i - 1) : j \notin Same
  <2>1. Same \in SUBSET Nat
    OBVIOUS
  <2>2. PICK i \in Same : \A j \in Same : i <= j
    BY <1>1, <2>1, Least
  <2>3. \A j \in 1 .. (i - 1) : ~(i <= j)
    BY <2>1
  <2> QED BY <2>2, <2>3
<1>2. Deduplicate(queue, item) \in Seq(Item)
  <2> DEFINE Is(i) == /\ queue[i].type = "tile" /\ queue[i].key = item.key
                      /\ \A j \in 1 .. (i - 1) : ~(queue[j].type = "tile" /\ queue[j].key = item.key)
             pos == CHOOSE i \in DOMAIN queue : Is(i)
  <2>1. CASE item.type = "tile" /\ \E i \in DOMAIN queue : queue[i].type = "tile" /\ queue[i].key = item.key
    <3>1. PICK i \in Same : \A j \in 1 .. (i - 1) : j \notin Same
      BY <1>1, <2>1
    <3>2. \A j \in 1 .. (i - 1) : j \in DOMAIN queue
      OBVIOUS
    <3>3. i \in DOMAIN queue /\ Is(i)
      BY <3>1, <3>2
    <3>4. pos \in DOMAIN queue
      BY <3>3
    <3>5. Deduplicate(queue, item) = RemoveAt(queue, pos)
      BY <2>1 DEF Deduplicate
    <3> HIDE DEF pos
    <3> QED BY <3>4, <3>5, RemoveAtIs
  <2> QED BY <2>1 DEF Deduplicate
<1> QED BY <1>2 DEF Enqueue

(* What the cache holds.                                                      *)
LEMMA ChangesAre ==
  ASSUME NEW tile \in CachedTile, NEW since
  PROVE  /\ ChangesSince(tile, since) \in Seq(Blob)
         /\ LastWid(tile) \in Nat /\ Last(tile.blobs) \in Blob /\ tile.blobs[1] \in Blob
         /\ TooLarge(tile) \in BOOLEAN
<1>1. tile.blobs \in Seq(Blob) /\ tile.blobs # <<>>
  BY DEF CachedTile
<1>2. {i \in DOMAIN tile.blobs : since = 0 \/ tile.blobs[i].wid > since} \in SUBSET DOMAIN tile.blobs
  OBVIOUS
<1>3. ChangesSince(tile, since) \in Seq(Blob)
  BY <1>1, <1>2, FromIs DEF ChangesSince
<1>4. Len(tile.blobs) \in DOMAIN tile.blobs /\ 1 \in DOMAIN tile.blobs
  BY <1>1
<1>5. tile.blobs[Len(tile.blobs)] \in Blob /\ tile.blobs[1] \in Blob
  BY <1>1, <1>4
<1>6. LastWid(tile) \in Nat /\ Last(tile.blobs) \in Blob
  BY <1>5 DEF LastWid, Last, Blob
<1>7. TooLarge(tile) \in BOOLEAN
  BY DEF TooLarge
<1> QED BY <1>3, <1>5, <1>6, <1>7

(* A rendering that comes in.                                                 *)
LEMMA SavedIs ==
  ASSUME NEW tile \in CachedTile \cup {NoTile}, NEW blob \in Blob
  PROVE  SaveDataToCache(tile, blob) \in CachedTile \cup {NoTile}
<1>1. ASSUME tile # NoTile PROVE AppendBlob(tile, blob) \in CachedTile
  <2>1. tile \in CachedTile /\ tile.blobs \in Seq(Blob) /\ tile.blobs # <<>>
    BY <1>1 DEF CachedTile
  <2> DEFINE b == tile.blobs
             last == [b EXCEPT ![Len(b)].wid = blob.wid]
  <2>2. <<blob>> \in Seq(Blob) \ {<<>>} /\ Append(b, blob) \in Seq(Blob) \ {<<>>}
    BY <2>1
  <2>3. last \in Seq(Blob) \ {<<>>}
    <3>1. Len(b) \in DOMAIN b /\ Len(b) \in Nat /\ DOMAIN b = 1 .. Len(b) /\ b[Len(b)] \in Blob
      BY <2>1
    <3>2. [b[Len(b)] EXCEPT !.wid = blob.wid] \in Blob
      BY <3>1 DEF Blob
    <3>3. last = [b EXCEPT ![Len(b)] = [b[Len(b)] EXCEPT !.wid = blob.wid]]
      OBVIOUS
    <3>4. DOMAIN last = 1 .. Len(b) /\ \A i \in 1 .. Len(b) : last[i] \in Blob
      BY <2>1, <3>1, <3>2, <3>3
    <3>5. last \in [1 .. Len(b) -> Blob]
      <4>1. last = [i \in DOMAIN b |-> last[i]]
        OBVIOUS
      <4> QED BY <3>4, <4>1, <3>1
    <3>6. last \in Seq(Blob)
      BY <3>1, <3>5
    <3>7. last # <<>>
      BY <3>1, <3>4
    <3> QED BY <3>6, <3>7
  <2> DEFINE new == IF IsKeyframe(blob) THEN <<blob>>
                    ELSE IF IsEmpty(blob) /\ Len(b) > 1 /\ IsEmpty(Last(b)) THEN last ELSE Append(b, blob)
  <2> HIDE DEF last
  <2>4. new \in Seq(Blob) \ {<<>>}
    BY <2>2, <2>3
  <2>5. AppendBlob(tile, blob) = [tile EXCEPT !.valid = TRUE, !.blobs = new]
    BY DEF AppendBlob, last
  <2> HIDE DEF new
  <2>6. [tile EXCEPT !.valid = TRUE, !.blobs = new] \in CachedTile
    BY <2>1, <2>4 DEF CachedTile
  <2> QED BY <2>5, <2>6
<1>2. NewTile(blob) \in CachedTile
  <2>1. <<blob>> \in Seq(Blob) \ {<<>>} /\ blob.wid \in Nat
    BY DEF Blob
  <2> QED BY <2>1 DEF NewTile, CachedTile
<1> QED BY <1>1, <1>2 DEF SaveDataToCache

-----------------------------------------------------------------------------
(* The handlers of the broker. `due` is what is to be rendered or on its way  *)
(* to the broker, as the requests or the tiles with their versions; `more`    *)
(* are requests of a session that a loop has still to come to.                *)

Owed(due, e, k) == \E x \in due : x.key = k /\ x.ver >= e.ver

Newer(w, more, e, k) ==
  /\ \A r \in more : r.key = k => r.ver > e.ver
  /\ \A s \in Session : \A r \in In(w.session[s].requested) : r.key = k => r.ver > e.ver

(* A rendering that sessions wait for is due, and one that is not is older    *)
(* than whatever may still join it.                                           *)
EntryOk(due, more, w, k) ==
  LET e == w.rendering[k]
  IN  e # NoTile =>
        /\ e.ver <= w.ver
        /\ \A s \in e.subscribers : s \in w.sessions /\ ViewOf[s] = k[1]
        /\ \/ Owed(due \cup In(w.out), e, k)
           \/ e.subscribers = {} /\ Newer(w, more, e, k)

RequestsOk(w) ==
  \A s \in Session : \A r \in In(w.session[s].requested) :
    s \in w.sessions /\ r.key[1] = ViewOf[s] /\ r.ver <= w.ver

(* Requests are sent with versions that rise.                                 *)
Rising(q, lo, hi) ==
  \A i \in DOMAIN q : q[i].type = "tile" =>
    /\ lo <= q[i].ver /\ q[i].ver <= hi
    /\ \A j \in 1 .. i : q[j].type = "tile" => q[j].ver <= q[i].ver

Good(due, base, more, w) ==
  /\ w \in Broker /\ \A x \in due : x.ver \in Nat
  /\ \A k \in Key : EntryOk(due, more, w, k)
  /\ RequestsOk(w)
  /\ Rising(w.out, base, w.ver)

(* What the handlers of requests leave alone.                                 *)
Kept(w, v) == v.cache = w.cache /\ v.sessions = w.sessions /\ v.ver >= w.ver

(* What sending leaves alone.                                                 *)
Calm(w, v) ==
  /\ v.cache = w.cache /\ v.rendering = w.rendering /\ v.sessions = w.sessions
  /\ v.ver = w.ver /\ v.out = w.out
  /\ \A s \in Session : v.session[s].requested = w.session[s].requested

LEMMA CalmIsGood ==
  ASSUME NEW due, NEW base, NEW more, NEW w, Good(due, base, more, w),
         NEW v \in Broker, Calm(w, v)
  PROVE  Good(due, base, more, v)
<1>1. \A k \in Key : EntryOk(due, more, v, k)
  <2> TAKE k \in Key
  <2>1. EntryOk(due, more, w, k)
    BY DEF Good
  <2>2. \A e : Newer(w, more, e, k) => Newer(v, more, e, k)
    BY DEF Newer, Calm
  <2> QED BY <2>1, <2>2 DEF EntryOk, Calm
<1>2. RequestsOk(v)
  BY DEF Good, RequestsOk, Calm
<1> QED BY <1>1, <1>2 DEF Good, Calm

(* A tile is sent to a session.                                               *)
LEMMA SendTileNowIs ==
  ASSUME NEW ses \in SessionState, NEW key \in Key, NEW wid \in Nat, NEW tile \in CachedTile
  PROVE  /\ SendTileNow(ses, key, wid, tile) \in SessionState
         /\ SendTileNow(ses, key, wid, tile).requested = ses.requested
<1> DEFINE since == ses.lastSent[key]
           item == [type  |-> IF NeedsKeyframe(tile, since) THEN "tile" ELSE "delta",
                    key   |-> key, wid |-> wid, blobs |-> ChangesSince(tile, since)]
           queue == Enqueue(ses.queue, item)
           sent == [ses.lastSent EXCEPT ![key] = wid]
           onFly == IF Len(queue) # Len(ses.queue) THEN Append(ses.onFly, [wid |-> wid, old |-> FALSE])
                    ELSE ses.onFly
<1>1. /\ ses.lastSent \in [Key -> Nat] /\ ses.requested \in Seq(Request)
      /\ ses.onFly \in Seq([wid : Nat, old : BOOLEAN]) /\ ses.queue \in Seq(Item)
  BY DEF SessionState
<1>2. ChangesSince(tile, since) \in Seq(Blob)
  BY ChangesAre
<1>3. item \in Item
  <2> HIDE DEF since
  <2> QED BY <1>2 DEF Item
<1> HIDE DEF item
<1>4. queue \in Seq(Item)
  BY <1>1, <1>3, EnqueueIs
<1> HIDE DEF queue
<1>5. sent \in [Key -> Nat] /\ onFly \in Seq([wid : Nat, old : BOOLEAN])
  <2>1. [wid |-> wid, old |-> FALSE] \in [wid : Nat, old : BOOLEAN]
    OBVIOUS
  <2>2. Append(ses.onFly, [wid |-> wid, old |-> FALSE]) \in Seq([wid : Nat, old : BOOLEAN])
    BY <1>1, <2>1
  <2> QED BY <1>1, <2>2
<1>6. SendTileNow(ses, key, wid, tile)
        = [ses EXCEPT !.lastSent = sent, !.queue = queue, !.onFly = onFly]
  BY DEF SendTileNow, queue, item
<1> HIDE DEF sent, onFly, since
<1>7. [ses EXCEPT !.lastSent = sent, !.queue = queue, !.onFly = onFly] \in SessionState
  BY <1>1, <1>4, <1>5 DEF SessionState
<1>8. [ses EXCEPT !.lastSent = sent, !.queue = queue, !.onFly = onFly].requested = ses.requested
  BY DEF SessionState
<1> QED BY <1>6, <1>7, <1>8

(* The state of a session is replaced.                                        *)
LEMMA SessionReplaced ==
  ASSUME NEW w \in Broker, NEW s \in Session, NEW ses \in SessionState
  PROVE  LET v == [w EXCEPT !.session[s] = ses]
         IN  /\ v \in Broker /\ v.session[s] = ses
             /\ \A x \in Session : x # s => v.session[x] = w.session[x]
             /\ v.cache = w.cache /\ v.rendering = w.rendering /\ v.sessions = w.sessions
             /\ v.ver = w.ver /\ v.out = w.out
             /\ ses.requested = w.session[s].requested => Calm(w, v)
<1> DEFINE v == [w EXCEPT !.session[s] = ses]
<1>1. w.session \in [Session -> SessionState]
  BY DEF Broker
<1>2. [w.session EXCEPT ![s] = ses] \in [Session -> SessionState]
  BY <1>1
<1>3. v \in Broker
  BY <1>2 DEF Broker
<1>4. /\ v.session = [w.session EXCEPT ![s] = ses]
      /\ v.cache = w.cache /\ v.rendering = w.rendering /\ v.sessions = w.sessions
      /\ v.ver = w.ver /\ v.out = w.out
  BY DEF Broker
<1> HIDE DEF v
<1>5. v.session[s] = ses /\ \A x \in Session : x # s => v.session[x] = w.session[x]
  BY <1>1, <1>4
<1>6. ses.requested = w.session[s].requested => Calm(w, v)
  BY <1>4, <1>5 DEF Calm
<1> QED BY <1>3, <1>4, <1>5, <1>6 DEF v

(* Sequences whose versions rise.                                             *)
LEMMA RisingMore ==
  ASSUME NEW q \in Seq(ToKit), NEW lo \in Nat, NEW mid \in Nat, NEW hi \in Nat, NEW r \in ToKit,
         Rising(q, lo, mid), lo <= mid, mid <= hi, r.type = "tile" => mid <= r.ver /\ r.ver <= hi /\ r.ver \in Nat
  PROVE  Rising(Append(q, r), lo, hi)
<1> DEFINE a == Append(q, r)
<1>1. /\ DOMAIN a = 1 .. Len(q) + 1 /\ Len(q) \in Nat /\ DOMAIN q = 1 .. Len(q)
      /\ a[Len(q) + 1] = r /\ \A i \in 1 .. Len(q) : a[i] = q[i]
  OBVIOUS
<1>2. \A i \in 1 .. Len(q) + 1 : i = Len(q) + 1 \/ i \in 1 .. Len(q)
  BY <1>1
<1> HIDE DEF a
<1>3. \A i \in 1 .. Len(q) : q[i].type = "tile" => q[i].ver \in Nat
  <2> TAKE i \in 1 .. Len(q)
  <2>1. q[i] \in ToKit
    BY <1>1
  <2> QED BY <2>1 DEF ToKit, Request
<1>4. ASSUME NEW i \in DOMAIN a, a[i].type = "tile"
      PROVE  /\ lo <= a[i].ver /\ a[i].ver <= hi
             /\ \A j \in 1 .. i : a[j].type = "tile" => a[j].ver <= a[i].ver
  <2>1. CASE i = Len(q) + 1
    <3>1. a[i] = r /\ r.type = "tile"
      BY <1>1, <1>4, <2>1
    <3>2. ASSUME NEW j \in 1 .. i, a[j].type = "tile" PROVE a[j].ver <= a[i].ver
      <4>1. j = i \/ j \in 1 .. Len(q)
        BY <1>1, <2>1
      <4>2. CASE j \in 1 .. Len(q)
        <5>1. a[j] = q[j] /\ q[j].ver <= mid /\ q[j].ver \in Nat
          BY <1>1, <1>3, <3>2, <4>2 DEF Rising
        <5> QED BY <3>1, <5>1
      <4> QED BY <3>1, <4>1, <4>2
    <3> QED BY <3>1, <3>2
  <2>2. CASE i \in 1 .. Len(q)
    <3>1. a[i] = q[i] /\ \A j \in 1 .. i : j \in 1 .. Len(q) /\ a[j] = q[j]
      BY <1>1, <2>2
    <3>2. lo <= q[i].ver /\ q[i].ver <= mid /\ \A j \in 1 .. i : q[j].type = "tile" => q[j].ver <= q[i].ver
      BY <1>1, <1>4, <2>2, <3>1 DEF Rising
    <3>3. q[i].ver \in Nat
      BY <1>3, <1>4, <2>2, <3>1
    <3> QED BY <2>2, <3>1, <3>2, <3>3
  <2> QED BY <1>1, <1>2, <2>1, <2>2
<1> QED BY <1>4 DEF Rising, a


(* Unless the entry of a tile is kept, its rendering is due.                  *)
Fresh(due, w, v) ==
  /\ In(w.out) \subseteq In(v.out)
  /\ \A k \in Key : v.rendering[k] = w.rendering[k] \/ Owed(due \cup In(v.out), v.rendering[k], k)

(* A session may ask for a tile: its request is newer than a rendering that   *)
(* is not due.                                                                *)
MayAsk(due, base, more, w, s, r) ==
  /\ base \in Nat /\ Good(due, base, more, w) /\ base <= w.ver
  /\ s \in w.sessions /\ r \in Request /\ r.key[1] = ViewOf[s] /\ r.ver <= w.ver
  /\ w.rendering[r.key] # NoTile =>
       Owed(due \cup In(w.out), w.rendering[r.key], r.key) \/ r.ver > w.rendering[r.key].ver

HasAsked(due, base, more, w, v) ==
  Good(due, base, more, v) /\ Kept(w, v) /\ v.session = w.session /\ v.ver = w.ver /\ Fresh(due, w, v)

(* A rendering is asked for, or one that is under way is joined.              *)
LEMMA RequestTileRenderingIs ==
  ASSUME NEW due, NEW base, NEW more, NEW w, NEW s, NEW r, NEW force \in BOOLEAN,
         MayAsk(due, base, more, w, s, r)
  PROVE  HasAsked(due, base, more, w, RequestTileRendering(w, s, r, w.ver, force))
<1>a. /\ base \in Nat /\ Good(due, base, more, w) /\ base <= w.ver
      /\ s \in w.sessions /\ r \in Request /\ r.key[1] = ViewOf[s] /\ r.ver <= w.ver
      /\ w.rendering[r.key] # NoTile =>
           Owed(due \cup In(w.out), w.rendering[r.key], r.key) \/ r.ver > w.rendering[r.key].ver
  BY DEF MayAsk
<1> DEFINE k == r.key
           e == w.rendering[k]
           needed == ~HasTileBeingRendered(e) \/ TileBeingRenderedVersion(e) < r.ver
           asked == [r EXCEPT !.ver = IF needed THEN w.ver ELSE @, !.force = @ \/ (needed /\ force)]
           out == IF needed THEN Append(w.out, asked) ELSE w.out
           f == SubscribeToTileRendering(e, asked.ver, s)
           v == [w EXCEPT !.out = out, !.rendering[k] = f]
<1>1. RequestTileRendering(w, s, r, w.ver, force) = v
  BY DEF RequestTileRendering
<1>2. /\ w \in Broker /\ w.ver \in Nat /\ w.out \in Seq(Request) /\ s \in Session /\ k \in Key
      /\ w.rendering \in [Key -> Rendering \cup {NoTile}] /\ r.ver \in Nat /\ r.force \in BOOLEAN
      /\ r.type = "tile" /\ w.sessions \in SUBSET Session
  BY <1>a DEF Good, Broker, Request
<1>3. needed \in BOOLEAN /\ (e # NoTile => e \in Rendering /\ e.ver \in Nat)
  BY <1>2 DEF Rendering
<1> HIDE DEF needed
<1>4. /\ asked \in Request /\ asked.key = k /\ asked.ver = IF needed THEN w.ver ELSE r.ver
  BY <1>a, <1>2, <1>3 DEF Request
<1> HIDE DEF asked
<1>5. /\ f \in Rendering
      /\ f.subscribers \subseteq (IF e = NoTile THEN {} ELSE e.subscribers) \cup {s}
      /\ f.ver = asked.ver \/ (e # NoTile /\ f.ver = e.ver)
  <2>1. asked.ver \in Nat
    BY <1>2, <1>4
  <2>2. CASE e = NoTile
    BY <1>2, <2>1, <2>2 DEF SubscribeToTileRendering, TileBeingRendered, Rendering
  <2>3. CASE e # NoTile /\ s \in e.subscribers
    <3>1. f = [e EXCEPT !.ver = asked.ver]
      BY <2>3 DEF SubscribeToTileRendering
    <3> HIDE DEF f, e
    <3>2. f \in Rendering /\ f.ver = asked.ver /\ f.subscribers = e.subscribers
      BY <1>3, <2>1, <2>3, <3>1 DEF Rendering
    <3> QED BY <2>3, <3>2
  <2>4. CASE e # NoTile /\ s \notin e.subscribers
    <3>1. f = [e EXCEPT !.subscribers = @ \cup {s}]
      BY <2>4 DEF SubscribeToTileRendering
    <3> HIDE DEF f, e
    <3>2. f \in Rendering /\ f.ver = e.ver /\ f.subscribers = e.subscribers \cup {s}
      BY <1>2, <1>3, <2>4, <3>1 DEF Rendering
    <3> QED BY <2>4, <3>2
  <2> QED BY <2>2, <2>3, <2>4
<1> HIDE DEF f
<1>6. out \in Seq(Request) /\ In(w.out) \subseteq In(out) /\ (needed => asked \in In(out))
  <2>1. CASE needed
    <3>1. Append(w.out, asked) \in Seq(Request) /\ In(Append(w.out, asked)) = In(w.out) \cup {asked}
      BY <1>2, <1>4, InOfOneMore
    <3> QED BY <2>1, <3>1
  <2>2. CASE ~needed
    BY <1>2, <2>2
  <2> QED BY <2>1, <2>2
<1> HIDE DEF out, e
<1>7. /\ v.rendering = [w.rendering EXCEPT ![k] = f] /\ v.out = out
      /\ v.cache = w.cache /\ v.sessions = w.sessions /\ v.session = w.session /\ v.ver = w.ver
  BY <1>2 DEF Broker
<1>8. v \in Broker
  <2>1. [w.rendering EXCEPT ![k] = f] \in [Key -> Rendering \cup {NoTile}]
    BY <1>2, <1>5
  <2> QED BY <1>2, <1>6, <2>1 DEF Broker
<1> HIDE DEF v
<1>9. \A x \in Key : v.rendering[x] = IF x = k THEN f ELSE w.rendering[x]
  BY <1>2, <1>7
<1>10. EntryOk(due, more, w, k)
  BY <1>a, <1>2 DEF Good
<1>11. Owed(due \cup In(out), f, k)
  <2>1. CASE needed
    <3>1. f.ver <= w.ver
      BY <1>a, <1>2, <1>4, <1>5, <1>10, <2>1 DEF EntryOk, e
    <3> QED BY <1>4, <1>6, <2>1, <3>1 DEF Owed
  <2>2. CASE ~needed
    <3>1. e # NoTile /\ ~(e.ver < r.ver)
      BY <2>2 DEF needed, HasTileBeingRendered, TileBeingRenderedVersion
    <3>2. Owed(due \cup In(w.out), e, k)
      BY <1>a, <1>2, <1>3, <3>1 DEF e
    <3>3. f.ver <= e.ver
      BY <1>2, <1>3, <1>4, <1>5, <2>2, <3>1
    <3>4. PICK x \in due \cup In(w.out) : x.key = k /\ x.ver >= e.ver
      BY <3>2 DEF Owed
    <3>5. x.ver \in Nat
      <4>1. x \in In(w.out) => x \in Request
        BY <1>2 DEF In
      <4> QED BY <1>a, <3>4, <4>1 DEF Good, Request
    <3>6. f.ver \in Nat /\ e.ver \in Nat
      BY <1>3, <1>5, <3>1 DEF Rendering
    <3>7. x.ver >= f.ver
      BY <3>3, <3>4, <3>5, <3>6
    <3> QED BY <1>6, <3>4, <3>7 DEF Owed
  <2> QED BY <2>1, <2>2
<1>12. ASSUME NEW x \in Key PROVE EntryOk(due, more, v, x)
  <2>1. EntryOk(due, more, w, x)
    BY <1>a DEF Good
  <2>2. CASE x # k
    <3>1. v.rendering[x] = w.rendering[x]
      BY <1>9, <2>2
    <3>2. \A d : Owed(due \cup In(w.out), d, x) => Owed(due \cup In(v.out), d, x)
      BY <1>6, <1>7 DEF Owed
    <3>3. \A d : Newer(w, more, d, x) => Newer(v, more, d, x)
      BY <1>7 DEF Newer
    <3> QED BY <1>7, <2>1, <3>1, <3>2, <3>3 DEF EntryOk
  <2>3. CASE x = k
    <3>1. v.rendering[x] = f
      BY <1>9, <2>3
    <3>2. f.ver <= v.ver
      BY <1>a, <1>2, <1>4, <1>5, <1>7, <1>10 DEF EntryOk, e
    <3>3. \A t \in f.subscribers : t \in v.sessions /\ ViewOf[t] = k[1]
      <4> TAKE t \in f.subscribers
      <4>1. t = s \/ (e # NoTile /\ t \in e.subscribers)
        BY <1>5
      <4> QED BY <1>a, <1>7, <1>10, <4>1 DEF EntryOk, e
    <3> QED BY <1>7, <1>11, <2>3, <3>1, <3>2, <3>3 DEF EntryOk
  <2> QED BY <2>2, <2>3
<1>13. RequestsOk(v)
  BY <1>a, <1>7 DEF Good, RequestsOk
<1>14. Rising(v.out, base, v.ver)
  <2>1. Rising(w.out, base, w.ver)
    BY <1>a DEF Good
  <2>2. CASE needed
    <3>1. w.out \in Seq(ToKit) /\ asked \in ToKit
      BY <1>2, <1>4 DEF ToKit
    <3>2. Rising(Append(w.out, asked), base, w.ver)
      <4>1. asked.ver = w.ver
        BY <1>4, <2>2
      <4> QED BY <1>a, <1>2, <2>1, <3>1, <4>1, RisingMore
    <3> QED BY <1>7, <2>2, <3>2 DEF out
  <2>3. CASE ~needed
    BY <1>7, <2>1, <2>3 DEF out
  <2> QED BY <2>2, <2>3
<1>15. Good(due, base, more, v)
  <2>1. \A x \in due : x.ver \in Nat
    BY <1>a DEF Good
  <2> QED BY <2>1, <1>8, <1>12, <1>13, <1>14 DEF Good
<1>16. Kept(w, v)
  BY <1>2, <1>7 DEF Kept
<1>17. Fresh(due, w, v)
  BY <1>6, <1>7, <1>9, <1>11 DEF Fresh
<1> QED BY <1>1, <1>7, <1>15, <1>16, <1>17 DEF HasAsked


(* More sessions' requests stay than go: what is owed is owed still.          *)
LEMMA RequestsReplaced ==
  ASSUME NEW due, NEW base, NEW more, NEW w, Good(due, base, more, w), NEW rest,
         NEW s \in w.sessions, NEW ses \in SessionState,
         \A r \in In(ses.requested) : r.key[1] = ViewOf[s] /\ r.ver <= w.ver,
         \A r \in In(ses.requested) :
           \/ r \in more \cup In(w.session[s].requested)
           \/ w.rendering[r.key] # NoTile =>
                Owed(due \cup In(w.out), w.rendering[r.key], r.key) \/ r.ver > w.rendering[r.key].ver,
         rest \subseteq more \cup In(w.session[s].requested)
  PROVE  Good(due, base, rest, [w EXCEPT !.session[s] = ses])
<1> DEFINE v == [w EXCEPT !.session[s] = ses]
<1>1. w \in Broker /\ s \in Session
  BY DEF Good, Broker
<1>2. /\ v \in Broker /\ v.session[s] = ses
      /\ \A x \in Session : x # s => v.session[x] = w.session[x]
      /\ v.cache = w.cache /\ v.rendering = w.rendering /\ v.sessions = w.sessions
      /\ v.ver = w.ver /\ v.out = w.out
  BY <1>1, SessionReplaced
<1> HIDE DEF v
<1>3. ASSUME NEW k \in Key PROVE EntryOk(due, rest, v, k)
  <2> DEFINE e == w.rendering[k]
  <2>1. EntryOk(due, more, w, k)
    BY DEF Good
  <2>2. ASSUME Newer(w, more, e, k), ~Owed(due \cup In(w.out), e, k), e # NoTile PROVE Newer(v, rest, e, k)
    <3>1. \A r \in more \cup In(w.session[s].requested) : r.key = k => r.ver > e.ver
      BY <1>1, <2>2 DEF Newer
    <3>2. \A r \in rest : r.key = k => r.ver > e.ver
      BY <3>1
    <3>3. ASSUME NEW r \in In(ses.requested), r.key = k PROVE r.ver > e.ver
      BY <2>2, <3>1, <3>3
    <3>4. ASSUME NEW x \in Session, NEW r \in In(v.session[x].requested), r.key = k PROVE r.ver > e.ver
      <4>1. CASE x = s
        BY <1>2, <3>3, <3>4, <4>1
      <4>2. CASE x # s
        BY <1>2, <2>2, <3>4, <4>2 DEF Newer
      <4> QED BY <4>1, <4>2
    <3> QED BY <3>2, <3>4 DEF Newer
  <2> QED BY <1>2, <2>1, <2>2 DEF EntryOk
<1>4. RequestsOk(v)
  <2> SUFFICES ASSUME NEW x \in Session, NEW r \in In(v.session[x].requested)
               PROVE  x \in v.sessions /\ r.key[1] = ViewOf[x] /\ r.ver <= v.ver
    BY DEF RequestsOk
  <2>1. CASE x = s
    BY <1>2, <2>1
  <2>2. CASE x # s
    BY <1>2, <2>2 DEF Good, RequestsOk
  <2> QED BY <2>1, <2>2
<1>5. Good(due, base, rest, v)
  BY <1>2, <1>3, <1>4 DEF Good
<1> QED BY <1>5 DEF v

(* The version is bumped.                                                     *)
LEMMA BumpIsGood ==
  ASSUME NEW due, NEW base \in Nat, NEW more, NEW w, Good(due, base, more, w), NEW ver \in Nat, ver >= w.ver
  PROVE  LET v == [w EXCEPT !.ver = ver]
         IN  /\ Good(due, base, more, v) /\ Kept(w, v) /\ v.session = w.session /\ v.ver = ver
             /\ v.rendering = w.rendering /\ v.out = w.out
<1> DEFINE v == [w EXCEPT !.ver = ver]
<1>1. w \in Broker /\ w.ver \in Nat /\ w.out \in Seq(Request) /\ w.session \in [Session -> SessionState]
      /\ w.rendering \in [Key -> Rendering \cup {NoTile}]
  BY DEF Good, Broker
<1>2. /\ v \in Broker /\ v.ver = ver /\ v.cache = w.cache /\ v.rendering = w.rendering
      /\ v.sessions = w.sessions /\ v.session = w.session /\ v.out = w.out
  BY <1>1 DEF Broker
<1> HIDE DEF v
<1>3. ASSUME NEW k \in Key PROVE EntryOk(due, more, v, k)
  <2>1. EntryOk(due, more, w, k)
    BY DEF Good
  <2>2. ASSUME w.rendering[k] # NoTile, w.rendering[k].ver <= w.ver PROVE w.rendering[k].ver <= v.ver
    <3>1. w.rendering[k] \in Rendering
      BY <1>1, <2>2
    <3>2. w.rendering[k].ver \in Nat
      BY <3>1 DEF Rendering
    <3> QED BY <1>1, <1>2, <2>2, <3>2
  <2>3. \A e : Newer(w, more, e, k) => Newer(v, more, e, k)
    BY <1>2 DEF Newer
  <2> QED BY <1>2, <2>1, <2>2, <2>3 DEF EntryOk
<1>4. RequestsOk(v)
  <2> SUFFICES ASSUME NEW x \in Session, NEW r \in In(v.session[x].requested)
               PROVE  x \in v.sessions /\ r.key[1] = ViewOf[x] /\ r.ver <= v.ver
    BY DEF RequestsOk
  <2>1. x \in w.sessions /\ r.key[1] = ViewOf[x] /\ r.ver <= w.ver
    BY <1>2 DEF Good, RequestsOk
  <2>2. r.ver \in Nat
    <3>1. w.session[x].requested \in Seq(Request)
      BY <1>1 DEF SessionState
    <3>2. r \in Request
      BY <1>2, <3>1 DEF In
    <3> QED BY <3>2 DEF Request
  <2> QED BY <1>1, <1>2, <2>1, <2>2
<1>5. Rising(v.out, base, v.ver)
  <2>1. Rising(w.out, base, w.ver)
    BY DEF Good
  <2>2. \A i \in DOMAIN w.out : w.out[i].ver \in Nat
    <3> TAKE i \in DOMAIN w.out
    <3>1. w.out[i] \in Request
      BY <1>1
    <3> QED BY <3>1 DEF Request
  <2>3. \A i \in DOMAIN w.out : w.out[i].ver <= w.ver => w.out[i].ver <= ver
    BY <1>1, <2>2
  <2> QED BY <1>2, <2>1, <2>3 DEF Rising
<1>6. Good(due, base, more, v)
  BY <1>2, <1>3, <1>4, <1>5 DEF Good
<1>7. Kept(w, v)
  BY <1>2 DEF Kept
<1> QED BY <1>2, <1>6, <1>7 DEF v

(* The next request of a session.                                             *)
LEMMA SendRequestedTileIs ==
  ASSUME NEW due, NEW base \in Nat, NEW more, NEW w, Good(due, base, more, w), base <= w.ver,
         NEW s \in w.sessions, NEW r \in Request, r \in more, r.key[1] = ViewOf[s], r.ver <= w.ver,
         NEW ver \in Nat, w.ver <= ver, NEW rest, rest \subseteq more
  PROVE  LET v == SendRequestedTile(w, s, r, ver)
         IN  Good(due, base, rest, v) /\ Kept(w, v) /\ v.ver <= ver
<1> DEFINE k == r.key
           tile == w.cache[k]
           v == SendRequestedTile(w, s, r, ver)
           ses == w.session[s]
<1>1. /\ w \in Broker /\ w.ver \in Nat /\ k \in Key /\ s \in Session /\ ses \in SessionState
      /\ tile \in CachedTile \cup {NoTile}
      /\ w.rendering \in [Key -> Rendering \cup {NoTile}] /\ r.ver \in Nat
  BY DEF Good, Broker, Request
<1>2. ses.requested \in Seq(Request)
  BY <1>1 DEF SessionState
<1>3. CASE Len(ses.onFly) >= OnFlyLimit
  <2> DEFINE new == [ses EXCEPT !.requested = Append(ses.requested, r)]
  <2>1. v = [w EXCEPT !.session[s] = new]
    BY <1>3 DEF SendRequestedTile
  <2>2. Append(ses.requested, r) \in Seq(Request) /\ In(Append(ses.requested, r)) = In(ses.requested) \cup {r}
    BY <1>2, InOfOneMore
  <2>3. new \in SessionState /\ new.requested = Append(ses.requested, r)
    BY <1>1, <2>2 DEF SessionState
  <2> HIDE DEF new, v, ses
  <2>4. \A x \in In(ses.requested) : x.key[1] = ViewOf[s] /\ x.ver <= w.ver
    BY <1>1 DEF Good, RequestsOk, ses
  <2>5. Good(due, base, rest, [w EXCEPT !.session[s] = new])
    <3>1. \A x \in In(new.requested) : x.key[1] = ViewOf[s] /\ x.ver <= w.ver
      BY <2>2, <2>3, <2>4
    <3>2. \A x \in In(new.requested) : x \in more \cup In(w.session[s].requested)
      BY <2>2, <2>3 DEF ses
    <3>3. rest \subseteq more \cup In(w.session[s].requested)
      OBVIOUS
    <3> QED BY <2>3, <3>1, <3>2, <3>3, RequestsReplaced
  <2>6. Kept(w, [w EXCEPT !.session[s] = new]) /\ [w EXCEPT !.session[s] = new].ver = w.ver
    BY <1>1, <2>3, SessionReplaced DEF Kept
  <2>7. Good(due, base, rest, v) /\ Kept(w, v) /\ v.ver <= ver
    BY <2>1, <2>5, <2>6
  <2> QED BY <2>7 DEF v
<1>4. CASE ~(Len(ses.onFly) >= OnFlyLimit) /\ tile # NoTile /\ tile.valid
  <2> DEFINE new == SendTileNow(ses, k, LastWid(tile), tile)
  <2>1. v = [w EXCEPT !.session[s] = new]
    BY <1>4 DEF SendRequestedTile
  <2>2. tile \in CachedTile
    BY <1>1, <1>4
  <2>3. LastWid(tile) \in Nat
    BY <2>2, ChangesAre
  <2>4. new \in SessionState /\ new.requested = ses.requested
    BY <1>1, <2>2, <2>3, SendTileNowIs
  <2> HIDE DEF new, v, ses
  <2>5. Good(due, base, rest, [w EXCEPT !.session[s] = new])
    <3>1. \A x \in In(new.requested) : x.key[1] = ViewOf[s] /\ x.ver <= w.ver
      BY <1>1, <2>4 DEF Good, RequestsOk, ses
    <3>2. \A x \in In(new.requested) : x \in more \cup In(w.session[s].requested)
      BY <2>4 DEF ses
    <3>3. rest \subseteq more \cup In(w.session[s].requested)
      OBVIOUS
    <3> QED BY <2>4, <3>1, <3>2, <3>3, RequestsReplaced
  <2>6. Kept(w, [w EXCEPT !.session[s] = new]) /\ [w EXCEPT !.session[s] = new].ver = w.ver
    BY <1>1, <2>4, SessionReplaced DEF Kept
  <2>7. Good(due, base, rest, v) /\ Kept(w, v) /\ v.ver <= ver
    BY <2>1, <2>5, <2>6
  <2> QED BY <2>7 DEF v
<1>5. CASE ~(Len(ses.onFly) >= OnFlyLimit) /\ ~(tile # NoTile /\ tile.valid)
  <2> DEFINE u == [w EXCEPT !.ver = ver]
             force == tile = NoTile
  <2>1. v = RequestTileRendering(u, s, r, ver, force)
    BY <1>5 DEF SendRequestedTile
  <2>2. /\ Good(due, base, more, u) /\ Kept(w, u) /\ u.session = w.session /\ u.ver = ver
        /\ u.rendering = w.rendering /\ u.out = w.out
    BY BumpIsGood
  <2> HIDE DEF u, v
  <2>3. w.rendering[k] # NoTile => Owed(due \cup In(w.out), w.rendering[k], k) \/ r.ver > w.rendering[k].ver
    <3>1. EntryOk(due, more, w, k)
      BY <1>1 DEF Good
    <3> QED BY <3>1 DEF EntryOk, Newer
  <2>4. s \in u.sessions /\ r.ver <= u.ver /\ base <= u.ver /\ force \in BOOLEAN
    BY <1>1, <2>2 DEF Kept
  <2> HIDE DEF force
  <2>5. Good(due, base, more, v) /\ Kept(u, v) /\ v.ver = u.ver
    <3>1. u.rendering[r.key] # NoTile =>
            Owed(due \cup In(u.out), u.rendering[r.key], r.key) \/ r.ver > u.rendering[r.key].ver
      BY <2>2, <2>3
    <3>2. v = RequestTileRendering(u, s, r, u.ver, force)
      BY <2>1, <2>2
    <3>3. MayAsk(due, base, more, u, s, r)
      BY <2>2, <2>4, <3>1 DEF MayAsk
    <3>4. HasAsked(due, base, more, u, RequestTileRendering(u, s, r, u.ver, force))
      BY <2>4, <3>3, RequestTileRenderingIs
    <3> QED BY <3>2, <3>4 DEF HasAsked
  <2>6. Good(due, base, rest, v)
    <3>1. ASSUME NEW x \in Key PROVE EntryOk(due, rest, v, x)
      <4>1. EntryOk(due, more, v, x)
        BY <2>5 DEF Good
      <4>2. \A e : Newer(v, more, e, x) => Newer(v, rest, e, x)
        BY DEF Newer
      <4> QED BY <4>1, <4>2 DEF EntryOk
    <3> QED BY <2>5, <3>1 DEF Good
  <2>7. Kept(w, v) /\ v.ver <= ver
    BY <1>1, <2>2, <2>5 DEF Kept
  <2> QED BY <2>6, <2>7 DEF v
<1> QED BY <1>3, <1>4, <1>5


(* sendRequestedTiles: nobody who waits is forgotten.                         *)
LEMMA SendRequestedTilesIs ==
  ASSUME NEW due, NEW base \in Nat, NEW w, Good(due, base, {}, w), base <= w.ver, NEW s \in w.sessions
  PROVE  Good(due, base, {}, SendRequestedTiles(w, s)) /\ Kept(w, SendRequestedTiles(w, s))
<1> DEFINE ses == w.session[s]
           R == ses.requested
           new == [ses EXCEPT !.onFly = RemoveOutdatedTilesOnFly(@), !.requested = <<>>]
           more(n) == {R[m] : m \in n + 1 .. Len(R)}
<1>a. /\ w \in Broker /\ w.ver \in Nat /\ s \in Session /\ ses \in SessionState
      /\ R \in Seq(Request) /\ ses.onFly \in Seq([wid : Nat, old : BOOLEAN])
  BY DEF Good, Broker, SessionState
<1>b. new \in SessionState /\ new.requested = <<>>
  <2>1. \A S : <<>> \in Seq(S)
    OBVIOUS
  <2>2. RemoveOutdatedTilesOnFly(ses.onFly) \in Seq([wid : Nat, old : BOOLEAN])
    <3>1. {i \in DOMAIN ses.onFly : ~ses.onFly[i].old} \in SUBSET DOMAIN ses.onFly
      OBVIOUS
    <3> QED BY <1>a, <3>1, FromIs DEF RemoveOutdatedTilesOnFly
  <2> QED BY <1>a, <2>1, <2>2 DEF SessionState
<1>c. /\ more(0) = In(R) /\ more(Len(R)) = {}
      /\ \A n \in 1 .. Len(R) : R[n] \in more(n - 1) /\ more(n) \subseteq more(n - 1)
  <2>1. Len(R) \in Nat /\ DOMAIN R = 1 .. Len(R)
    BY <1>a
  <2> HIDE DEF R
  <2> QED BY <2>1 DEF In
<1>d. \A n \in 1 .. Len(R) : R[n] \in Request /\ R[n].key[1] = ViewOf[s] /\ R[n].ver <= w.ver /\ R[n].ver \in Nat
  <2> TAKE n \in 1 .. Len(R)
  <2>1. R[n] \in In(R) /\ R[n] \in Request
    BY <1>a DEF In
  <2>2. R[n].key[1] = ViewOf[s] /\ R[n].ver <= w.ver
    BY <1>a, <2>1 DEF Good, RequestsOk
  <2> QED BY <2>1, <2>2 DEF Request
<1> HIDE DEF new, more, R, ses
<1> DEFINE L == Len(w.session[s].requested)
           A(n) == {x \in Broker : Good(due, base, more(n), x) /\ Kept(w, x) /\ x.ver <= w.ver + 1}
           B == [w EXCEPT !.session[s] = [w.session[s] EXCEPT !.onFly = RemoveOutdatedTilesOnFly(@), !.requested = <<>>]]
           K(x, n) == SendRequestedTile(x, s, w.session[s].requested[n], w.ver + 1)
           F(h) == [n \in 0 .. L |-> IF n = 0 THEN B ELSE K(h[n - 1], n)]
<1>1. L \in Nat /\ B \in A(0) /\ \A n \in 1 .. L : \A x \in A(n - 1) : K(x, n) \in A(n)
  <2>1. L \in Nat /\ L = Len(R) /\ B = [w EXCEPT !.session[s] = new]
    <3>1. L = Len(R)
      BY DEF R, ses
    <3>2. Len(R) \in Nat
      BY <1>a
    <3>3. B = [w EXCEPT !.session[s] = new]
      BY DEF new, ses
    <3> HIDE DEF L, B
    <3> QED BY <3>1, <3>2, <3>3
  <2> HIDE DEF B, L
  <2>2. B \in A(0)
    <3>1. Good(due, base, more(0), B)
      <4>1. \A r \in In(new.requested) : r.key[1] = ViewOf[s] /\ r.ver <= w.ver
        BY <1>b DEF In
      <4>2. \A r \in In(new.requested) :
              \/ r \in {} \cup In(w.session[s].requested)
              \/ w.rendering[r.key] # NoTile =>
                   Owed(due \cup In(w.out), w.rendering[r.key], r.key) \/ r.ver > w.rendering[r.key].ver
        BY <1>b DEF In
      <4>3. more(0) \subseteq {} \cup In(w.session[s].requested)
        BY <1>c DEF R, ses
      <4> QED BY <1>b, <2>1, <4>1, <4>2, <4>3, RequestsReplaced
    <3>2. Kept(w, B) /\ B.ver = w.ver /\ B \in Broker
      BY <1>a, <1>b, <2>1, SessionReplaced DEF Kept
    <3> QED BY <1>a, <3>1, <3>2
  <2>3. ASSUME NEW n \in 1 .. L, NEW x \in A(n - 1) PROVE K(x, n) \in A(n)
    <3> DEFINE r == R[n]
               ver == w.ver + 1
               v == SendRequestedTile(x, s, r, ver)
    <3>1. /\ r \in Request /\ r.key[1] = ViewOf[s] /\ r.ver <= w.ver /\ r.ver \in Nat
          /\ r \in more(n - 1) /\ more(n) \subseteq more(n - 1)
      BY <1>c, <1>d, <2>1
    <3>2. Good(due, base, more(n - 1), x) /\ Kept(w, x) /\ x.ver <= ver /\ x.ver \in Nat /\ ver \in Nat
      BY <1>a DEF Good, Broker
    <3>3. base <= x.ver /\ s \in x.sessions /\ r.ver <= x.ver
      BY <1>a, <3>1, <3>2 DEF Kept
    <3> HIDE DEF r, ver
    <3>4. Good(due, base, more(n), v) /\ Kept(x, v) /\ v.ver <= ver
      BY <3>1, <3>2, <3>3, SendRequestedTileIs
    <3>5. v \in Broker /\ v.ver \in Nat
      BY <3>4 DEF Good, Broker
    <3>6. Kept(w, v)
      BY <1>a, <3>2, <3>4, <3>5 DEF Kept
    <3> QED BY <3>4, <3>5, <3>6 DEF r, ver, R, ses
  <2> QED BY <2>1, <2>2, <2>3
<1>2. \E h : h = F(h)
  <2> DEFINE each == [n \in 0 .. L |-> A(n)]
             step == [n \in 1 .. L |-> [x \in A(n - 1) |-> K(x, n)]]
  <2> HIDE DEF A, B, L, K
  <2>1. \A n \in 1 .. L : n \in 0 .. L /\ n - 1 \in 0 .. L
    BY <1>1
  <2>2. each[0] = A(0) /\ \A n \in 1 .. L : each[n] = A(n) /\ each[n - 1] = A(n - 1)
    BY <1>1, <2>1
  <2>3. \A n \in 1 .. L : \A x \in A(n - 1) : step[n][x] = K(x, n)
    OBVIOUS
  <2> HIDE DEF each, step
  <2>4. StaysWithin(each, B, step, L)
    BY <1>1, <2>2, <2>3 DEF StaysWithin
  <2>5. PICK h : FoldsThrough(h, each, B, step, L)
    BY <1>1, <2>4, FoldThrough
  <2>6. ASSUME NEW n \in 0 .. L PROVE h[n] = IF n = 0 THEN B ELSE K(h[n - 1], n)
    <3>1. n # 0 => n \in 1 .. L
      BY <1>1
    <3> QED BY <2>2, <2>3, <2>5, <3>1 DEF FoldsThrough
  <2>7. h = F(h)
    BY <2>5, <2>6 DEF FoldsThrough
  <2> QED BY <2>7
<1>3. PICK k : k = F(k) /\ SendRequestedTiles(w, s) = k[L]
  BY <1>2 DEF SendRequestedTiles
<1>4. k[0] = B /\ \A n \in 1 .. L : k[n] = K(k[n - 1], n)
  <2> HIDE DEF A, B, L, K
  <2>1. \A n \in 0 .. L : k[n] = F(k)[n]
    BY <1>3
  <2>2. F(k)[0] = B
    BY <1>1
  <2>3. ASSUME NEW n \in 1 .. L PROVE F(k)[n] = K(k[n - 1], n)
    BY <1>1
  <2> HIDE DEF F
  <2>4. 0 \in 0 .. L /\ \A n \in 1 .. L : n \in 0 .. L
    BY <1>1
  <2> QED BY <2>1, <2>2, <2>3, <2>4
<1>5. \A n \in 0 .. L : k[n] \in A(n)
  <2> HIDE DEF A, B, L, K
  <2> DEFINE P == {n \in 0 .. L : k[n] \in A(n)}
  <2>1. 0 \in P
    BY <1>1, <1>4
  <2>2. \A n \in 1 .. L : n - 1 \in P => n \in P
    BY <1>1, <1>4
  <2> HIDE DEF P
  <2>3. \A n \in 0 .. L : n \in P
    BY <1>1, <2>1, <2>2, Stepwise
  <2> QED BY <2>3 DEF P
<1> HIDE DEF F
<1>6. SendRequestedTiles(w, s) \in A(L)
  <2> HIDE DEF A, B, L, K
  <2>1. L \in 0 .. L
    BY <1>1
  <2> QED BY <1>3, <1>5, <2>1
<1>7. L = Len(R)
  BY DEF R, ses
<1> HIDE DEF L
<1> QED BY <1>6, <1>7, <1>c


(* The requests that wait, with one more.                                     *)
LEMMA AccumulateIs ==
  ASSUME NEW R \in Seq(Request), NEW r \in Request
  PROVE  Accumulate(R, r) \in Seq(Request) /\ In(Accumulate(R, r)) \subseteq In(R) \cup {r}
<1>1. Append(R, r) \in Seq(Request) /\ In(Append(R, r)) = In(R) \cup {r}
  BY InOfOneMore
<1> DEFINE q == [i \in DOMAIN R |-> IF R[i].key = r.key THEN r ELSE R[i]]
<1>2. DOMAIN R = 1 .. Len(R) /\ Len(R) \in Nat
  OBVIOUS
<1>3. q \in [1 .. Len(R) -> Request]
  BY <1>2
<1>4. q \in Seq(Request)
  BY <1>2, <1>3
<1>5. In(q) \subseteq In(R) \cup {r}
  <2>1. DOMAIN q = DOMAIN R /\ \A i \in DOMAIN R : q[i] \in In(R) \cup {r}
    BY DEF In
  <2> HIDE DEF q
  <2> QED BY <2>1 DEF In
<1> HIDE DEF q
<1> QED BY <1>1, <1>4, <1>5 DEF Accumulate, q

(* A request of this version is newer than any rendering that is not due.     *)
Older(due, w) ==
  \A k \in Key : w.rendering[k] # NoTile =>
    Owed(due \cup In(w.out), w.rendering[k], k) \/ w.ver > w.rendering[k].ver

Asking(due, base, w, s) ==
  /\ base \in Nat /\ Good(due, base, {}, w) /\ base <= w.ver /\ s \in w.sessions
  /\ Older(due, w)

(* handleTileCombinedRequest, for one tile.                                   *)
LEMMA PrepareTileIs ==
  ASSUME NEW due, NEW base, NEW w, NEW s, Asking(due, base, w, s),
         NEW r \in Request, r.key[1] = ViewOf[s], NEW canForce \in BOOLEAN
  PROVE  /\ Asking(due, base, PrepareTile(w, s, r, canForce), s)
         /\ Kept(w, PrepareTile(w, s, r, canForce)) /\ PrepareTile(w, s, r, canForce).ver = w.ver
<1> DEFINE k == r.key
           reset == canForce /\ r.force
           tile == w.cache[k]
           force == tile = NoTile \/ TooLarge(tile)
           req == [r EXCEPT !.ver = w.ver, !.force = (@ /\ ~reset) \/ force]
           w1 == IF reset THEN [w EXCEPT !.session[s].lastSent[k] = 0] ELSE w
           needed == tile = NoTile \/ ~tile.valid \/ TooLarge(tile)
           w2 == IF needed THEN RequestTileRendering(w1, s, req, w.ver, force) ELSE w1
           v == [w2 EXCEPT !.session[s].requested = Accumulate(@, req)]
<1>1. PrepareTile(w, s, r, canForce) = v
  BY DEF PrepareTile
<1>2. /\ w \in Broker /\ w.ver \in Nat /\ s \in Session /\ k \in Key /\ w.session[s] \in SessionState
      /\ base \in Nat /\ Good(due, base, {}, w) /\ base <= w.ver /\ s \in w.sessions /\ Older(due, w)
      /\ tile \in CachedTile \cup {NoTile}
  BY DEF Asking, Good, Broker, Request
<1>3. reset \in BOOLEAN /\ force \in BOOLEAN /\ r.force \in BOOLEAN
  BY <1>2, ChangesAre DEF Request
<1> HIDE DEF reset, force
<1>4. req \in Request /\ req.key = k /\ req.ver = w.ver /\ req.key[1] = ViewOf[s]
  BY <1>2, <1>3 DEF Request
<1> HIDE DEF req, tile
<1>5. Asking(due, base, w1, s) /\ Calm(w, w1) /\ w1 \in Broker
  <2>1. CASE reset
    <3> DEFINE ses == [w.session[s] EXCEPT !.lastSent[k] = 0]
    <3>1. w1 = [w EXCEPT !.session[s] = ses]
      BY <2>1
    <3>2. ses \in SessionState /\ ses.requested = w.session[s].requested
      <4>1. [w.session[s].lastSent EXCEPT ![k] = 0] \in [Key -> Nat]
        BY <1>2 DEF SessionState
      <4>2. ses = [w.session[s] EXCEPT !.lastSent = [w.session[s].lastSent EXCEPT ![k] = 0]]
        OBVIOUS
      <4> QED BY <1>2, <4>1, <4>2 DEF SessionState
    <3> HIDE DEF ses, w1
    <3>3. w1 \in Broker /\ Calm(w, w1)
      BY <1>2, <3>1, <3>2, SessionReplaced
    <3>4. Good(due, base, {}, w1)
      BY <1>2, <3>3, CalmIsGood
    <3>5. Older(due, w1)
      BY <1>2, <3>3 DEF Older, Calm
    <3> QED BY <1>2, <3>3, <3>4, <3>5 DEF Asking, Calm
  <2>2. CASE ~reset
    BY <1>2, <2>2 DEF Calm, Asking
  <2> QED BY <1>3, <2>1, <2>2
<1> HIDE DEF w1
<1>6. /\ Asking(due, base, w2, s) /\ w2.ver = w.ver /\ w2.session = w1.session /\ Kept(w, w2)
  <2>1. CASE needed
    <3>1. w1.ver = w.ver /\ req.ver <= w1.ver
      BY <1>2, <1>4, <1>5 DEF Calm
    <3>2. MayAsk(due, base, {}, w1, s, req)
      <4>1. w1.rendering[k] # NoTile =>
              Owed(due \cup In(w1.out), w1.rendering[k], k) \/ req.ver > w1.rendering[k].ver
        BY <1>2, <1>4, <1>5, <3>1 DEF Asking, Older
      <4> QED BY <1>4, <1>5, <3>1, <4>1 DEF MayAsk, Asking
    <3>3. HasAsked(due, base, {}, w1, RequestTileRendering(w1, s, req, w1.ver, force))
      BY <1>3, <3>2, RequestTileRenderingIs
    <3>4. w2 = RequestTileRendering(w1, s, req, w1.ver, force)
      BY <2>1, <3>1
    <3> HIDE DEF w2
    <3>5. /\ Good(due, base, {}, w2) /\ Kept(w1, w2) /\ w2.session = w1.session /\ w2.ver = w1.ver
          /\ Fresh(due, w1, w2)
      BY <3>3, <3>4 DEF HasAsked
    <3>6. Older(due, w2)
      <4> SUFFICES ASSUME NEW x \in Key, w2.rendering[x] # NoTile
                   PROVE  Owed(due \cup In(w2.out), w2.rendering[x], x) \/ w2.ver > w2.rendering[x].ver
        BY DEF Older
      <4>1. \A e : Owed(due \cup In(w1.out), e, x) => Owed(due \cup In(w2.out), e, x)
        BY <3>5 DEF Fresh, Owed
      <4> QED BY <1>5, <3>5, <4>1 DEF Fresh, Older, Asking
    <3>7. Kept(w, w2)
      BY <1>2, <1>5, <3>1, <3>5 DEF Kept, Calm
    <3> QED BY <1>5, <3>1, <3>5, <3>6, <3>7 DEF Asking, Kept
  <2>2. CASE ~needed
    BY <1>2, <1>5, <2>2 DEF Kept, Calm
  <2> HIDE DEF needed, w2
  <2> QED BY <2>1, <2>2
<1> HIDE DEF w2
<1> DEFINE R == w2.session[s].requested
           ses == [w2.session[s] EXCEPT !.requested = Accumulate(R, req)]
<1>7. w2 \in Broker /\ w2.session[s] \in SessionState /\ R \in Seq(Request)
  BY <1>2, <1>6 DEF Asking, Good, Broker, SessionState
<1>8. v = [w2 EXCEPT !.session[s] = ses]
  OBVIOUS
<1>9. Accumulate(R, req) \in Seq(Request) /\ In(Accumulate(R, req)) \subseteq In(R) \cup {req}
  <2> HIDE DEF R
  <2> QED BY <1>4, <1>7, AccumulateIs
<1>10. ses \in SessionState /\ ses.requested = Accumulate(R, req)
  BY <1>7, <1>9 DEF SessionState
<1> HIDE DEF ses, v
<1>11. Good(due, base, {}, v)
  <2>1. \A x \in In(ses.requested) : x \in In(R) \/ x = req
    BY <1>9, <1>10
  <2>2. s \in w2.sessions /\ Good(due, base, {}, w2)
    BY <1>6 DEF Asking
  <2>3. \A x \in In(ses.requested) : x.key[1] = ViewOf[s] /\ x.ver <= w2.ver
    <3>1. \A x \in In(R) : x.key[1] = ViewOf[s] /\ x.ver <= w2.ver
      BY <1>2, <2>2 DEF Good, RequestsOk
    <3> QED BY <1>2, <1>4, <1>6, <2>1, <3>1
  <2>4. \A x \in In(ses.requested) :
          \/ x \in {} \cup In(w2.session[s].requested)
          \/ w2.rendering[x.key] # NoTile =>
               Owed(due \cup In(w2.out), w2.rendering[x.key], x.key) \/ x.ver > w2.rendering[x.key].ver
    <3>1. w2.rendering[k] # NoTile =>
            Owed(due \cup In(w2.out), w2.rendering[k], k) \/ req.ver > w2.rendering[k].ver
      BY <1>2, <1>4, <1>6 DEF Asking, Older
    <3> QED BY <1>4, <2>1, <3>1
  <2>5. {} \subseteq {} \cup In(w2.session[s].requested)
    OBVIOUS
  <2> HIDE DEF R
  <2>6. Good(due, base, {}, [w2 EXCEPT !.session[s] = ses])
    BY <1>10, <2>2, <2>3, <2>4, <2>5, RequestsReplaced
  <2> QED BY <1>8, <2>6
<1>12. /\ v.cache = w2.cache /\ v.rendering = w2.rendering /\ v.sessions = w2.sessions
       /\ v.ver = w2.ver /\ v.out = w2.out
  BY <1>2, <1>7, <1>8, <1>10, SessionReplaced
<1>13. Older(due, v)
  BY <1>6, <1>12 DEF Older, Asking
<1>14. Kept(w, v) /\ v.ver = w.ver
  BY <1>6, <1>12 DEF Kept
<1>15. Asking(due, base, v, s)
  BY <1>6, <1>11, <1>12, <1>13 DEF Asking
<1> QED BY <1>1, <1>14, <1>15

(* handleTileCombinedRequest: the requests join those that wait, and all of   *)
(* them are answered or asked for.                                            *)
LEMMA HandleTileCombinedRequestIs ==
  ASSUME NEW due, NEW base \in Nat, NEW w, Good(due, base, {}, w), base <= w.ver, NEW s \in w.sessions,
         NEW reqs \in Seq(Request), \A n \in DOMAIN reqs : reqs[n].key[1] = ViewOf[s], NEW canForce \in BOOLEAN
  PROVE  /\ Good(due, base, {}, HandleTileCombinedRequest(w, s, reqs, canForce))
         /\ Kept(w, HandleTileCombinedRequest(w, s, reqs, canForce))
<1>a. w \in Broker /\ w.ver \in Nat /\ w.rendering \in [Key -> Rendering \cup {NoTile}]
  BY DEF Good, Broker
<1>c. ASSUME NEW ver \in Nat, ver >= w.ver
      PROVE  LET v == [w EXCEPT !.ver = ver]
             IN  /\ Good(due, base, {}, v) /\ Kept(w, v) /\ v.session = w.session /\ v.ver = ver
                 /\ v.rendering = w.rendering /\ v.out = w.out
  <2> DEFINE v == [w EXCEPT !.ver = ver]
  <2>1. Good(due, base, {}, v)
    BY <1>c, BumpIsGood
  <2>2. /\ v.ver = ver /\ v.session = w.session /\ v.rendering = w.rendering /\ v.out = w.out
        /\ v.cache = w.cache /\ v.sessions = w.sessions
    BY <1>a DEF Broker
  <2>3. Kept(w, v)
    BY <1>c, <2>2 DEF Kept
  <2> QED BY <2>1, <2>2, <2>3
<1> DEFINE end == CHOOSE h : h = [n \in 0 .. Len(reqs) |->
                               IF n = 0 THEN [w EXCEPT !.ver = @ + 1]
                               ELSE PrepareTile(h[n - 1], s, reqs[n], canForce)]
<1>b. HandleTileCombinedRequest(w, s, reqs, canForce) = SendRequestedTiles(end[Len(reqs)], s)
  BY DEF HandleTileCombinedRequest
<1> DEFINE L == Len(reqs)
           A(n) == {x \in Broker : Asking(due, base, x, s) /\ Kept(w, x)}
           B == [w EXCEPT !.ver = @ + 1]
           K(x, n) == PrepareTile(x, s, reqs[n], canForce)
           F(h) == [n \in 0 .. L |-> IF n = 0 THEN B ELSE K(h[n - 1], n)]
<1>1. L \in Nat /\ B \in A(0) /\ \A n \in 1 .. L : \A x \in A(n - 1) : K(x, n) \in A(n)
  <2>1. L \in Nat
    OBVIOUS
  <2>2. B \in A(0)
    <3> DEFINE ver == w.ver + 1
    <3>1. ver \in Nat /\ ver >= w.ver /\ B = [w EXCEPT !.ver = ver]
      BY <1>a
    <3> HIDE DEF ver, B
    <3>2. /\ Good(due, base, {}, B) /\ Kept(w, B) /\ B.ver = ver
          /\ B.rendering = w.rendering /\ B.out = w.out
      BY <1>c, <3>1
    <3>3. Older(due, B)
      <4> SUFFICES ASSUME NEW x \in Key, B.rendering[x] # NoTile PROVE B.ver > B.rendering[x].ver
        BY DEF Older
      <4>1. w.rendering[x] \in Rendering
        BY <1>a, <3>2
      <4>2. w.rendering[x].ver \in Nat /\ w.rendering[x].ver <= w.ver
        BY <3>2, <4>1 DEF Rendering, Good, EntryOk
      <4> QED BY <1>a, <3>2, <4>2 DEF ver
    <3>4. base <= B.ver /\ s \in B.sessions /\ B \in Broker
      BY <1>a, <3>1, <3>2 DEF Kept, Good
    <3> QED BY <3>2, <3>3, <3>4 DEF Asking
  <2>3. ASSUME NEW n \in 1 .. L, NEW x \in A(n - 1) PROVE K(x, n) \in A(n)
    <3> DEFINE r == reqs[n]
               v == PrepareTile(x, s, r, canForce)
    <3>1. n \in DOMAIN reqs /\ r \in Request /\ r.key[1] = ViewOf[s]
      OBVIOUS
    <3>2. Asking(due, base, x, s) /\ Kept(w, x)
      OBVIOUS
    <3> HIDE DEF r
    <3>3. Asking(due, base, v, s) /\ Kept(x, v)
      BY <3>1, <3>2, PrepareTileIs
    <3>4. x.ver \in Nat /\ v.ver \in Nat /\ v \in Broker
      BY <3>2, <3>3 DEF Asking, Good, Broker
    <3>5. Kept(w, v)
      BY <1>a, <3>2, <3>3, <3>4 DEF Kept
    <3> HIDE DEF v
    <3>6. v \in A(n)
      BY <3>3, <3>4, <3>5
    <3> HIDE DEF A
    <3> QED BY <3>6 DEF r, v
  <2> QED BY <2>1, <2>2, <2>3
<1>2. \E h : h = F(h)
  <2> DEFINE each == [n \in 0 .. L |-> A(n)]
             step == [n \in 1 .. L |-> [x \in A(n - 1) |-> K(x, n)]]
  <2> HIDE DEF A, B, L, K
  <2>1. \A n \in 1 .. L : n \in 0 .. L /\ n - 1 \in 0 .. L
    BY <1>1
  <2>2. each[0] = A(0) /\ \A n \in 1 .. L : each[n] = A(n) /\ each[n - 1] = A(n - 1)
    BY <1>1, <2>1
  <2>3. \A n \in 1 .. L : \A x \in A(n - 1) : step[n][x] = K(x, n)
    OBVIOUS
  <2> HIDE DEF each, step
  <2>4. StaysWithin(each, B, step, L)
    BY <1>1, <2>2, <2>3 DEF StaysWithin
  <2>5. PICK h : FoldsThrough(h, each, B, step, L)
    BY <1>1, <2>4, FoldThrough
  <2>6. ASSUME NEW n \in 0 .. L PROVE h[n] = IF n = 0 THEN B ELSE K(h[n - 1], n)
    <3>1. n # 0 => n \in 1 .. L
      BY <1>1
    <3> QED BY <2>2, <2>3, <2>5, <3>1 DEF FoldsThrough
  <2>7. h = F(h)
    BY <2>5, <2>6 DEF FoldsThrough
  <2> QED BY <2>7
<1>3. PICK k : k = F(k) /\ end[Len(reqs)] = k[L]
  BY <1>2 DEF end
<1>4. k[0] = B /\ \A n \in 1 .. L : k[n] = K(k[n - 1], n)
  <2> HIDE DEF A, B, L, K
  <2>1. \A n \in 0 .. L : k[n] = F(k)[n]
    BY <1>3
  <2>2. F(k)[0] = B
    BY <1>1
  <2>3. ASSUME NEW n \in 1 .. L PROVE F(k)[n] = K(k[n - 1], n)
    BY <1>1
  <2> HIDE DEF F
  <2>4. 0 \in 0 .. L /\ \A n \in 1 .. L : n \in 0 .. L
    BY <1>1
  <2> QED BY <2>1, <2>2, <2>3, <2>4
<1>5. \A n \in 0 .. L : k[n] \in A(n)
  <2> HIDE DEF A, B, L, K
  <2> DEFINE P == {n \in 0 .. L : k[n] \in A(n)}
  <2>1. 0 \in P
    BY <1>1, <1>4
  <2>2. \A n \in 1 .. L : n - 1 \in P => n \in P
    BY <1>1, <1>4
  <2> HIDE DEF P
  <2>3. \A n \in 0 .. L : n \in P
    BY <1>1, <2>1, <2>2, Stepwise
  <2> QED BY <2>3 DEF P
<1> HIDE DEF F
<1>6. end[Len(reqs)] \in A(L)
  <2> HIDE DEF A, B, L, K
  <2>1. L \in 0 .. L
    BY <1>1
  <2> QED BY <1>3, <1>5, <2>1
<1> DEFINE u == end[Len(reqs)]
<1>7. Good(due, base, {}, u) /\ base <= u.ver /\ s \in u.sessions /\ Kept(w, u) /\ u.ver \in Nat
  BY <1>6 DEF Asking, Good, Broker
<1> HIDE DEF u, end
<1>8. Good(due, base, {}, SendRequestedTiles(u, s)) /\ Kept(u, SendRequestedTiles(u, s))
  BY <1>7, SendRequestedTilesIs
<1>9. SendRequestedTiles(u, s).ver \in Nat
  BY <1>8 DEF Good, Broker
<1>10. Kept(w, SendRequestedTiles(u, s))
  BY <1>a, <1>7, <1>8, <1>9 DEF Kept
<1> QED BY <1>b, <1>8, <1>10 DEF u


-----------------------------------------------------------------------------
(* The chain of one tile: what is cached, W that is on its way to the cache,  *)
(* D that the Kit makes the next delta from, and the last wire id.            *)

Chained(blobs) ==
  /\ blobs[1].key
  /\ \A i \in 2 .. Len(blobs) : blobs[i].from = blobs[i - 1].to /\ blobs[i].wid > blobs[i - 1].wid

Seen(tile, W) == {t.blob : t \in W} \cup (IF tile = NoTile THEN {} ELSE {Last(tile.blobs)})

(* A delta from this content follows the last of S before the wire id.        *)
Follows(S, from, wid) ==
  \A b \in S : b.wid < wid /\ (\A c \in S : c.wid < wid => c.wid <= b.wid) => b.to = from

SoundAt(tile, W, D, wid) ==
  /\ tile # NoTile => Chained(tile.blobs) /\ \A t \in W : Last(tile.blobs).wid < t.blob.wid
  /\ \A b \in Seen(tile, W) : b.wid <= wid
  /\ \A t \in W : ~t.blob.key => Follows(Seen(tile, W), t.blob.from, t.blob.wid)
  /\ \A d \in D : Follows(Seen(tile, W), d.to, wid + 1)

(* The first of what is there may go, or be replaced by one like it.          *)
LEMMA FollowsLess ==
  ASSUME NEW S, NEW T, NEW from, NEW wid \in Nat, Follows(S, from, wid),
         \A b \in S \cup T : b.wid \in Nat,
         \A b \in T : \E c \in S : c.wid = b.wid /\ c.to = b.to,
         \A c \in S : (\E b \in T : b.wid = c.wid) \/ \A b \in T : c.wid <= b.wid
  PROVE  Follows(T, from, wid)
<1> SUFFICES ASSUME NEW b \in T, b.wid < wid, \A c \in T : c.wid < wid => c.wid <= b.wid
             PROVE  b.to = from
  BY DEF Follows
<1>1. PICK c \in S : c.wid = b.wid /\ c.to = b.to
  OBVIOUS
<1>2. ASSUME NEW d \in S, d.wid < wid PROVE d.wid <= c.wid
  BY <1>1, <1>2
<1> QED BY <1>1, <1>2 DEF Follows

(* More may come after it.                                                    *)
LEMMA FollowsMore ==
  ASSUME NEW S, NEW T, NEW from, NEW wid, NEW later, Follows(S, from, wid), S \subseteq T,
         \A b \in T : b.wid < later <=> b \in S /\ b.wid < wid
  PROVE  Follows(T, from, later)
BY DEF Follows

LEMMA SeenAre ==
  ASSUME NEW tile \in CachedTile \cup {NoTile}, NEW W \in SUBSET Rendered
  PROVE  /\ Seen(tile, W) \in SUBSET Blob
         /\ \A b \in Seen(tile, W) : b.wid \in Nat
<1>1. \A t \in W : t.blob \in Blob
  BY DEF Rendered
<1>2. tile # NoTile => Last(tile.blobs) \in Blob
  BY ChangesAre
<1>3. Seen(tile, W) \in SUBSET Blob
  BY <1>1, <1>2 DEF Seen
<1> QED BY <1>3 DEF Blob

(* A tile that is dropped, or kept, and deltas that are dropped.              *)
LEMMA SoundWithout ==
  ASSUME NEW tile \in CachedTile \cup {NoTile}, NEW W \in SUBSET Rendered, NEW D, NEW wid \in Nat,
         SoundAt(tile, W, D, wid), NEW less \in SUBSET D, NEW left,
         left # NoTile => tile # NoTile /\ left.blobs = tile.blobs
  PROVE  SoundAt(left, W, less, wid)
<1>1. CASE left # NoTile
  <2>1. Seen(left, W) = Seen(tile, W)
    BY <1>1 DEF Seen
  <2> QED BY <1>1, <2>1 DEF SoundAt
<1>2. CASE left = NoTile
  <2> DEFINE S == Seen(tile, W)
             T == Seen(left, W)
  <2>1. T \subseteq S /\ \A c \in S \ T : \A b \in T : c.wid < b.wid
    <3>1. T = {t.blob : t \in W}
      BY <1>2 DEF Seen
    <3>2. \A c \in S \ T : tile # NoTile /\ c = Last(tile.blobs)
      BY <3>1 DEF Seen
    <3>3. T \subseteq S
      BY <3>1 DEF Seen
    <3>4. tile # NoTile => \A t \in W : Last(tile.blobs).wid < t.blob.wid
      BY DEF SoundAt
    <3> HIDE DEF S, T
    <3>5. \A c \in S \ T : \A b \in T : c.wid < b.wid
      BY <3>1, <3>2, <3>4
    <3> QED BY <3>3, <3>5
  <2>2. \A b \in S : b.wid \in Nat
    BY SeenAre
  <2> HIDE DEF S, T
  <2>3. ASSUME NEW from, NEW n \in Nat, Follows(S, from, n) PROVE Follows(T, from, n)
    <3>1. \A b \in S \cup T : b.wid \in Nat
      BY <2>1, <2>2
    <3>2. \A b \in T : \E c \in S : c.wid = b.wid /\ c.to = b.to
      BY <2>1
    <3>3. \A c \in S : (\E b \in T : b.wid = c.wid) \/ \A b \in T : c.wid <= b.wid
      BY <2>1, <2>2
    <3> QED BY <2>3, <3>1, <3>2, <3>3, FollowsLess
  <2>4. \A t \in W : t.blob.wid \in Nat
    BY DEF Rendered, Blob
  <2>5. \A t \in W : ~t.blob.key => Follows(T, t.blob.from, t.blob.wid)
    BY <2>3, <2>4 DEF SoundAt, S
  <2>6. \A d \in less : Follows(T, d.to, wid + 1)
    BY <2>3 DEF SoundAt, S
  <2>7. \A b \in T : b.wid <= wid
    BY <2>1 DEF SoundAt, S
  <2> QED BY <1>2, <2>5, <2>6, <2>7 DEF SoundAt, T
<1> QED BY <1>1, <1>2

(* What a rendering makes of a chain it follows.                              *)
LEMMA ChainSaved ==
  ASSUME NEW tile \in CachedTile \cup {NoTile}, NEW blob \in Blob,
         tile # NoTile => /\ Chained(tile.blobs) /\ Last(tile.blobs).wid < blob.wid
                          /\ ~blob.key => blob.from = Last(tile.blobs).to,
         SaveDataToCache(tile, blob) # NoTile
  PROVE  /\ Chained(SaveDataToCache(tile, blob).blobs)
         /\ Last(SaveDataToCache(tile, blob).blobs).wid = blob.wid
         /\ Last(SaveDataToCache(tile, blob).blobs).to = blob.to
<1> DEFINE new == SaveDataToCache(tile, blob)
<1>a. blob.key \in BOOLEAN /\ blob.wid \in Nat
  BY DEF Blob
<1>b. Len(<<blob>>) = 1 /\ <<blob>>[1] = blob
  OBVIOUS
<1>1. ASSUME new.blobs = <<blob>>, blob.key
      PROVE  Chained(new.blobs) /\ Last(new.blobs).wid = blob.wid /\ Last(new.blobs).to = blob.to
  <2> HIDE DEF new
  <2> QED BY <1>1, <1>b DEF Chained, Last
<1>2. CASE tile = NoTile
  <2>1. new = NewTile(blob) /\ blob.key
    BY <1>2 DEF SaveDataToCache, IsKeyframe
  <2>2. new.blobs = <<blob>>
    BY <2>1 DEF NewTile
  <2> QED BY <1>1, <2>1, <2>2
<1>3. CASE tile # NoTile
  <2> DEFINE b == tile.blobs
             m == Len(b)
             merged == [b EXCEPT ![m].wid = blob.wid]
             blobs == IF IsKeyframe(blob) THEN <<blob>>
                      ELSE IF IsEmpty(blob) /\ m > 1 /\ IsEmpty(Last(b)) THEN merged ELSE Append(b, blob)
  <2>1. tile \in CachedTile /\ b \in Seq(Blob) /\ b # <<>>
    BY <1>3 DEF CachedTile
  <2>2. m \in Nat /\ m >= 1 /\ DOMAIN b = 1 .. m /\ \A i \in 1 .. m : b[i] \in Blob /\ b[i].wid \in Nat
    <3>1. \A i \in 1 .. m : b[i] \in Blob
      BY <2>1
    <3> QED BY <2>1, <3>1 DEF Blob
  <2>3. new.blobs = blobs
    <3>1. new = [tile EXCEPT !.valid = TRUE, !.blobs = blobs]
      BY <1>3 DEF SaveDataToCache, AppendBlob
    <3> HIDE DEF new, blobs
    <3> QED BY <2>1, <3>1 DEF CachedTile
  <2>4. /\ b[1].key /\ b[m].wid < blob.wid /\ (~blob.key => blob.from = b[m].to)
        /\ \A i \in 2 .. m : b[i].from = b[i - 1].to /\ b[i].wid > b[i - 1].wid
    BY <1>3 DEF Chained, Last
  <2> HIDE DEF b, m, new
  <2>5. CASE blob.key
    BY <1>1, <2>3, <2>5 DEF IsKeyframe, new
  <2>6. CASE ~blob.key /\ IsEmpty(blob) /\ m > 1 /\ IsEmpty(Last(b))
    <3>1. new.blobs = merged
      BY <2>3, <2>6 DEF IsKeyframe
    <3> DEFINE last == [b[m] EXCEPT !.wid = blob.wid]
    <3>2. last.wid = blob.wid /\ last.from = b[m].from /\ last.to = b[m].to /\ last.key = b[m].key
      BY <2>2 DEF Blob
    <3>3. merged = [b EXCEPT ![m] = last]
      OBVIOUS
    <3> HIDE DEF last
    <3>4. [b EXCEPT ![m] = last] \in Seq(Blob)
      <4>1. last \in Blob
        <5>1. b[m] \in Blob
          BY <2>2
        <5> QED BY <1>a, <5>1 DEF last, Blob
      <4> QED BY <2>1, <2>2, <4>1 DEF b
    <3>5. /\ Len(merged) = m /\ merged[m] = last
          /\ \A i \in 1 .. m - 1 : merged[i] = b[i]
      <4>1. DOMAIN merged = 1 .. m
        BY <2>2, <3>3
      <4>2. Len(merged) \in Nat /\ DOMAIN merged = 1 .. Len(merged)
        BY <3>3, <3>4
      <4>3. Len(merged) = m
        BY <2>2, <4>1, <4>2
      <4>4. merged[m] = last /\ \A i \in 1 .. m - 1 : merged[i] = b[i]
        BY <2>2, <3>3
      <4> QED BY <4>3, <4>4
    <3> HIDE DEF merged
    <3>6. Chained(merged)
      <4>1. merged[1].key
        BY <2>2, <2>4, <2>6, <3>5
      <4>2. ASSUME NEW i \in 2 .. m
            PROVE  merged[i].from = merged[i - 1].to /\ merged[i].wid > merged[i - 1].wid
        <5>1. merged[i - 1] = b[i - 1] /\ b[i].from = b[i - 1].to /\ b[i].wid > b[i - 1].wid
              /\ b[i - 1].wid \in Nat /\ b[i].wid \in Nat
          BY <2>2, <2>4, <3>5
        <5>2. CASE i = m
          BY <1>a, <2>4, <3>2, <3>5, <5>1, <5>2
        <5>3. CASE i # m
          <6>1. merged[i] = b[i]
            BY <2>2, <3>5, <5>3
          <6> QED BY <5>1, <6>1
        <5> QED BY <5>2, <5>3
      <4> QED BY <3>5, <4>1, <4>2 DEF Chained
    <3>7. blob.from = blob.to
      BY <2>6 DEF IsEmpty
    <3> QED BY <2>4, <2>6, <3>1, <3>2, <3>5, <3>6, <3>7 DEF Last, new
  <2>7. CASE ~blob.key /\ ~(IsEmpty(blob) /\ m > 1 /\ IsEmpty(Last(b)))
    <3> DEFINE a == Append(b, blob)
    <3>1. new.blobs = a
      BY <2>3, <2>7 DEF IsKeyframe
    <3>2. Len(a) = m + 1 /\ a[m + 1] = blob /\ \A i \in 1 .. m : a[i] = b[i]
      BY <2>1, <2>2 DEF m, b
    <3> HIDE DEF a
    <3>3. a[1].key
      BY <2>2, <2>4, <3>2
    <3>4. ASSUME NEW i \in 2 .. m + 1 PROVE a[i].from = a[i - 1].to /\ a[i].wid > a[i - 1].wid
      <4>1. i - 1 \in 1 .. m /\ a[i - 1] = b[i - 1]
        BY <2>2, <3>2
      <4>2. CASE i = m + 1
        <5>1. i - 1 = m /\ a[i] = blob
          BY <2>2, <3>2, <4>2
        <5> QED BY <1>a, <2>2, <2>4, <2>7, <4>1, <5>1
      <4>3. CASE i # m + 1
        <5>1. i \in 2 .. m /\ a[i] = b[i]
          BY <2>2, <3>2, <4>3
        <5> QED BY <2>4, <4>1, <5>1
      <4> QED BY <4>2, <4>3
    <3>5. Chained(a)
      BY <3>2, <3>3, <3>4 DEF Chained
    <3>6. Last(a) = blob
      BY <3>2 DEF Last
    <3> QED BY <3>1, <3>5, <3>6 DEF new
  <2> QED BY <1>a, <2>5, <2>6, <2>7 DEF new
<1> QED BY <1>2, <1>3


(* A rendering that arrives.                                                  *)
LEMMA SoundSaved ==
  ASSUME NEW tile \in CachedTile \cup {NoTile}, NEW W \in SUBSET Rendered, NEW t \in Rendered,
         NEW D, NEW wid \in Nat, SoundAt(tile, W \cup {t}, D, wid),
         \A u \in W : t.blob.wid < u.blob.wid
  PROVE  SoundAt(SaveDataToCache(tile, t.blob), W, D, wid)
<1> DEFINE blob == t.blob
           new == SaveDataToCache(tile, blob)
           S == Seen(tile, W \cup {t})
           T == Seen(new, W)
<1>1. /\ blob \in Blob /\ blob.wid \in Nat /\ new \in CachedTile \cup {NoTile}
      /\ W \cup {t} \in SUBSET Rendered
  BY SavedIs DEF Rendered, Blob
<1>2. blob \in S /\ \A b \in S \cup T : b.wid \in Nat
  <2>1. \A b \in S : b.wid \in Nat
    BY <1>1, SeenAre
  <2> HIDE DEF new
  <2>2. \A b \in T : b.wid \in Nat
    BY <1>1, SeenAre
  <2>3. blob \in S
    BY DEF Seen
  <2> HIDE DEF S, T
  <2> QED BY <2>1, <2>2, <2>3
<1>3. \A b \in S : b.wid <= wid
  BY DEF SoundAt
<1>4. tile # NoTile => /\ Chained(tile.blobs) /\ Last(tile.blobs).wid < blob.wid
                       /\ \A u \in W : Last(tile.blobs).wid < u.blob.wid
                       /\ ~blob.key => blob.from = Last(tile.blobs).to
  <2> SUFFICES ASSUME tile # NoTile
               PROVE  /\ Chained(tile.blobs) /\ Last(tile.blobs).wid < blob.wid
                      /\ \A u \in W : Last(tile.blobs).wid < u.blob.wid
                      /\ ~blob.key => blob.from = Last(tile.blobs).to
    OBVIOUS
  <2>1. /\ Chained(tile.blobs) /\ Last(tile.blobs).wid < blob.wid
        /\ \A u \in W : Last(tile.blobs).wid < u.blob.wid
    BY DEF SoundAt
  <2>2. ASSUME ~blob.key PROVE blob.from = Last(tile.blobs).to
    <3>1. Follows(S, blob.from, blob.wid)
      BY <2>2 DEF SoundAt
    <3>2. Last(tile.blobs) \in S
      BY DEF Seen
    <3>3. \A c \in S : c = Last(tile.blobs) \/ c = blob \/ \E u \in W : c = u.blob
      BY DEF Seen
    <3>4. ASSUME NEW c \in S, c.wid < blob.wid PROVE c.wid <= Last(tile.blobs).wid
      <4>1. c.wid \in Nat
        BY <1>2
      <4>2. c = Last(tile.blobs)
        <5>1. \A u \in W : ~(u.blob.wid < blob.wid)
          <6>1. \A u \in W : u.blob.wid \in Nat
            BY DEF Rendered, Blob
          <6> QED BY <1>1, <6>1
        <5> HIDE DEF S, blob
        <5> QED BY <1>1, <3>3, <3>4, <5>1
      <4> QED BY <4>1, <4>2
    <3> HIDE DEF S, blob
    <3> QED BY <2>1, <3>1, <3>2, <3>4 DEF Follows
  <2> QED BY <2>1, <2>2
<1>5. new # NoTile => Chained(new.blobs) /\ Last(new.blobs).wid = blob.wid /\ Last(new.blobs).to = blob.to
  BY <1>1, <1>4, ChainSaved
<1> HIDE DEF new
<1>6. \A u \in W : u.blob \in S /\ u.blob \in T
  BY DEF Seen
<1>7. /\ \A b \in T : (\E u \in W : b = u.blob) \/ (new # NoTile /\ b = Last(new.blobs))
      /\ \A c \in S : (\E u \in W : c = u.blob) \/ c = blob \/ (tile # NoTile /\ c = Last(tile.blobs))
      /\ new # NoTile => Last(new.blobs) \in T
  BY DEF Seen
<1>8. \A u \in W : blob.wid < u.blob.wid /\ u.blob.wid \in Nat
  BY DEF Rendered, Blob
<1> HIDE DEF S, T, blob
<1>9. ASSUME NEW from, NEW n \in Nat, Follows(S, from, n) PROVE Follows(T, from, n)
  <2>1. ASSUME NEW b \in T PROVE \E c \in S : c.wid = b.wid /\ c.to = b.to
    BY <1>2, <1>5, <1>6, <1>7
  <2>2. ASSUME NEW c \in S PROVE (\E b \in T : b.wid = c.wid) \/ \A b \in T : c.wid <= b.wid
    <3>1. CASE \E u \in W : c = u.blob
      BY <1>6, <3>1
    <3>2. CASE new # NoTile /\ c = blob
      BY <1>5, <1>7, <3>2
    <3>3. CASE new = NoTile /\ c = blob
      BY <1>1, <1>7, <1>8, <3>3
    <3>4. CASE tile # NoTile /\ c = Last(tile.blobs)
      <4>1. c.wid \in Nat /\ c.wid < blob.wid /\ \A u \in W : c.wid < u.blob.wid
        BY <1>2, <1>4, <3>4
      <4>2. ASSUME NEW b \in T PROVE c.wid <= b.wid
        <5>1. b.wid \in Nat /\ (b.wid = blob.wid \/ \E u \in W : b = u.blob)
          BY <1>2, <1>5, <1>7
        <5> QED BY <1>1, <4>1, <5>1
      <4> QED BY <4>2
    <3> QED BY <1>7, <3>1, <3>2, <3>3, <3>4
  <2> QED BY <1>2, <1>9, <2>1, <2>2, FollowsLess
<1>10. new # NoTile => Chained(new.blobs) /\ \A u \in W : Last(new.blobs).wid < u.blob.wid
  BY <1>5, <1>8
<1>11. \A b \in T : b.wid <= wid
  BY <1>2, <1>3, <1>5, <1>6, <1>7
<1>12. \A u \in W : ~u.blob.key => Follows(T, u.blob.from, u.blob.wid)
  BY <1>8, <1>9 DEF SoundAt, S
<1>13. \A d \in D : Follows(T, d.to, wid + 1)
  <2> TAKE d \in D
  <2>1. \A x \in D : Follows(Seen(tile, W \cup {t}), x.to, wid + 1)
    BY DEF SoundAt
  <2>2. Follows(S, d.to, wid + 1)
    BY <2>1 DEF S
  <2>3. wid + 1 \in Nat
    OBVIOUS
  <2> QED BY <1>9, <2>2, <2>3
<1>14. SoundAt(new, W, D, wid)
  BY <1>10, <1>11, <1>12, <1>13 DEF SoundAt, T
<1> QED BY <1>14 DEF new, blob

(* A rendering that is made.                                                  *)
LEMMA SoundRendered ==
  ASSUME NEW tile \in CachedTile \cup {NoTile}, NEW W \in SUBSET Rendered, NEW t \in Rendered,
         NEW D, NEW wid \in Nat, NEW later \in Nat, SoundAt(tile, W, D, wid),
         wid < t.blob.wid, t.blob.wid <= later,
         ~t.blob.key => \E d \in D : d.to = t.blob.from,
         NEW E, \A e \in E : e.to = t.blob.to
  PROVE  SoundAt(tile, W \cup {t}, E, later)
<1> DEFINE S == Seen(tile, W)
           T == Seen(tile, W \cup {t})
           blob == t.blob
<1>1. T = S \cup {blob}
  BY DEF Seen
<1>2. blob.wid \in Nat /\ \A b \in S : b.wid \in Nat /\ b.wid <= wid
  BY SeenAre DEF SoundAt, Rendered, Blob
<1>3. \A u \in W : u.blob.wid \in Nat /\ u.blob.wid <= wid
  BY <1>2 DEF Seen
<1>4. tile # NoTile => Chained(tile.blobs) /\ \A u \in W \cup {t} : Last(tile.blobs).wid < u.blob.wid
  <2>1. tile # NoTile => Last(tile.blobs) \in S
    BY DEF Seen
  <2>2. tile # NoTile => Last(tile.blobs).wid < blob.wid
    <3> HIDE DEF S, blob
    <3> QED BY <1>2, <2>1 DEF blob
  <2> QED BY <2>2 DEF SoundAt
<1> HIDE DEF T, S
<1>5. \A b \in T : b.wid <= later
  BY <1>1, <1>2
<1>6. ASSUME NEW u \in W \cup {t}, ~u.blob.key PROVE Follows(T, u.blob.from, u.blob.wid)
  <2>1. CASE u = t
    <3>1. PICK d \in D : d.to = blob.from
      BY <1>6, <2>1
    <3>2. Follows(S, blob.from, wid + 1)
      BY <3>1 DEF SoundAt, S
    <3>3. \A b \in T : b.wid < blob.wid <=> b \in S /\ b.wid < wid + 1
      BY <1>1, <1>2
    <3>4. S \subseteq T
      BY <1>1
    <3>5. Follows(T, blob.from, blob.wid)
      BY <3>2, <3>3, <3>4, FollowsMore
    <3> QED BY <2>1, <3>5
  <2>2. CASE u \in W
    <3>1. Follows(S, u.blob.from, u.blob.wid)
      BY <1>6, <2>2 DEF SoundAt, S
    <3>2. \A b \in T : b.wid < u.blob.wid <=> b \in S /\ b.wid < u.blob.wid
      BY <1>1, <1>2, <1>3, <2>2
    <3>3. S \subseteq T
      BY <1>1
    <3> QED BY <3>1, <3>2, <3>3, FollowsMore
  <2> QED BY <2>1, <2>2
<1>7. ASSUME NEW e \in E PROVE Follows(T, e.to, later + 1)
  <2> SUFFICES ASSUME NEW b \in T, \A c \in T : c.wid < later + 1 => c.wid <= b.wid
               PROVE  b.to = e.to
    BY DEF Follows
  <2>1. blob.wid <= b.wid
    BY <1>1, <1>2
  <2>2. b = blob
    BY <1>1, <1>2, <2>1
  <2> QED BY <2>2
<1> QED BY <1>4, <1>5, <1>6, <1>7 DEF SoundAt, T

LEMMA SoundLater ==
  ASSUME NEW tile \in CachedTile \cup {NoTile}, NEW W \in SUBSET Rendered,
         NEW D, NEW wid \in Nat, NEW later \in Nat, SoundAt(tile, W, D, wid), wid <= later
  PROVE  SoundAt(tile, W, D, later)
<1> DEFINE S == Seen(tile, W)
<1>1. \A b \in S : b.wid \in Nat /\ b.wid <= wid
  BY SeenAre DEF SoundAt
<1> HIDE DEF S
<1>2. ASSUME NEW d \in D PROVE Follows(S, d.to, later + 1)
  <2>1. Follows(S, d.to, wid + 1)
    BY DEF SoundAt, S
  <2>2. \A b \in S : b.wid < later + 1 <=> b \in S /\ b.wid < wid + 1
    BY <1>1
  <2> QED BY <2>1, <2>2, FollowsMore
<1>3. \A b \in S : b.wid <= later
  BY <1>1
<1> QED BY <1>2, <1>3 DEF SoundAt, S


-----------------------------------------------------------------------------
(* The chains of all tiles.                                                   *)

Of(S, k) == {x \in S : x.key = k}

Sound(cache, wire, deltas, wid) ==
  \A k \in Key : SoundAt(cache[k], Of(wire, k), Of(deltas, k), wid)

Caches == [Key -> CachedTile \cup {NoTile}]

(* Of the tiles of a cache some are kept, with their chains.                  *)
SameOrGone(cache, left) ==
  \A k \in Key : left[k] # NoTile => cache[k] # NoTile /\ left[k].blobs = cache[k].blobs

LEMMA SoundOfFewer ==
  ASSUME NEW cache \in Caches, NEW wire \in SUBSET Rendered, NEW deltas, NEW less \in SUBSET deltas,
         NEW wid \in Nat, Sound(cache, wire, deltas, wid), NEW left, SameOrGone(cache, left)
  PROVE  Sound(left, wire, less, wid)
<1> SUFFICES ASSUME NEW k \in Key PROVE SoundAt(left[k], Of(wire, k), Of(less, k), wid)
  BY DEF Sound
<1>1. /\ cache[k] \in CachedTile \cup {NoTile} /\ Of(wire, k) \in SUBSET Rendered
      /\ Of(less, k) \in SUBSET Of(deltas, k)
      /\ SoundAt(cache[k], Of(wire, k), Of(deltas, k), wid)
      /\ left[k] # NoTile => cache[k] # NoTile /\ left[k].blobs = cache[k].blobs
  BY DEF Caches, Of, Sound, SameOrGone
<1> QED BY <1>1, SoundWithout

LEMMA SoundOfSaved ==
  ASSUME NEW cache \in Caches, NEW wire \in SUBSET Rendered, NEW t \in Rendered, NEW deltas,
         NEW wid \in Nat, Sound(cache, wire \cup {t}, deltas, wid),
         \A u \in wire : u.key = t.key => t.blob.wid < u.blob.wid
  PROVE  Sound([cache EXCEPT ![t.key] = SaveDataToCache(@, t.blob)], wire, deltas, wid)
<1> DEFINE left == [cache EXCEPT ![t.key] = SaveDataToCache(cache[t.key], t.blob)]
<1> SUFFICES ASSUME NEW k \in Key PROVE SoundAt(left[k], Of(wire, k), Of(deltas, k), wid)
  BY DEF Sound
<1>1. /\ cache[k] \in CachedTile \cup {NoTile} /\ Of(wire, k) \in SUBSET Rendered
      /\ SoundAt(cache[k], Of(wire \cup {t}, k), Of(deltas, k), wid)
      /\ left[k] = IF k = t.key THEN SaveDataToCache(cache[k], t.blob) ELSE cache[k]
  BY DEF Caches, Of, Sound
<1> HIDE DEF left
<1>2. CASE k = t.key
  <2>1. Of(wire \cup {t}, k) = Of(wire, k) \cup {t} /\ \A u \in Of(wire, k) : t.blob.wid < u.blob.wid
    BY <1>2 DEF Of
  <2>2. SoundAt(SaveDataToCache(cache[k], t.blob), Of(wire, k), Of(deltas, k), wid)
    BY <1>1, <2>1, SoundSaved
  <2> QED BY <1>1, <1>2, <2>2
<1>3. CASE k # t.key
  <2>1. Of(wire \cup {t}, k) = Of(wire, k)
    BY <1>3 DEF Of
  <2> QED BY <1>1, <1>3, <2>1
<1> QED BY <1>2, <1>3

-----------------------------------------------------------------------------
(* saveTileAndNotify: sessions are told, and the rendering is forgotten       *)
(* unless a newer one is awaited.                                             *)
LEMMA SaveTileAndNotifyIs ==
  ASSUME NEW w \in Broker, NEW msg \in Rendered
  PROVE  LET v == SaveTileAndNotify(w, msg)
         IN  /\ v \in Broker
             /\ v.cache = [w.cache EXCEPT ![msg.key] = SaveDataToCache(@, msg.blob)]
             /\ v.rendering = [w.rendering EXCEPT ![msg.key] = ForgetTileBeingRendered(@, msg.ver)]
             /\ v.sessions = w.sessions /\ v.ver = w.ver /\ v.out = w.out
             /\ \A s \in Session : v.session[s].requested = w.session[s].requested
<1> DEFINE k == msg.key
           tile == SaveDataToCache(w.cache[k], msg.blob)
           entry == w.rendering[k]
           told == IF entry = NoTile \/ tile = NoTile THEN {} ELSE entry.subscribers \cap w.sessions
           cache == [w.cache EXCEPT ![k] = tile]
           session == [s \in Session |-> IF s \in told THEN SendTileNow(w.session[s], k, msg.blob.wid, tile)
                                         ELSE w.session[s]]
           rendering == [w.rendering EXCEPT ![k] = ForgetTileBeingRendered(entry, msg.ver)]
           v == [w EXCEPT !.cache = cache, !.session = session, !.rendering = rendering]
<1>1. SaveTileAndNotify(w, msg) = v
  BY DEF SaveTileAndNotify
<1>2. /\ k \in Key /\ msg.blob \in Blob /\ msg.blob.wid \in Nat
      /\ w.cache \in [Key -> CachedTile \cup {NoTile}] /\ w.rendering \in [Key -> Rendering \cup {NoTile}]
      /\ w.session \in [Session -> SessionState]
  BY DEF Broker, Rendered, Blob
<1>3. tile \in CachedTile \cup {NoTile}
  BY <1>2, SavedIs
<1>4. told # {} => tile # NoTile
  OBVIOUS
<1> HIDE DEF tile, told
<1>5. cache \in [Key -> CachedTile \cup {NoTile}]
  BY <1>2, <1>3
<1>6. \A s \in Session : session[s] \in SessionState /\ session[s].requested = w.session[s].requested
  <2> TAKE s \in Session
  <2>1. w.session[s] \in SessionState
    BY <1>2
  <2>2. CASE s \in told
    <3>1. tile \in CachedTile
      BY <1>3, <1>4, <2>2
    <3>2. /\ SendTileNow(w.session[s], k, msg.blob.wid, tile) \in SessionState
          /\ SendTileNow(w.session[s], k, msg.blob.wid, tile).requested = w.session[s].requested
      BY <1>2, <2>1, <3>1, SendTileNowIs
    <3> QED BY <2>2, <3>2
  <2>3. CASE s \notin told
    BY <2>1, <2>3
  <2> QED BY <2>2, <2>3
<1>7. session \in [Session -> SessionState]
  BY <1>6
<1>8. rendering \in [Key -> Rendering \cup {NoTile}]
  <2>1. ForgetTileBeingRendered(entry, msg.ver) \in Rendering \cup {NoTile}
    BY <1>2 DEF ForgetTileBeingRendered
  <2> QED BY <1>2, <2>1
<1>9. cache = [w.cache EXCEPT ![msg.key] = SaveDataToCache(@, msg.blob)]
  BY DEF tile
<1>10. rendering = [w.rendering EXCEPT ![msg.key] = ForgetTileBeingRendered(@, msg.ver)]
  OBVIOUS
<1> HIDE DEF cache, session, rendering
<1>11. /\ v \in Broker /\ v.cache = cache /\ v.rendering = rendering /\ v.session = session
       /\ v.sessions = w.sessions /\ v.ver = w.ver /\ v.out = w.out
  BY <1>5, <1>7, <1>8 DEF Broker
<1> HIDE DEF v
<1> QED BY <1>1, <1>6, <1>9, <1>10, <1>11

(* Who waits for a newer rendering than the one that came in is owed it still.*)
LEMMA SavedIsGood ==
  ASSUME NEW due, NEW base, NEW w, Good(due, base, {}, w), NEW msg \in Rendered,
         NEW left \in SUBSET due, due \subseteq left \cup {msg}
  PROVE  Good(left, base, {}, SaveTileAndNotify(w, msg))
<1> DEFINE v == SaveTileAndNotify(w, msg)
           k == msg.key
<1>1. w \in Broker /\ w.rendering \in [Key -> Rendering \cup {NoTile}] /\ k \in Key /\ msg.ver \in Nat
      /\ w.out \in Seq(Request)
  BY DEF Good, Broker, Rendered
<1>2. /\ v \in Broker
      /\ v.rendering = [w.rendering EXCEPT ![k] = ForgetTileBeingRendered(@, msg.ver)]
      /\ v.sessions = w.sessions /\ v.ver = w.ver /\ v.out = w.out
      /\ \A s \in Session : v.session[s].requested = w.session[s].requested
  BY <1>1, SaveTileAndNotifyIs
<1> HIDE DEF v
<1>3. ASSUME NEW x \in Key PROVE EntryOk(left, {}, v, x)
  <2> DEFINE e == w.rendering[x]
  <2>1. CASE v.rendering[x] = NoTile
    BY <2>1 DEF EntryOk
  <2>2. CASE v.rendering[x] # NoTile
    <3>1. v.rendering[x] = e /\ e # NoTile /\ (x = k => ~(e.ver <= msg.ver))
      BY <1>1, <1>2, <2>2 DEF ForgetTileBeingRendered
    <3>2. EntryOk(due, {}, w, x)
      BY DEF Good
    <3>3. Newer(w, {}, e, x) => Newer(v, {}, e, x)
      BY <1>2 DEF Newer
    <3>4. ASSUME Owed(due \cup In(w.out), e, x) PROVE Owed(left \cup In(w.out), e, x)
      <4>1. PICK y \in due \cup In(w.out) : y.key = x /\ y.ver >= e.ver
        BY <3>4 DEF Owed
      <4>2. y # msg
        <5>1. e.ver \in Nat
          <6>1. e \in Rendering
            BY <1>1, <3>1
          <6> QED BY <6>1 DEF Rendering
        <5> QED BY <1>1, <3>1, <4>1, <5>1
      <4> QED BY <4>1, <4>2 DEF Owed
    <3> HIDE DEF e
    <3>5. v.rendering[x] = e /\ w.rendering[x] = e
      BY <3>1 DEF e
    <3> QED BY <1>2, <3>2, <3>3, <3>4, <3>5 DEF EntryOk
  <2> QED BY <2>1, <2>2
<1>4. RequestsOk(v)
  BY <1>2 DEF Good, RequestsOk
<1>5. Good(left, base, {}, v)
  BY <1>2, <1>3, <1>4 DEF Good
<1> QED BY <1>5 DEF v

(* handleTileCombinedResponse: the renderings of one message, each tile once. *)
Each(tiles) == \A i, j \in DOMAIN tiles : i # j => tiles[i].key # tiles[j].key

LEMMA HandleTileCombinedResponseIs ==
  ASSUME NEW tiles \in Seq(Rendered), Each(tiles), NEW wire \in SUBSET Rendered,
         \A t \in In(tiles), u \in wire : t.blob.wid < u.blob.wid,
         NEW w, NEW rest, NEW base, Good(rest \cup In(tiles), base, {}, w),
         NEW deltas, NEW wid \in Nat, Sound(w.cache, wire \cup In(tiles), deltas, wid)
  PROVE  LET v == HandleTileCombinedResponse(w, tiles)
         IN  /\ Good(rest, base, {}, v) /\ Sound(v.cache, wire, deltas, wid)
             /\ v.sessions = w.sessions /\ v.ver = w.ver /\ v.out = w.out
<1> DEFINE left(n) == {tiles[m] : m \in n + 1 .. Len(tiles)}
<1>a. Len(tiles) \in Nat /\ DOMAIN tiles = 1 .. Len(tiles)
  OBVIOUS
<1>b. left(0) = In(tiles) /\ left(Len(tiles)) = {}
  BY <1>a DEF In
<1>c. ASSUME NEW n \in 1 .. Len(tiles)
      PROVE  /\ tiles[n] \in Rendered /\ tiles[n] \in In(tiles)
             /\ left(n) \in SUBSET Rendered /\ left(n - 1) = left(n) \cup {tiles[n]}
             /\ \A u \in left(n) : u.key # tiles[n].key
  <2>1. tiles[n] \in Rendered /\ tiles[n] \in In(tiles) /\ n \in DOMAIN tiles
    BY <1>a DEF In
  <2>2. left(n) \in SUBSET Rendered
    BY <1>a
  <2>3. \A m \in n - 1 + 1 .. Len(tiles) : m = n \/ m \in n + 1 .. Len(tiles)
    BY <1>a
  <2>4. n \in n - 1 + 1 .. Len(tiles) /\ \A m \in n + 1 .. Len(tiles) : m \in n - 1 + 1 .. Len(tiles)
    BY <1>a
  <2>5. left(n - 1) = left(n) \cup {tiles[n]}
    BY <2>3, <2>4
  <2>6. \A m \in n + 1 .. Len(tiles) : m \in DOMAIN tiles /\ m # n
    BY <1>a
  <2>7. \A u \in left(n) : u.key # tiles[n].key
    BY <2>1, <2>6 DEF Each
  <2> QED BY <2>1, <2>2, <2>5, <2>7
<1> HIDE DEF left
<1> DEFINE L == Len(tiles)
           A(n) == {x \in Broker : /\ Good(rest \cup left(n), base, {}, x)
                             /\ Sound(x.cache, wire \cup left(n), deltas, wid)
                             /\ x.sessions = w.sessions /\ x.ver = w.ver /\ x.out = w.out}
           B == w
           K(x, n) == SaveTileAndNotify(x, tiles[n])
           F(h) == [n \in 0 .. L |-> IF n = 0 THEN B ELSE K(h[n - 1], n)]
<1>1. L \in Nat /\ B \in A(0) /\ \A n \in 1 .. L : \A x \in A(n - 1) : K(x, n) \in A(n)
  <2>1. L \in Nat
    BY <1>a
  <2>2. B \in A(0)
    BY <1>b DEF Good
  <2>3. ASSUME NEW n \in 1 .. L, NEW x \in A(n - 1) PROVE K(x, n) \in A(n)
    <3> DEFINE t == tiles[n]
               v == SaveTileAndNotify(x, t)
    <3>1. /\ t \in Rendered /\ t \in In(tiles) /\ left(n) \in SUBSET Rendered
          /\ left(n - 1) = left(n) \cup {t} /\ \A u \in left(n) : u.key # t.key
      BY <1>c
    <3>2. /\ x \in Broker /\ Good(rest \cup left(n - 1), base, {}, x)
          /\ Sound(x.cache, wire \cup left(n - 1), deltas, wid)
          /\ x.sessions = w.sessions /\ x.ver = w.ver /\ x.out = w.out
      OBVIOUS
    <3> HIDE DEF t
    <3>3. Good(rest \cup left(n), base, {}, v)
      <4>1. /\ rest \cup left(n) \in SUBSET (rest \cup left(n - 1))
            /\ rest \cup left(n - 1) \subseteq rest \cup left(n) \cup {t}
        BY <3>1
      <4> QED BY <3>1, <3>2, <4>1, SavedIsGood
    <3>4. /\ v \in Broker /\ v.cache = [x.cache EXCEPT ![t.key] = SaveDataToCache(@, t.blob)]
          /\ v.sessions = x.sessions /\ v.ver = x.ver /\ v.out = x.out
      BY <3>1, <3>2, SaveTileAndNotifyIs
    <3>5. Sound(v.cache, wire \cup left(n), deltas, wid)
      <4>1. x.cache \in Caches
        BY <3>2 DEF Broker, Caches
      <4>2. wire \cup left(n - 1) = wire \cup left(n) \cup {t} /\ wire \cup left(n) \in SUBSET Rendered
        BY <3>1
      <4>3. \A u \in wire \cup left(n) : u.key = t.key => t.blob.wid < u.blob.wid
        BY <3>1
      <4>4. Sound([x.cache EXCEPT ![t.key] = SaveDataToCache(@, t.blob)], wire \cup left(n), deltas, wid)
        <5> DEFINE W == wire \cup left(n)
        <5>1. W \in SUBSET Rendered /\ Sound(x.cache, W \cup {t}, deltas, wid)
              /\ \A u \in W : u.key = t.key => t.blob.wid < u.blob.wid
          BY <3>2, <4>2, <4>3
        <5> HIDE DEF W
        <5>2. Sound([x.cache EXCEPT ![t.key] = SaveDataToCache(@, t.blob)], W, deltas, wid)
          BY <3>1, <4>1, <5>1, SoundOfSaved
        <5> QED BY <5>2 DEF W
      <4> QED BY <3>4, <4>4
    <3> HIDE DEF v
    <3>6. v \in A(n)
      BY <3>2, <3>3, <3>4, <3>5
    <3> HIDE DEF A
    <3> QED BY <3>6 DEF v, t
  <2> QED BY <2>1, <2>2, <2>3
<1>2. \E h : h = F(h)
  <2> DEFINE each == [n \in 0 .. L |-> A(n)]
             step == [n \in 1 .. L |-> [x \in A(n - 1) |-> K(x, n)]]
  <2> HIDE DEF A, B, L, K
  <2>1. \A n \in 1 .. L : n \in 0 .. L /\ n - 1 \in 0 .. L
    BY <1>1
  <2>2. each[0] = A(0) /\ \A n \in 1 .. L : each[n] = A(n) /\ each[n - 1] = A(n - 1)
    BY <1>1, <2>1
  <2>3. \A n \in 1 .. L : \A x \in A(n - 1) : step[n][x] = K(x, n)
    OBVIOUS
  <2> HIDE DEF each, step
  <2>4. StaysWithin(each, B, step, L)
    BY <1>1, <2>2, <2>3 DEF StaysWithin
  <2>5. PICK h : FoldsThrough(h, each, B, step, L)
    BY <1>1, <2>4, FoldThrough
  <2>6. ASSUME NEW n \in 0 .. L PROVE h[n] = IF n = 0 THEN B ELSE K(h[n - 1], n)
    <3>1. n # 0 => n \in 1 .. L
      BY <1>1
    <3> QED BY <2>2, <2>3, <2>5, <3>1 DEF FoldsThrough
  <2>7. h = F(h)
    BY <2>5, <2>6 DEF FoldsThrough
  <2> QED BY <2>7
<1>3. PICK k : k = F(k) /\ HandleTileCombinedResponse(w, tiles) = k[L]
  BY <1>2 DEF HandleTileCombinedResponse
<1>4. k[0] = B /\ \A n \in 1 .. L : k[n] = K(k[n - 1], n)
  <2> HIDE DEF A, B, L, K
  <2>1. \A n \in 0 .. L : k[n] = F(k)[n]
    BY <1>3
  <2>2. F(k)[0] = B
    BY <1>1
  <2>3. ASSUME NEW n \in 1 .. L PROVE F(k)[n] = K(k[n - 1], n)
    BY <1>1
  <2> HIDE DEF F
  <2>4. 0 \in 0 .. L /\ \A n \in 1 .. L : n \in 0 .. L
    BY <1>1
  <2> QED BY <2>1, <2>2, <2>3, <2>4
<1>5. \A n \in 0 .. L : k[n] \in A(n)
  <2> HIDE DEF A, B, L, K
  <2> DEFINE P == {n \in 0 .. L : k[n] \in A(n)}
  <2>1. 0 \in P
    BY <1>1, <1>4
  <2>2. \A n \in 1 .. L : n - 1 \in P => n \in P
    BY <1>1, <1>4
  <2> HIDE DEF P
  <2>3. \A n \in 0 .. L : n \in P
    BY <1>1, <2>1, <2>2, Stepwise
  <2> QED BY <2>3 DEF P
<1> HIDE DEF F
<1>6. HandleTileCombinedResponse(w, tiles) \in A(L)
  <2> HIDE DEF A, B, L, K
  <2>1. L \in 0 .. L
    BY <1>1
  <2> QED BY <1>3, <1>5, <2>1
<1> DEFINE v == HandleTileCombinedResponse(w, tiles)
<1>7. /\ Good(rest \cup {}, base, {}, v) /\ Sound(v.cache, wire \cup {}, deltas, wid)
      /\ v.sessions = w.sessions /\ v.ver = w.ver /\ v.out = w.out
  BY <1>b, <1>6
<1>8. rest \cup {} = rest /\ wire \cup {} = wire
  OBVIOUS
<1> HIDE DEF v
<1>9. Good(rest, base, {}, v) /\ Sound(v.cache, wire, deltas, wid)
  BY <1>7, <1>8
<1> QED BY <1>7, <1>9 DEF v


-----------------------------------------------------------------------------
(* What is cached does not matter to those who wait.                          *)
LEMMA CacheReplaced ==
  ASSUME NEW due, NEW base, NEW more, NEW w, Good(due, base, more, w), NEW cache \in Caches
  PROVE  LET v == [w EXCEPT !.cache = cache]
         IN  /\ Good(due, base, more, v) /\ v \in Broker /\ v.cache = cache /\ v.sessions = w.sessions
             /\ v.ver = w.ver /\ v.out = w.out
<1> DEFINE v == [w EXCEPT !.cache = cache]
<1>1. w \in Broker
  BY DEF Good
<1>2. /\ v \in Broker /\ v.cache = cache /\ v.rendering = w.rendering /\ v.sessions = w.sessions
      /\ v.ver = w.ver /\ v.out = w.out /\ v.session = w.session
  BY <1>1 DEF Broker, Caches
<1> HIDE DEF v
<1>3. \A k \in Key : EntryOk(due, more, v, k)
  <2> TAKE k \in Key
  <2>1. EntryOk(due, more, w, k)
    BY DEF Good
  <2>2. \A e : Newer(w, more, e, k) => Newer(v, more, e, k)
    BY <1>2 DEF Newer
  <2> QED BY <1>2, <2>1, <2>2 DEF EntryOk
<1>4. RequestsOk(v)
  BY <1>2 DEF Good, RequestsOk
<1>5. Good(due, base, more, v)
  BY <1>2, <1>3, <1>4 DEF Good
<1> QED BY <1>2, <1>5 DEF v

(* A rendering of the newest version is asked for and awaited.                *)
LEMMA AskedIs ==
  ASSUME NEW due, NEW base \in Nat, NEW w, Good(due, base, {}, w), base <= w.ver, NEW s \in w.sessions,
         NEW asked \in Request, asked.key[1] = ViewOf[s], asked.ver = w.ver
  PROVE  LET v == [w EXCEPT !.rendering[asked.key] = SubscribeToTileRendering(@, w.ver, s),
                            !.out = Append(@, asked)]
         IN  Good(due, base, {}, v) /\ Kept(w, v)
<1> DEFINE k == asked.key
           e == w.rendering[k]
           f == SubscribeToTileRendering(e, w.ver, s)
           out == Append(w.out, asked)
           v == [w EXCEPT !.rendering[k] = f, !.out = out]
<1>1. /\ w \in Broker /\ w.ver \in Nat /\ w.out \in Seq(Request) /\ s \in Session /\ k \in Key
      /\ w.rendering \in [Key -> Rendering \cup {NoTile}] /\ w.sessions \in SUBSET Session
  BY DEF Good, Broker, Request
<1>2. e # NoTile => e \in Rendering /\ e.ver \in Nat
  BY <1>1 DEF Rendering
<1>3. EntryOk(due, {}, w, k)
  BY <1>1 DEF Good
<1>4. /\ f \in Rendering /\ f.ver <= w.ver
      /\ f.subscribers \subseteq (IF e = NoTile THEN {} ELSE e.subscribers) \cup {s}
  <2>1. CASE e = NoTile
    BY <1>1, <2>1 DEF SubscribeToTileRendering, TileBeingRendered, Rendering
  <2>2. CASE e # NoTile /\ s \in e.subscribers
    <3>1. f = [e EXCEPT !.ver = w.ver]
      BY <2>2 DEF SubscribeToTileRendering
    <3> HIDE DEF f, e
    <3>2. f \in Rendering /\ f.ver = w.ver /\ f.subscribers = e.subscribers
      BY <1>1, <1>2, <2>2, <3>1 DEF Rendering
    <3> QED BY <1>1, <2>2, <3>2
  <2>3. CASE e # NoTile /\ s \notin e.subscribers
    <3>1. f = [e EXCEPT !.subscribers = @ \cup {s}]
      BY <2>3 DEF SubscribeToTileRendering
    <3>2. e.ver <= w.ver
      BY <1>3, <2>3 DEF EntryOk
    <3> HIDE DEF f, e
    <3>3. f \in Rendering /\ f.ver = e.ver /\ f.subscribers = e.subscribers \cup {s}
      BY <1>1, <1>2, <2>3, <3>1 DEF Rendering
    <3> QED BY <2>3, <3>2, <3>3
  <2> QED BY <2>1, <2>2, <2>3
<1> HIDE DEF f
<1>5. out \in Seq(Request) /\ In(out) = In(w.out) \cup {asked}
  BY <1>1, InOfOneMore
<1>6. Rising(out, base, w.ver)
  <2>1. w.out \in Seq(ToKit) /\ asked \in ToKit
    BY <1>1 DEF ToKit
  <2>2. Rising(w.out, base, w.ver)
    BY DEF Good
  <2> QED BY <1>1, <2>1, <2>2, RisingMore
<1> HIDE DEF out, e
<1>7. /\ v.rendering = [w.rendering EXCEPT ![k] = f] /\ v.out = out
      /\ v.cache = w.cache /\ v.sessions = w.sessions /\ v.session = w.session /\ v.ver = w.ver
  BY <1>1 DEF Broker
<1>8. v \in Broker
  <2>1. [w.rendering EXCEPT ![k] = f] \in [Key -> Rendering \cup {NoTile}]
    BY <1>1, <1>4
  <2> QED BY <1>1, <1>5, <2>1 DEF Broker
<1>a. v = [w EXCEPT !.rendering[asked.key] = SubscribeToTileRendering(@, w.ver, s),
                    !.out = Append(@, asked)]
  BY DEF f, e, out
<1> HIDE DEF v
<1>9. \A x \in Key : v.rendering[x] = IF x = k THEN f ELSE w.rendering[x]
  BY <1>1, <1>7
<1>10. Owed(due \cup In(out), f, k)
  BY <1>4, <1>5 DEF Owed
<1>11. ASSUME NEW x \in Key PROVE EntryOk(due, {}, v, x)
  <2>1. EntryOk(due, {}, w, x)
    BY DEF Good
  <2>2. CASE x # k
    <3>1. v.rendering[x] = w.rendering[x]
      BY <1>9, <2>2
    <3>2. \A d : Owed(due \cup In(w.out), d, x) => Owed(due \cup In(v.out), d, x)
      BY <1>5, <1>7 DEF Owed
    <3>3. \A d : Newer(w, {}, d, x) => Newer(v, {}, d, x)
      BY <1>7 DEF Newer
    <3> QED BY <1>7, <2>1, <3>1, <3>2, <3>3 DEF EntryOk
  <2>3. CASE x = k
    <3>1. v.rendering[x] = f
      BY <1>9, <2>3
    <3>2. \A t \in f.subscribers : t \in v.sessions /\ ViewOf[t] = k[1]
      <4> TAKE t \in f.subscribers
      <4>1. t = s \/ (e # NoTile /\ t \in e.subscribers)
        BY <1>4
      <4> QED BY <1>3, <1>7, <4>1 DEF EntryOk, e
    <3> QED BY <1>4, <1>7, <1>10, <2>3, <3>1, <3>2 DEF EntryOk
  <2> QED BY <2>2, <2>3
<1>12. RequestsOk(v)
  BY <1>7 DEF Good, RequestsOk
<1>13. Good(due, base, {}, v)
  BY <1>6, <1>7, <1>8, <1>11, <1>12 DEF Good
<1>14. Kept(w, v)
  BY <1>1, <1>7 DEF Kept
<1> QED BY <1>13, <1>14, <1>a

(* handleTileRequest.                                                         *)
LEMMA HandleTileRequestIs ==
  ASSUME NEW due, NEW base \in Nat, NEW w, Good(due, base, {}, w), base <= w.ver, NEW s \in w.sessions,
         NEW r \in Request, r.key[1] = ViewOf[s]
  PROVE  Good(due, base, {}, HandleTileRequest(w, s, r)) /\ Kept(w, HandleTileRequest(w, s, r))
<1> DEFINE k == r.key
           tile == w.cache[k]
           ver == w.ver + 1
           u == [w EXCEPT !.ver = ver]
           ses == [w.session[s] EXCEPT !.lastSent[k] = 0]
           w1 == [u EXCEPT !.session[s] = ses]
<1>1. /\ w \in Broker /\ w.ver \in Nat /\ s \in Session /\ k \in Key /\ w.session[s] \in SessionState
      /\ tile \in CachedTile \cup {NoTile} /\ ver \in Nat /\ ver >= w.ver
  BY DEF Good, Broker, Request
<1>2. w1 = [w EXCEPT !.ver = @ + 1, !.session[s].lastSent[k] = 0]
  BY <1>1 DEF Broker
<1>3. Good(due, base, {}, u)
  <2> HIDE DEF ver
  <2> QED BY <1>1, BumpIsGood
<1>4. u \in Broker /\ u.ver = ver /\ u.cache = w.cache /\ u.sessions = w.sessions /\ u.session = w.session
  BY <1>1, <1>3 DEF Broker, Good
<1>5. ses \in SessionState /\ ses.requested = w.session[s].requested
  <2>1. [w.session[s].lastSent EXCEPT ![k] = 0] \in [Key -> Nat]
    BY <1>1 DEF SessionState
  <2>2. ses = [w.session[s] EXCEPT !.lastSent = [w.session[s].lastSent EXCEPT ![k] = 0]]
    OBVIOUS
  <2> QED BY <1>1, <2>1, <2>2 DEF SessionState
<1> HIDE DEF u, ses
<1>6. w1 \in Broker /\ Calm(u, w1) /\ w1.session[s] = ses
  BY <1>1, <1>4, <1>5, SessionReplaced
<1> DEFINE kept == HandleTileRequest(w, s, r)
           sent == [w1 EXCEPT !.session[s] = SendTileNow(@, k, LastWid(tile), tile)]
           asked == [r EXCEPT !.ver = w1.ver]
           joined == [w1 EXCEPT !.rendering[k] = SubscribeToTileRendering(@, w1.ver, s),
                                !.out = Append(@, asked)]
<1>7. HandleTileRequest(w, s, r) = IF tile # NoTile /\ tile.valid THEN sent ELSE joined
  <2> HIDE DEF w1, tile
  <2> QED BY <1>2 DEF HandleTileRequest, tile
<1> HIDE DEF w1
<1>8. Good(due, base, {}, w1) /\ Kept(w, w1) /\ w1.ver \in Nat /\ base <= w1.ver /\ s \in w1.sessions
  <2>1. Good(due, base, {}, w1)
    BY <1>3, <1>6, CalmIsGood
  <2>2. w1.ver = ver /\ w1.cache = w.cache /\ w1.sessions = w.sessions
    BY <1>4, <1>6 DEF Calm
  <2> QED BY <1>1, <2>1, <2>2 DEF Kept
<1>9. CASE tile # NoTile /\ tile.valid
  <2> DEFINE new == SendTileNow(w1.session[s], k, LastWid(tile), tile)
  <2>1. tile \in CachedTile /\ LastWid(tile) \in Nat
    BY <1>1, <1>9, ChangesAre
  <2>2. new \in SessionState /\ new.requested = w1.session[s].requested
    BY <1>1, <1>5, <1>6, <2>1, SendTileNowIs
  <2>3. sent = [w1 EXCEPT !.session[s] = new]
    OBVIOUS
  <2> HIDE DEF new, sent
  <2>4. sent \in Broker /\ Calm(w1, sent)
    BY <1>1, <1>6, <2>2, <2>3, SessionReplaced
  <2>5. Good(due, base, {}, sent)
    BY <1>8, <2>4, CalmIsGood
  <2>6. Kept(w, sent)
    BY <1>8, <2>4 DEF Kept, Calm
  <2> QED BY <1>7, <1>9, <2>5, <2>6
<1>10. CASE ~(tile # NoTile /\ tile.valid)
  <2>1. asked \in Request /\ asked.key = k /\ asked.ver = w1.ver /\ asked.key[1] = ViewOf[s]
    BY <1>8 DEF Request
  <2> HIDE DEF asked
  <2>2. LET v == [w1 EXCEPT !.rendering[asked.key] = SubscribeToTileRendering(@, w1.ver, s),
                            !.out = Append(@, asked)]
        IN  Good(due, base, {}, v) /\ Kept(w1, v)
    BY <1>8, <2>1, AskedIs
  <2>3. Good(due, base, {}, joined) /\ Kept(w1, joined)
    BY <2>1, <2>2
  <2> HIDE DEF joined
  <2>4. joined.ver \in Nat
    BY <2>3 DEF Good, Broker
  <2>5. Kept(w, joined)
    BY <1>1, <1>8, <2>3, <2>4 DEF Kept
  <2> QED BY <1>7, <1>10, <2>3, <2>5
<1> QED BY <1>9, <1>10

(* ClientSession::handleTileInvalidation: what is cached is invalid, and its  *)
(* chains are kept.                                                           *)
LEMMA HandleTileInvalidationIs ==
  ASSUME NEW due, NEW base \in Nat, NEW w, Good(due, base, {}, w), base <= w.ver, NEW s \in w.sessions,
         ViewOf[s] \in View, NEW area
  PROVE  LET v == HandleTileInvalidation(w, s, area)
         IN  /\ Good(due, base, {}, v) /\ SameOrGone(w.cache, v.cache)
             /\ v.sessions = w.sessions /\ v.ver >= w.ver
<1> DEFINE view == ViewOf[s]
           hit == {t \in Tile : area.lo <= t /\ t <= area.hi}
           cache == [k \in Key |-> IF k[1] = view /\ k[2] \in hit /\ w.cache[k] # NoTile
                                   THEN Invalidate(w.cache[k]) ELSE w.cache[k]]
           w1 == [w EXCEPT !.cache = cache]
           visible == Row(hit \cap Visible[s])
           requests == [i \in DOMAIN visible |->
                          LET key == <<view, visible[i]>> IN TileRequest(key, w1.cache[key] = NoTile)]
           v == HandleTileInvalidation(w, s, area)
<1>1. v = IF requests = <<>> THEN w1 ELSE HandleTileCombinedRequest(w1, s, requests, FALSE)
  BY DEF HandleTileInvalidation
<1>2. w \in Broker /\ w.cache \in Caches /\ s \in Session /\ w.ver \in Nat
  BY DEF Good, Broker, Caches
<1>3. cache \in Caches /\ SameOrGone(w.cache, cache)
  <2>1. ASSUME NEW k \in Key, w.cache[k] # NoTile
        PROVE  Invalidate(w.cache[k]) \in CachedTile /\ Invalidate(w.cache[k]).blobs = w.cache[k].blobs
    <3>1. w.cache[k] \in CachedTile
      BY <1>2, <2>1 DEF Caches
    <3> QED BY <3>1 DEF Invalidate, CachedTile
  <2>2. \A k \in Key : cache[k] \in CachedTile \cup {NoTile}
    BY <1>2, <2>1 DEF Caches
  <2>3. cache \in Caches
    BY <2>2 DEF Caches
  <2>4. SameOrGone(w.cache, cache)
    BY <2>1 DEF SameOrGone
  <2> QED BY <2>3, <2>4
<1> HIDE DEF cache
<1>4. /\ Good(due, base, {}, w1) /\ w1 \in Broker /\ w1.cache = cache /\ w1.sessions = w.sessions
      /\ w1.ver = w.ver
  BY <1>3, CacheReplaced
<1> HIDE DEF w1
<1>5. requests \in Seq(Request) /\ \A n \in DOMAIN requests : requests[n].key[1] = view
  <2>1. visible \in Seq(hit \cap Visible[s])
    <3>1. hit \cap Visible[s] \in SUBSET Tile /\ Tiles \in Nat
      BY TileFlowAssumption
    <3> QED BY <3>1, RowIs
  <2>2. Len(visible) \in Nat /\ DOMAIN visible = 1 .. Len(visible)
        /\ \A i \in DOMAIN visible : visible[i] \in Tile
    <3>1. \A T \in SUBSET Tile : \A q \in Seq(T) :
            Len(q) \in Nat /\ DOMAIN q = 1 .. Len(q) /\ \A i \in DOMAIN q : q[i] \in Tile
      OBVIOUS
    <3>2. hit \cap Visible[s] \in SUBSET Tile
      OBVIOUS
    <3> HIDE DEF visible, hit
    <3> QED BY <2>1, <3>1, <3>2
  <2> HIDE DEF visible, view
  <2>3. ASSUME NEW i \in DOMAIN visible
        PROVE  requests[i] \in Request /\ requests[i].key[1] = view
    <3> DEFINE key == <<view, visible[i]>>
               force == w1.cache[key] = NoTile
    <3>1. key \in Key /\ force \in BOOLEAN /\ key[1] = view
      BY <2>2 DEF Key, view
    <3>2. requests[i] = TileRequest(key, force)
      OBVIOUS
    <3> HIDE DEF key, force
    <3> QED BY <3>1, <3>2 DEF TileRequest, Request
  <2>4. requests = [i \in 1 .. Len(visible) |-> requests[i]] /\ DOMAIN requests = DOMAIN visible
    BY <2>2
  <2> HIDE DEF requests
  <2>5. requests \in [1 .. Len(visible) -> Request]
    BY <2>2, <2>3, <2>4
  <2>6. requests \in Seq(Request)
    BY <2>2, <2>5
  <2> QED BY <2>3, <2>4, <2>6
<1> HIDE DEF requests, v
<1>6. CASE requests = <<>>
  BY <1>1, <1>2, <1>3, <1>4, <1>6 DEF v
<1>7. CASE requests # <<>>
  <2>1. v = HandleTileCombinedRequest(w1, s, requests, FALSE)
    BY <1>1, <1>7
  <2>2. s \in w1.sessions /\ base <= w1.ver
    BY <1>4
  <2>3. Good(due, base, {}, v) /\ Kept(w1, v)
    BY <1>4, <1>5, <2>1, <2>2, HandleTileCombinedRequestIs
  <2>4. SameOrGone(w.cache, v.cache) /\ v.sessions = w.sessions /\ v.ver >= w.ver
    BY <1>3, <1>4, <2>3 DEF Kept
  <2> QED BY <2>3, <2>4 DEF v
<1> QED BY <1>6, <1>7


-----------------------------------------------------------------------------
(* Who waits is served: what is asked for is in the queue to the Kit, in its  *)
(* queue of tiles or on its way back, and versions rise along the way.        *)

AskedOf(up) == {m \in In(up) : m.type = "tile"}

DueOf(tiles, up, wire) == AskedOf(up) \cup tiles \cup wire

Served(w, tiles, up, wire) ==
  /\ Good(DueOf(tiles, up, wire), w.ver, {}, w) /\ w.out = <<>>
  /\ \A x \in AskedOf(up) : x.ver <= w.ver
  /\ \A x, y \in AskedOf(up) : Precedes(up, x, y) => x.ver <= y.ver
  /\ \A r \in tiles : r.ver <= w.ver /\ \A x \in AskedOf(up) : r.ver <= x.ver

LEMMA AskedAre ==
  ASSUME NEW up \in Seq(ToKit)
  PROVE  /\ AskedOf(up) \in SUBSET Request /\ \A x \in AskedOf(up) : x.ver \in Nat
         /\ \A more \in Seq(ToKit) : AskedOf(up \o more) = AskedOf(up) \cup AskedOf(more)
         /\ \A m \in ToKit : /\ m.type = "tile" => AskedOf(Append(up, m)) = AskedOf(up) \cup {m}
                             /\ m.type # "tile" => AskedOf(Append(up, m)) = AskedOf(up)
         /\ up # <<>> => /\ Head(up).type = "tile" => AskedOf(up) = AskedOf(Tail(up)) \cup {Head(up)}
                         /\ Head(up).type # "tile" => AskedOf(up) = AskedOf(Tail(up))
<1>1. \A x \in In(up) : x \in ToKit
  BY DEF In
<1>2. AskedOf(up) \in SUBSET Request
  <2>1. \A x \in ToKit : x.type = "tile" => x \in Request
    BY DEF ToKit
  <2> QED BY <1>1, <2>1 DEF AskedOf
<1>3. \A x \in AskedOf(up) : x.ver \in Nat
  BY <1>2 DEF Request
<1>4. \A more \in Seq(ToKit) : AskedOf(up \o more) = AskedOf(up) \cup AskedOf(more)
  <2> TAKE more \in Seq(ToKit)
  <2>1. In(up \o more) = In(up) \cup In(more)
    BY InOfTwo
  <2> QED BY <2>1 DEF AskedOf
<1>5. \A m \in ToKit : /\ m.type = "tile" => AskedOf(Append(up, m)) = AskedOf(up) \cup {m}
                       /\ m.type # "tile" => AskedOf(Append(up, m)) = AskedOf(up)
  <2> TAKE m \in ToKit
  <2>1. In(Append(up, m)) = In(up) \cup {m}
    BY InOfOneMore
  <2> QED BY <2>1 DEF AskedOf
<1>6. ASSUME up # <<>>
      PROVE  /\ Head(up).type = "tile" => AskedOf(up) = AskedOf(Tail(up)) \cup {Head(up)}
             /\ Head(up).type # "tile" => AskedOf(up) = AskedOf(Tail(up))
  <2>1. In(up) = In(Tail(up)) \cup {Head(up)}
    BY <1>6, InOfRest
  <2> QED BY <2>1 DEF AskedOf
<1> QED BY <1>2, <1>3, <1>4, <1>5, <1>6

LEMMA DueAre ==
  ASSUME NEW up \in Seq(ToKit), NEW tiles \in SUBSET Request, NEW wire \in SUBSET Rendered
  PROVE  \A x \in DueOf(tiles, up, wire) : x.ver \in Nat
<1>1. \A x \in AskedOf(up) : x.ver \in Nat
  BY AskedAre
<1>2. (\A x \in tiles : x.ver \in Nat) /\ \A x \in wire : x.ver \in Nat
  BY DEF Request, Rendered
<1> QED BY <1>1, <1>2 DEF DueOf

(* What is due is replaced by what is as new.                                 *)
LEMMA GoodDue ==
  ASSUME NEW due, NEW base, NEW more, NEW w, Good(due, base, more, w), NEW now, NEW later,
         \A x \in now : x.ver \in Nat,
         \A x \in due \cup In(w.out) : \E y \in now : y.key = x.key /\ y.ver >= x.ver
  PROVE  LET v == [w EXCEPT !.out = <<>>]
         IN  /\ Good(now, later, more, v) /\ v.out = <<>> /\ v.ver = w.ver /\ v.sessions = w.sessions
             /\ v.cache = w.cache
<1> DEFINE v == [w EXCEPT !.out = <<>>]
<1>1. w \in Broker /\ w.rendering \in [Key -> Rendering \cup {NoTile}] /\ w.out \in Seq(Request)
  BY DEF Good, Broker
<1>2. /\ v \in Broker /\ v.out = <<>> /\ v.rendering = w.rendering /\ v.sessions = w.sessions
      /\ v.ver = w.ver /\ v.cache = w.cache /\ v.session = w.session
  <2>1. \A S : <<>> \in Seq(S)
    OBVIOUS
  <2> QED BY <1>1, <2>1 DEF Broker
<1> HIDE DEF v
<1>3. \A x \in due \cup In(w.out) : x.ver \in Nat
  <2>1. \A x \in In(w.out) : x \in Request
    BY <1>1 DEF In
  <2> QED BY <2>1 DEF Good, Request
<1>4. ASSUME NEW k \in Key PROVE EntryOk(now, more, v, k)
  <2> DEFINE e == w.rendering[k]
  <2>1. EntryOk(due, more, w, k)
    BY DEF Good
  <2>2. ASSUME e # NoTile, Owed(due \cup In(w.out), e, k) PROVE Owed(now \cup In(v.out), e, k)
    <3>1. e.ver \in Nat
      <4>1. e \in Rendering
        BY <1>1, <2>2
      <4> QED BY <4>1 DEF Rendering
    <3>2. PICK x \in due \cup In(w.out) : x.key = k /\ x.ver >= e.ver
      BY <2>2 DEF Owed
    <3>3. PICK y \in now : y.key = x.key /\ y.ver >= x.ver
      OBVIOUS
    <3>4. y.ver >= e.ver
      BY <1>3, <3>1, <3>2, <3>3
    <3> QED BY <3>2, <3>3, <3>4 DEF Owed
  <2>3. Newer(w, more, e, k) => Newer(v, more, e, k)
    BY <1>2 DEF Newer
  <2> QED BY <1>2, <2>1, <2>2, <2>3 DEF EntryOk
<1>5. RequestsOk(v)
  BY <1>2 DEF Good, RequestsOk
<1>6. Rising(v.out, later, v.ver)
  BY <1>2 DEF Rising
<1>7. Good(now, later, more, v)
  BY <1>2, <1>4, <1>5, <1>6 DEF Good
<1> QED BY <1>2, <1>7 DEF v

(* The broker sends what it asks for.                                         *)
LEMMA ServedCommit ==
  ASSUME NEW w, NEW tiles \in SUBSET Request, NEW up \in Seq(ToKit), NEW wire \in SUBSET Rendered,
         Served(w, tiles, up, wire), NEW left \in SUBSET Rendered,
         NEW v, Good(DueOf(tiles, up, left), w.ver, {}, v), w.ver <= v.ver
  PROVE  /\ Served([v EXCEPT !.out = <<>>], tiles, up \o v.out, left)
         /\ up \o v.out \in Seq(ToKit) /\ In(up \o v.out) = In(up) \cup In(v.out)
         /\ v.out \in Seq(Request)
<1> DEFINE u == [v EXCEPT !.out = <<>>]
           q == up \o v.out
<1>1. /\ w \in Broker /\ w.ver \in Nat /\ v \in Broker /\ v.ver \in Nat /\ v.out \in Seq(Request)
      /\ v.out \in Seq(ToKit)
  BY DEF Served, Good, Broker, ToKit
<1>2. q \in Seq(ToKit) /\ In(q) = In(up) \cup In(v.out)
  BY <1>1, InOfTwo
<1>3. AskedOf(q) = AskedOf(up) \cup In(v.out)
  <2>1. \A x \in In(v.out) : x.type = "tile"
    <3>1. \A x \in In(v.out) : x \in Request
      BY <1>1 DEF In
    <3> QED BY <3>1 DEF Request
  <2> HIDE DEF q
  <2> QED BY <1>2, <2>1 DEF AskedOf
<1>4. \A x \in DueOf(tiles, q, left) : x.ver \in Nat
  <2> HIDE DEF q
  <2> QED BY <1>2, DueAre
<1>5. /\ Good(DueOf(tiles, q, left), v.ver, {}, u) /\ u.out = <<>> /\ u.ver = v.ver
  <2>1. \A x \in DueOf(tiles, up, left) \cup In(v.out) : \E y \in DueOf(tiles, q, left) : y.key = x.key /\ y.ver >= x.ver
    <3>1. DueOf(tiles, up, left) \cup In(v.out) = DueOf(tiles, q, left)
      BY <1>3 DEF DueOf
    <3>2. \A n \in Nat : n >= n
      OBVIOUS
    <3> HIDE DEF q
    <3> QED BY <1>4, <3>1, <3>2
  <2> HIDE DEF q
  <2> QED BY <1>4, <2>1, GoodDue
<1>6. \A i \in DOMAIN v.out : /\ v.out[i].type = "tile" /\ w.ver <= v.out[i].ver /\ v.out[i].ver <= v.ver
                              /\ v.out[i].ver \in Nat
                              /\ \A j \in 1 .. i : v.out[j].type = "tile" => v.out[j].ver <= v.out[i].ver
  <2> TAKE i \in DOMAIN v.out
  <2>1. v.out[i] \in Request
    BY <1>1
  <2> QED BY <2>1 DEF Good, Rising, Request
<1> HIDE DEF u
<1>7. \A x \in In(v.out) : w.ver <= x.ver /\ x.ver <= v.ver /\ x.ver \in Nat
  BY <1>6 DEF In
<1>8. \A x \in AskedOf(up) : x.ver \in Nat /\ x.ver <= w.ver
  BY AskedAre DEF Served
<1>9. \A x \in AskedOf(q) : x.ver <= u.ver
  BY <1>1, <1>3, <1>5, <1>7, <1>8
<1>10. ASSUME NEW x \in AskedOf(q), NEW y \in AskedOf(q), Precedes(q, x, y) PROVE x.ver <= y.ver
  <2>1. Precedes(up, x, y) \/ Precedes(v.out, x, y) \/ (x \in In(up) /\ y \in In(v.out))
    BY <1>1, <1>10, PrecedesInTwo
  <2>2. CASE Precedes(up, x, y)
    <3>1. x \in In(up) /\ y \in In(up)
      BY <2>2 DEF Precedes, In
    <3>2. x \in AskedOf(up) /\ y \in AskedOf(up)
      BY <1>10, <3>1 DEF AskedOf
    <3> QED BY <2>2, <3>2 DEF Served
  <2>3. CASE Precedes(v.out, x, y)
    <3>1. PICK i, j \in DOMAIN v.out : i < j /\ v.out[i] = x /\ v.out[j] = y
      BY <2>3 DEF Precedes
    <3>2. i \in 1 .. j
      BY <1>1, <3>1
    <3> QED BY <1>6, <3>1, <3>2
  <2>4. CASE x \in In(up) /\ y \in In(v.out)
    <3>1. x \in AskedOf(up)
      BY <1>10, <2>4 DEF AskedOf
    <3> QED BY <1>1, <1>7, <1>8, <2>4, <3>1
  <2> QED BY <2>1, <2>2, <2>3, <2>4
<1>11. ASSUME NEW r \in tiles PROVE r.ver <= u.ver /\ \A x \in AskedOf(q) : r.ver <= x.ver
  <2>1. r.ver \in Nat /\ r.ver <= w.ver /\ \A x \in AskedOf(up) : r.ver <= x.ver
    BY DEF Served, Request
  <2> QED BY <1>1, <1>3, <1>5, <1>7, <2>1
<1> HIDE DEF q
<1>12. Served(u, tiles, q, left)
  BY <1>5, <1>9, <1>10, <1>11 DEF Served
<1> QED BY <1>1, <1>2, <1>12 DEF u, q

(* A message that asks for no tile is sent to the Kit.                        *)
LEMMA ServedUp ==
  ASSUME NEW w, NEW tiles, NEW up \in Seq(ToKit), NEW wire, Served(w, tiles, up, wire),
         NEW m \in ToKit, m.type # "tile"
  PROVE  Served(w, tiles, Append(up, m), wire)
<1> DEFINE q == Append(up, m)
<1>1. AskedOf(q) = AskedOf(up)
  BY AskedAre
<1>2. \A x, y \in AskedOf(q) : Precedes(q, x, y) => Precedes(up, x, y)
  <2> TAKE x, y \in AskedOf(q)
  <2>1. y # m
    BY DEF AskedOf
  <2> QED BY <2>1, PrecedesInOneMore
<1> HIDE DEF q
<1>3. Served(w, tiles, q, wire)
  BY <1>1, <1>2 DEF Served, DueOf
<1> QED BY <1>3 DEF q

(* The Kit takes a message.                                                   *)
LEMMA ServedTaken ==
  ASSUME NEW w, NEW tiles \in SUBSET Request, NEW up \in Seq(ToKit), NEW wire \in SUBSET Rendered,
         Served(w, tiles, up, wire), up # <<>>
  PROVE  /\ Head(up).type # "tile" => Served(w, tiles, Tail(up), wire)
         /\ Head(up).type = "tile" => Served(w, PushTile(tiles, Head(up)), Tail(up), wire)
<1> DEFINE m == Head(up)
           q == Tail(up)
<1>1. m \in ToKit /\ q \in Seq(ToKit) /\ In(up) = In(q) \cup {m}
  BY InOfRest
<1>2. /\ \A x, y \in AskedOf(q) : Precedes(q, x, y) => Precedes(up, x, y)
      /\ \A y \in AskedOf(q) : Precedes(up, m, y)
  BY PrecedesInRest DEF AskedOf
<1>3. m.type # "tile" => AskedOf(up) = AskedOf(q)
  BY AskedAre
<1>4. m.type = "tile" => AskedOf(up) = AskedOf(q) \cup {m}
  BY AskedAre
<1> HIDE DEF m, q
<1>5. CASE m.type # "tile"
  <2>1. Served(w, tiles, q, wire)
    BY <1>2, <1>3, <1>5 DEF Served, DueOf
  <2> QED BY <1>5, <2>1 DEF m, q
<1>6. CASE m.type = "tile"
  <2> DEFINE new == PushTile(tiles, m)
  <2>1. m \in Request /\ m.ver \in Nat
    BY <1>1, <1>6 DEF ToKit, Request
  <2>2. new \in SUBSET Request /\ new = {r \in tiles : r.key # m.key} \cup {m}
    BY <2>1 DEF PushTile
  <2>3. m \in AskedOf(up) /\ \A x \in AskedOf(q) : x \in AskedOf(up)
    BY <1>4, <1>6
  <2> HIDE DEF new
  <2>4. w \in Broker /\ w.out = <<>> /\ w = [w EXCEPT !.out = <<>>]
    BY DEF Served, Good, Broker
  <2>5. Good(DueOf(new, q, wire), w.ver, {}, w)
    <3>1. \A x \in DueOf(new, q, wire) : x.ver \in Nat
      BY <1>1, <2>2, DueAre
    <3>2. ASSUME NEW x \in DueOf(tiles, up, wire) \cup In(w.out)
          PROVE  \E y \in DueOf(new, q, wire) : y.key = x.key /\ y.ver >= x.ver
      <4>1. x \in DueOf(tiles, up, wire)
        BY <2>4 DEF In
      <4>2. x.ver \in Nat
        BY <4>1, DueAre
      <4>3. m \in DueOf(new, q, wire)
        BY <2>2 DEF DueOf
      <4>4. CASE x \in tiles /\ x.key = m.key
        <5>1. x.ver <= m.ver
          BY <2>3, <4>4 DEF Served
        <5> QED BY <2>1, <4>2, <4>3, <4>4, <5>1
      <4>5. CASE ~(x \in tiles /\ x.key = m.key)
        <5>1. x \in DueOf(new, q, wire)
          BY <1>4, <1>6, <2>2, <4>1, <4>5 DEF DueOf
        <5> QED BY <4>2, <5>1
      <4> QED BY <4>4, <4>5
    <3>3. Good(DueOf(tiles, up, wire), w.ver, {}, w)
      BY DEF Served
    <3> DEFINE now == DueOf(new, q, wire)
               due == DueOf(tiles, up, wire)
    <3>4. /\ Good(due, w.ver, {}, w) /\ (\A x \in now : x.ver \in Nat)
          /\ \A x \in due \cup In(w.out) : \E y \in now : y.key = x.key /\ y.ver >= x.ver
      BY <3>1, <3>2, <3>3
    <3> HIDE DEF now, due
    <3>5. Good(now, w.ver, {}, [w EXCEPT !.out = <<>>])
      BY <3>4, GoodDue
    <3> QED BY <2>4, <3>5 DEF now
  <2>6. ASSUME NEW r \in new PROVE r.ver <= w.ver /\ \A x \in AskedOf(q) : r.ver <= x.ver
    <3>1. CASE r = m
      BY <1>2, <2>3, <3>1 DEF Served
    <3>2. CASE r # m
      BY <2>2, <2>3, <3>2 DEF Served
    <3> QED BY <3>1, <3>2
  <2>7. \A x \in AskedOf(q) : x.ver <= w.ver
    BY <2>3 DEF Served
  <2>8. \A x, y \in AskedOf(q) : Precedes(q, x, y) => x.ver <= y.ver
    BY <1>2, <2>3 DEF Served
  <2>9. Served(w, new, q, wire)
    BY <2>4, <2>5, <2>6, <2>7, <2>8 DEF Served
  <2> QED BY <1>6, <2>9 DEF new, m, q
<1> QED BY <1>5, <1>6


(* Tiles are rendered, ...                                                    *)
LEMMA ServedRendered ==
  ASSUME NEW w, NEW tiles \in SUBSET Request, NEW up \in Seq(ToKit), NEW wire \in SUBSET Rendered,
         Served(w, tiles, up, wire), NEW R \in SUBSET tiles, NEW new \in SUBSET Rendered,
         \A r \in R : \E t \in new : t.key = r.key /\ t.ver = r.ver
  PROVE  Served(w, tiles \ R, up, wire \cup new)
<1> DEFINE due == DueOf(tiles, up, wire)
           now == DueOf(tiles \ R, up, wire \cup new)
<1>1. \A x \in now : x.ver \in Nat
  <2>1. tiles \ R \in SUBSET Request /\ wire \cup new \in SUBSET Rendered
    OBVIOUS
  <2> QED BY <2>1, DueAre
<1>2. w \in Broker /\ w.out = <<>> /\ w = [w EXCEPT !.out = <<>>] /\ Good(due, w.ver, {}, w)
  BY DEF Served, Good, Broker
<1>3. ASSUME NEW x \in due \cup In(w.out) PROVE \E y \in now : y.key = x.key /\ y.ver >= x.ver
  <2>1. x \in due
    BY <1>2 DEF In
  <2>2. x.ver \in Nat
    BY <2>1, DueAre
  <2>3. CASE x \in R
    <3>1. PICK t \in new : t.key = x.key /\ t.ver = x.ver
      BY <2>3
    <3>2. t \in now
      BY DEF DueOf
    <3> HIDE DEF now
    <3> QED BY <2>2, <3>1, <3>2
  <2>4. CASE x \notin R
    <3>1. x \in now
      BY <2>1, <2>4 DEF DueOf
    <3> HIDE DEF now
    <3> QED BY <2>2, <3>1
  <2> QED BY <2>3, <2>4
<1> HIDE DEF now, due
<1>4. Good(now, w.ver, {}, [w EXCEPT !.out = <<>>])
  BY <1>1, <1>2, <1>3, GoodDue
<1>5. Good(now, w.ver, {}, w)
  BY <1>2, <1>4
<1> QED BY <1>5 DEF Served, now

(* ... or dropped, when nobody is left who could wait for them.               *)
LEMMA ServedDropped ==
  ASSUME NEW w, NEW tiles, NEW up, NEW wire, Served(w, tiles, up, wire), NEW R \in SUBSET tiles,
         \A r \in R : \A s \in w.sessions : ViewOf[s] # r.key[1]
  PROVE  Served(w, tiles \ R, up, wire)
<1> DEFINE due == DueOf(tiles, up, wire)
           now == DueOf(tiles \ R, up, wire)
<1>1. now \subseteq due /\ \A x \in due \ now : x \in R
  BY DEF DueOf
<1>2. Good(due, w.ver, {}, w) /\ w.out = <<>>
  BY DEF Served
<1> HIDE DEF now, due
<1>3. ASSUME NEW k \in Key PROVE EntryOk(now, {}, w, k)
  <2> DEFINE e == w.rendering[k]
  <2>1. EntryOk(due, {}, w, k)
    BY <1>2 DEF Good
  <2>2. CASE \E r \in R : r.key = k
    <3>1. \A s \in w.sessions : ViewOf[s] # k[1]
      BY <2>2
    <3>2. e # NoTile => e.subscribers = {}
      BY <2>1, <3>1 DEF EntryOk
    <3>3. Newer(w, {}, e, k)
      BY <1>2, <3>1 DEF Good, RequestsOk, Newer
    <3> QED BY <2>1, <3>2, <3>3 DEF EntryOk
  <2>3. CASE \A r \in R : r.key # k
    <3>1. Owed(due \cup In(w.out), e, k) => Owed(now \cup In(w.out), e, k)
      BY <1>1, <2>3 DEF Owed
    <3> QED BY <2>1, <3>1 DEF EntryOk
  <2> QED BY <2>2, <2>3
<1>4. Good(now, w.ver, {}, w)
  BY <1>1, <1>2, <1>3 DEF Good
<1> QED BY <1>4 DEF Served, now

(* Fewer wait, for no more.                                                   *)
Less(w, v) ==
  /\ v.ver = w.ver /\ v.out = w.out
  /\ \A k \in Key : v.rendering[k] # NoTile =>
       /\ w.rendering[k] # NoTile /\ v.rendering[k].ver = w.rendering[k].ver
       /\ v.rendering[k].subscribers \subseteq w.rendering[k].subscribers \cap v.sessions
  /\ \A s \in Session : /\ In(v.session[s].requested) \subseteq In(w.session[s].requested)
                        /\ In(v.session[s].requested) # {} => s \in v.sessions

LEMMA ServedLess ==
  ASSUME NEW w, NEW tiles, NEW up, NEW wire, Served(w, tiles, up, wire), NEW v \in Broker, Less(w, v)
  PROVE  Served(v, tiles, up, wire)
<1> DEFINE due == DueOf(tiles, up, wire)
<1>1. Good(due, w.ver, {}, w) /\ w.out = <<>> /\ v.ver = w.ver /\ v.out = w.out
  BY DEF Served, Less
<1> HIDE DEF due
<1>2. ASSUME NEW k \in Key PROVE EntryOk(due, {}, v, k)
  <2> DEFINE e == w.rendering[k]
             f == v.rendering[k]
  <2> SUFFICES ASSUME f # NoTile
               PROVE  /\ f.ver <= v.ver
                      /\ \A s \in f.subscribers : s \in v.sessions /\ ViewOf[s] = k[1]
                      /\ \/ Owed(due \cup In(v.out), f, k)
                         \/ f.subscribers = {} /\ Newer(v, {}, f, k)
    BY DEF EntryOk
  <2>1. e # NoTile /\ f.ver = e.ver /\ f.subscribers \subseteq e.subscribers \cap v.sessions
    BY DEF Less
  <2>2. /\ e.ver <= w.ver
        /\ \A s \in e.subscribers : s \in w.sessions /\ ViewOf[s] = k[1]
        /\ \/ Owed(due \cup In(w.out), e, k)
           \/ e.subscribers = {} /\ Newer(w, {}, e, k)
    BY <1>1, <2>1 DEF Good, EntryOk
  <2>3. Newer(w, {}, e, k) => Newer(v, {}, f, k)
    BY <2>1 DEF Newer, Less
  <2>4. Owed(due \cup In(w.out), e, k) => Owed(due \cup In(v.out), f, k)
    BY <1>1, <2>1 DEF Owed
  <2> HIDE DEF e, f
  <2> QED BY <1>1, <2>1, <2>2, <2>3, <2>4
<1>3. RequestsOk(v)
  <2> SUFFICES ASSUME NEW x \in Session, NEW r \in In(v.session[x].requested)
               PROVE  x \in v.sessions /\ r.key[1] = ViewOf[x] /\ r.ver <= v.ver
    BY DEF RequestsOk
  <2>1. r \in In(w.session[x].requested) /\ x \in v.sessions
    BY DEF Less
  <2> QED BY <1>1, <2>1 DEF Good, RequestsOk
<1>4. Good(due, v.ver, {}, v)
  BY <1>1, <1>2, <1>3 DEF Good
<1> QED BY <1>1, <1>4 DEF Served, due


-----------------------------------------------------------------------------
(* The renderings on their way to the broker follow each other.               *)

TilesOf(m) == IF m.type = "tiles" THEN In(m.tiles) ELSE {}

WireOf(down) == UNION {TilesOf(m) : m \in In(down)}

Chains(cache, deltas, wid, down) ==
  /\ Sound(cache, WireOf(down), deltas, wid)
  /\ \A m, n \in In(down) : Precedes(down, m, n) =>
       \A t \in TilesOf(m), u \in TilesOf(n) : t.blob.wid < u.blob.wid
  /\ \A m \in In(down) : m.type = "tiles" => Each(m.tiles)

LEMMA TilesAre ==
  ASSUME NEW m \in ToWsd
  PROVE  /\ TilesOf(m) \in SUBSET Rendered
         /\ m.type = "tiles" => m.tiles \in Seq(Rendered) /\ TilesOf(m) = In(m.tiles)
         /\ m.type # "tiles" => TilesOf(m) = {}
<1>1. m.type = "tiles" => m.tiles \in Seq(Rendered)
  BY DEF ToWsd
<1>2. ASSUME m.type = "tiles" PROVE In(m.tiles) \in SUBSET Rendered
  BY <1>1, <1>2 DEF In
<1> QED BY <1>1, <1>2 DEF TilesOf

LEMMA WireIs ==
  ASSUME NEW down \in Seq(ToWsd)
  PROVE  /\ WireOf(down) \in SUBSET Rendered
         /\ \A more \in Seq(ToWsd) : WireOf(down \o more) = WireOf(down) \cup WireOf(more)
         /\ \A m \in ToWsd : WireOf(Append(down, m)) = WireOf(down) \cup TilesOf(m)
         /\ down # <<>> => WireOf(down) = WireOf(Tail(down)) \cup TilesOf(Head(down))
<1>1. WireOf(down) \in SUBSET Rendered
  <2>1. \A m \in In(down) : TilesOf(m) \in SUBSET Rendered
    <3>1. \A m \in In(down) : m \in ToWsd
      BY DEF In
    <3> QED BY <3>1, TilesAre
  <2> QED BY <2>1 DEF WireOf
<1>2. ASSUME NEW more \in Seq(ToWsd) PROVE WireOf(down \o more) = WireOf(down) \cup WireOf(more)
  <2>1. In(down \o more) = In(down) \cup In(more)
    BY InOfTwo
  <2> QED BY <2>1 DEF WireOf
<1>3. ASSUME NEW m \in ToWsd PROVE WireOf(Append(down, m)) = WireOf(down) \cup TilesOf(m)
  <2>1. In(Append(down, m)) = In(down) \cup {m}
    BY InOfOneMore
  <2> QED BY <2>1 DEF WireOf
<1>4. ASSUME down # <<>> PROVE WireOf(down) = WireOf(Tail(down)) \cup TilesOf(Head(down))
  <2>1. In(down) = In(Tail(down)) \cup {Head(down)}
    BY <1>4, InOfRest
  <2> QED BY <2>1 DEF WireOf
<1> QED BY <1>1, <1>2, <1>3, <1>4

(* Messages that bring no renderings.                                         *)
LEMMA ChainsQuiet ==
  ASSUME NEW cache, NEW deltas, NEW wid, NEW down \in Seq(ToWsd), Chains(cache, deltas, wid, down),
         NEW more \in Seq(ToWsd), \A m \in In(more) : m.type # "tiles"
  PROVE  Chains(cache, deltas, wid, down \o more) /\ WireOf(down \o more) = WireOf(down)
<1> DEFINE q == down \o more
<1>1. q \in Seq(ToWsd) /\ In(q) = In(down) \cup In(more)
  BY InOfTwo
<1>2. \A m \in In(more) : TilesOf(m) = {}
  BY DEF TilesOf
<1>3. WireOf(q) = WireOf(down)
  <2>1. WireOf(more) = {}
    BY <1>2 DEF WireOf
  <2>2. WireOf(q) = WireOf(down) \cup WireOf(more)
    BY WireIs
  <2> QED BY <2>1, <2>2
<1>4. \A m, n : Precedes(q, m, n) =>
        Precedes(down, m, n) \/ Precedes(more, m, n) \/ (m \in In(down) /\ n \in In(more))
  BY PrecedesInTwo
<1> HIDE DEF q
<1>5. ASSUME NEW m \in In(q), NEW n \in In(q), Precedes(q, m, n),
             NEW t \in TilesOf(m), NEW u \in TilesOf(n)
      PROVE  t.blob.wid < u.blob.wid
  <2>1. n \notin In(more)
    BY <1>2
  <2>2. Precedes(more, m, n) => n \in In(more)
    BY DEF Precedes, In
  <2>3. Precedes(down, m, n)
    BY <1>4, <1>5, <2>1, <2>2
  <2>4. m \in In(down) /\ n \in In(down)
    BY <2>3 DEF Precedes, In
  <2> QED BY <2>3, <2>4 DEF Chains
<1>6. \A m \in In(q) : m.type = "tiles" => Each(m.tiles)
  BY <1>1 DEF Chains
<1>7. Chains(cache, deltas, wid, q)
  BY <1>3, <1>5, <1>6 DEF Chains
<1> QED BY <1>3, <1>7 DEF q

(* A message is taken.                                                        *)
LEMMA ChainsTaken ==
  ASSUME NEW cache, NEW deltas, NEW wid, NEW down \in Seq(ToWsd), Chains(cache, deltas, wid, down),
         down # <<>>
  PROVE  LET m == Head(down)
             q == Tail(down)
         IN  /\ m \in ToWsd /\ q \in Seq(ToWsd) /\ WireOf(q) \in SUBSET Rendered
             /\ WireOf(down) = WireOf(q) \cup TilesOf(m)
             /\ \A t \in TilesOf(m), u \in WireOf(q) : t.blob.wid < u.blob.wid
             /\ m.type = "tiles" => Each(m.tiles)
             /\ m.type # "tiles" => WireOf(q) = WireOf(down)
             /\ \A left, less : Sound(left, WireOf(q), less, wid) => Chains(left, less, wid, q)
<1> DEFINE m == Head(down)
           q == Tail(down)
<1>1. /\ m \in ToWsd /\ q \in Seq(ToWsd) /\ In(down) = In(q) \cup {m}
      /\ WireOf(down) = WireOf(q) \cup TilesOf(m)
      /\ \A x, y : Precedes(q, x, y) => Precedes(down, x, y)
      /\ \A y \in In(q) : Precedes(down, m, y)
  BY InOfRest, WireIs, PrecedesInRest
<1>2. WireOf(q) \in SUBSET Rendered
  BY <1>1, WireIs
<1>3. m.type # "tiles" => TilesOf(m) = {}
  BY DEF TilesOf
<1> HIDE DEF m, q
<1>4. \A t \in TilesOf(m), u \in WireOf(q) : t.blob.wid < u.blob.wid
  <2> TAKE t \in TilesOf(m), u \in WireOf(q)
  <2>1. PICK n \in In(q) : u \in TilesOf(n)
    BY DEF WireOf
  <2> QED BY <1>1, <2>1 DEF Chains
<1>5. m.type = "tiles" => Each(m.tiles)
  BY <1>1 DEF Chains
<1>6. ASSUME NEW left, NEW less, Sound(left, WireOf(q), less, wid) PROVE Chains(left, less, wid, q)
  <2>1. \A x, y \in In(q) : Precedes(q, x, y) =>
          \A t \in TilesOf(x), u \in TilesOf(y) : t.blob.wid < u.blob.wid
    BY <1>1 DEF Chains
  <2>2. \A x \in In(q) : x.type = "tiles" => Each(x.tiles)
    BY <1>1 DEF Chains
  <2> QED BY <1>6, <2>1, <2>2 DEF Chains
<1>7. m.type # "tiles" => WireOf(q) = WireOf(down)
  BY <1>1, <1>3
<1> QED BY <1>1, <1>2, <1>4, <1>5, <1>6, <1>7 DEF m, q

LEMMA ChainsFewer ==
  ASSUME NEW cache \in Caches, NEW deltas, NEW wid \in Nat, NEW down \in Seq(ToWsd),
         Chains(cache, deltas, wid, down), NEW left, SameOrGone(cache, left), NEW less \in SUBSET deltas
  PROVE  Chains(left, less, wid, down)
<1>1. WireOf(down) \in SUBSET Rendered /\ Sound(cache, WireOf(down), deltas, wid)
  BY WireIs DEF Chains
<1>2. Sound(left, WireOf(down), less, wid)
  BY <1>1, SoundOfFewer
<1> QED BY <1>2 DEF Chains

(* Renderings are sent, each with the next wire id, as a keyframe or as a     *)
(* delta from what the Kit rendered last.                                     *)
LEMMA ChainsRendered ==
  ASSUME NEW cache \in Caches, NEW deltas, NEW wid \in Nat, NEW down \in Seq(ToWsd),
         Chains(cache, deltas, wid, down),
         NEW done \in Seq(Rendered), Each(done),
         \A i \in DOMAIN done :
           /\ done[i].blob.wid = wid + i
           /\ ~done[i].blob.key => \E d \in deltas : d.key = done[i].key /\ d.to = done[i].blob.from,
         NEW new, \A d \in new : \/ d \in deltas /\ \A i \in DOMAIN done : d.key # done[i].key
                                 \/ \E i \in DOMAIN done : d.key = done[i].key /\ d.to = done[i].blob.to
  PROVE  Chains(cache, new, wid + Len(done), Append(down, [type |-> "tiles", tiles |-> done]))
<1> DEFINE m == [type |-> "tiles", tiles |-> done]
           q == Append(down, m)
           wire == WireOf(down)
           later == wid + Len(done)
<1>1. m \in ToWsd /\ TilesOf(m) = In(done) /\ m.type = "tiles" /\ m.tiles = done
  BY DEF ToWsd, TilesOf
<1> HIDE DEF m
<1>2. /\ q \in Seq(ToWsd) /\ In(q) = In(down) \cup {m} /\ WireOf(q) = wire \cup In(done)
      /\ wire \in SUBSET Rendered
  BY <1>1, InOfOneMore, WireIs
<1>3. \A x, y : Precedes(q, x, y) => Precedes(down, x, y) \/ (x \in In(down) /\ y = m)
  BY <1>1, PrecedesInOneMore
<1>4. Len(done) \in Nat /\ DOMAIN done = 1 .. Len(done) /\ later \in Nat /\ wid <= later
  OBVIOUS
<1>5. \A i \in DOMAIN done : wid < done[i].blob.wid /\ done[i].blob.wid <= later /\ done[i] \in Rendered
  BY <1>4
<1>6. \A t \in wire : t.key \in Key /\ t.blob.wid \in Nat /\ t.blob.wid <= wid
  <2> TAKE t \in wire
  <2>1. t \in Rendered
    BY <1>2
  <2>2. t.key \in Key /\ t.blob.wid \in Nat
    BY <2>1 DEF Rendered, Blob
  <2>3. SoundAt(cache[t.key], Of(wire, t.key), Of(deltas, t.key), wid)
    BY <2>2 DEF Chains, Sound
  <2>4. t.blob \in Seen(cache[t.key], Of(wire, t.key))
    BY DEF Seen, Of
  <2> QED BY <2>2, <2>3, <2>4 DEF SoundAt
<1> HIDE DEF q, later, wire
<1>7. Sound(cache, wire \cup In(done), new, later)
  <2> SUFFICES ASSUME NEW k \in Key
               PROVE  SoundAt(cache[k], Of(wire \cup In(done), k), Of(new, k), later)
    BY DEF Sound
  <2> DEFINE W == Of(wire, k)
             D == Of(deltas, k)
  <2>1. cache[k] \in CachedTile \cup {NoTile} /\ W \in SUBSET Rendered /\ SoundAt(cache[k], W, D, wid)
    BY <1>2 DEF Caches, Of, Chains, Sound, wire
  <2>2. CASE \E i \in DOMAIN done : done[i].key = k
    <3>1. PICK i \in DOMAIN done : done[i].key = k
      BY <2>2
    <3> DEFINE t == done[i]
    <3>2. Of(wire \cup In(done), k) = W \cup {t}
      BY <3>1 DEF Of, In, Each
    <3>3. \A e \in Of(new, k) : e.to = t.blob.to
      BY <3>1 DEF Of, Each
    <3>4. ~t.blob.key => \E d \in D : d.to = t.blob.from
      BY <3>1 DEF Of
    <3>5. t \in Rendered /\ wid < t.blob.wid /\ t.blob.wid <= later
      BY <1>5
    <3> HIDE DEF t, W, D
    <3>6. SoundAt(cache[k], W \cup {t}, Of(new, k), later)
      BY <1>4, <2>1, <3>3, <3>4, <3>5, SoundRendered
    <3> QED BY <3>2, <3>6
  <2>3. CASE \A i \in DOMAIN done : done[i].key # k
    <3>1. Of(wire \cup In(done), k) = W
      BY <2>3 DEF Of, In
    <3>2. Of(new, k) \in SUBSET D
      BY <2>3 DEF Of
    <3> HIDE DEF W, D
    <3>3. SoundAt(cache[k], W, D, later)
      BY <1>4, <2>1, SoundLater
    <3>4. SoundAt(cache[k], W, Of(new, k), later)
      BY <1>4, <2>1, <3>2, <3>3, SoundWithout
    <3> QED BY <3>1, <3>4
  <2> QED BY <2>2, <2>3
<1>8. ASSUME NEW x \in In(q), NEW y \in In(q), Precedes(q, x, y), NEW t \in TilesOf(x), NEW u \in TilesOf(y)
      PROVE  t.blob.wid < u.blob.wid
  <2>1. CASE Precedes(down, x, y)
    <3>1. x \in In(down) /\ y \in In(down)
      BY <2>1 DEF Precedes, In
    <3> QED BY <2>1, <3>1 DEF Chains
  <2>2. CASE x \in In(down) /\ y = m
    <3>1. t \in wire /\ u \in In(done)
      BY <1>1, <2>2 DEF wire, WireOf
    <3>2. PICK i \in DOMAIN done : u = done[i]
      BY <3>1 DEF In
    <3>3. wid < u.blob.wid /\ u.blob.wid \in Nat
      BY <1>5, <3>2 DEF Rendered, Blob
    <3> QED BY <1>6, <3>1, <3>3
  <2> QED BY <1>3, <1>8, <2>1, <2>2
<1>9. \A x \in In(q) : x.type = "tiles" => Each(x.tiles)
  BY <1>1, <1>2 DEF Chains
<1>10. Chains(cache, new, later, q)
  BY <1>2, <1>7, <1>8, <1>9 DEF Chains
<1> QED BY <1>10 DEF q, m, later


-----------------------------------------------------------------------------
(* The sessions of the broker are views of the Kit: loads and removals do not *)
(* overtake each other. `on` is what the broker knows, `known` the Kit.       *)

Clash(a, b) ==
  /\ {a.type, b.type} \subseteq {"load", "disconnect"} /\ "load" \in {a.type, b.type}
  /\ a.session = b.session

Twice(a, b) ==
  a.type = "canonicalidchange" /\ b.type = "canonicalidchange" /\ a.session = b.session

Members(on, known, up, down) ==
  /\ on \subseteq known
  /\ \A m \in In(up) : /\ m.type = "disconnect" => m.session \notin on
                       /\ m.type = "load" => m.session \notin known
  /\ \A a, b : Precedes(up, a, b) => ~Clash(a, b)
  /\ \A m \in In(down) : m.type = "canonicalidchange" =>
       /\ m.session \in known \ on
       /\ \A a \in In(up) : a.type = "disconnect" => a.session # m.session
  /\ \A a, b : Precedes(down, a, b) => ~Twice(a, b)

(* Messages that are about tiles, and messages that are taken.                *)
LEMMA MembersUp ==
  ASSUME NEW on, NEW known, NEW up \in Seq(ToKit), NEW down, Members(on, known, up, down),
         NEW more \in Seq(ToKit), \A m \in In(more) : m.type \notin {"load", "disconnect"}
  PROVE  Members(on, known, up \o more, down)
<1>1. In(up \o more) = In(up) \cup In(more)
  BY InOfTwo
<1>2. ASSUME NEW a, NEW b, Precedes(up \o more, a, b) PROVE ~Clash(a, b)
  <2>1. Precedes(up, a, b) \/ Precedes(more, a, b) \/ (a \in In(up) /\ b \in In(more))
    BY <1>2, PrecedesInTwo
  <2>2. Precedes(more, a, b) => b \in In(more)
    BY DEF Precedes, In
  <2> QED BY <2>1, <2>2 DEF Members, Clash
<1>3. \A m \in In(up \o more) : /\ m.type = "disconnect" => m.session \notin on
                                /\ m.type = "load" => m.session \notin known
  BY <1>1 DEF Members
<1>4. \A m \in In(down) : m.type = "canonicalidchange" =>
        /\ m.session \in known \ on
        /\ \A a \in In(up \o more) : a.type = "disconnect" => a.session # m.session
  BY <1>1 DEF Members
<1> QED BY <1>2, <1>3, <1>4 DEF Members

LEMMA MembersDown ==
  ASSUME NEW on, NEW known, NEW up, NEW down \in Seq(ToWsd), Members(on, known, up, down),
         NEW more \in Seq(ToWsd), \A m \in In(more) : m.type # "canonicalidchange"
  PROVE  Members(on, known, up, down \o more)
<1>1. In(down \o more) = In(down) \cup In(more)
  BY InOfTwo
<1>2. ASSUME NEW a, NEW b, Precedes(down \o more, a, b) PROVE ~Twice(a, b)
  <2>1. Precedes(down, a, b) \/ Precedes(more, a, b) \/ (a \in In(down) /\ b \in In(more))
    BY <1>2, PrecedesInTwo
  <2>2. Precedes(more, a, b) => b \in In(more)
    BY DEF Precedes, In
  <2> QED BY <2>1, <2>2 DEF Members, Twice
<1>3. \A m \in In(down \o more) : m.type = "canonicalidchange" =>
        /\ m.session \in known \ on
        /\ \A a \in In(up) : a.type = "disconnect" => a.session # m.session
  BY <1>1 DEF Members
<1> QED BY <1>2, <1>3 DEF Members

LEMMA MembersTaken ==
  ASSUME NEW on, NEW known, NEW up \in Seq(ToKit), NEW down \in Seq(ToWsd), Members(on, known, up, down)
  PROVE  /\ up # <<>> => Members(on, known, Tail(up), down)
         /\ down # <<>> => Members(on, known, up, Tail(down))
<1>1. ASSUME up # <<>> PROVE Members(on, known, Tail(up), down)
  <2>1. /\ In(up) = In(Tail(up)) \cup {Head(up)}
        /\ \A a, b : Precedes(Tail(up), a, b) => Precedes(up, a, b)
    BY <1>1, InOfRest, PrecedesInRest
  <2> QED BY <2>1 DEF Members
<1>2. ASSUME down # <<>> PROVE Members(on, known, up, Tail(down))
  <2>1. /\ In(down) = In(Tail(down)) \cup {Head(down)}
        /\ \A a, b : Precedes(Tail(down), a, b) => Precedes(down, a, b)
    BY <1>2, InOfRest, PrecedesInRest
  <2> QED BY <2>1 DEF Members
<1> QED BY <1>1, <1>2

(* A session takes part, ...                                                  *)
LEMMA MembersOn ==
  ASSUME NEW on, NEW known, NEW up, NEW down \in Seq(ToWsd), Members(on, known, up, down),
         down # <<>>, Head(down).type = "canonicalidchange"
  PROVE  Members(on \cup {Head(down).session}, known, up, Tail(down))
<1> DEFINE m == Head(down)
           q == Tail(down)
<1>1. /\ In(down) = In(q) \cup {m}
      /\ \A a, b : Precedes(q, a, b) => Precedes(down, a, b)
      /\ \A b \in In(q) : Precedes(down, m, b)
  BY InOfRest, PrecedesInRest
<1>2. m.type = "canonicalidchange"
  OBVIOUS
<1> HIDE DEF m, q
<1>3. \A a \in In(q) : a.type = "canonicalidchange" => a.session # m.session
  BY <1>1, <1>2 DEF Members, Twice
<1>4. m.session \in known /\ \A a \in In(up) : a.type = "disconnect" => a.session # m.session
  BY <1>1, <1>2 DEF Members
<1>5. Members(on \cup {m.session}, known, up, q)
  <2>1. on \cup {m.session} \subseteq known
    BY <1>4 DEF Members
  <2>2. \A a \in In(up) : /\ a.type = "disconnect" => a.session \notin on \cup {m.session}
                          /\ a.type = "load" => a.session \notin known
    BY <1>4 DEF Members
  <2>3. \A a \in In(q) : a.type = "canonicalidchange" =>
          /\ a.session \in known \ (on \cup {m.session})
          /\ \A b \in In(up) : b.type = "disconnect" => b.session # a.session
    BY <1>1, <1>3 DEF Members
  <2>4. /\ \A a, b : Precedes(up, a, b) => ~Clash(a, b)
        /\ \A a, b : Precedes(q, a, b) => ~Twice(a, b)
    BY <1>1 DEF Members
  <2> QED BY <2>1, <2>2, <2>3, <2>4 DEF Members
<1> QED BY <1>5 DEF m, q

(* ... leaves, ...                                                            *)
LEMMA MembersOff ==
  ASSUME NEW on, NEW known, NEW up \in Seq(ToKit), NEW down, Members(on, known, up, down),
         NEW s \in on, NEW m \in ToKit, m.type = "disconnect", m.session = s
  PROVE  Members(on \ {s}, known, Append(up, m), down)
<1>1. /\ In(Append(up, m)) = In(up) \cup {m}
      /\ \A a, b : Precedes(Append(up, m), a, b) => Precedes(up, a, b) \/ (a \in In(up) /\ b = m)
  BY InOfOneMore, PrecedesInOneMore
<1>2. on \ {s} \subseteq known /\ s \in known
  BY DEF Members
<1>3. \A a \in In(Append(up, m)) : /\ a.type = "disconnect" => a.session \notin on \ {s}
                                   /\ a.type = "load" => a.session \notin known
  BY <1>1 DEF Members
<1>4. ASSUME NEW a, NEW b, Precedes(Append(up, m), a, b) PROVE ~Clash(a, b)
  <2>1. CASE Precedes(up, a, b)
    BY <2>1 DEF Members
  <2>2. CASE a \in In(up) /\ b = m
    <3>1. a.type = "load" => a.session # s
      BY <1>2, <2>2 DEF Members
    <3> QED BY <2>2, <3>1 DEF Clash
  <2> QED BY <1>1, <1>4, <2>1, <2>2
<1>5. \A a \in In(down) : a.type = "canonicalidchange" =>
        /\ a.session \in known \ (on \ {s})
        /\ \A b \in In(Append(up, m)) : b.type = "disconnect" => b.session # a.session
  BY <1>1 DEF Members
<1>6. \A a, b : Precedes(down, a, b) => ~Twice(a, b)
  BY DEF Members
<1> QED BY <1>2, <1>3, <1>4, <1>5, <1>6 DEF Members

(* ... is removed by the Kit, ...                                             *)
LEMMA MembersRemoved ==
  ASSUME NEW on, NEW known, NEW up \in Seq(ToKit), NEW down, Members(on, known, up, down),
         up # <<>>, Head(up).type = "disconnect"
  PROVE  Members(on, known \ {Head(up).session}, Tail(up), down)
<1> DEFINE m == Head(up)
           q == Tail(up)
<1>1. /\ In(up) = In(q) \cup {m}
      /\ \A a, b : Precedes(q, a, b) => Precedes(up, a, b)
  BY InOfRest, PrecedesInRest
<1>2. m.type = "disconnect"
  OBVIOUS
<1> HIDE DEF m, q
<1>3. m.session \notin on /\ \A a \in In(down) : a.type = "canonicalidchange" => m.session # a.session
  BY <1>1, <1>2 DEF Members
<1>4. on \subseteq known \ {m.session}
  BY <1>3 DEF Members
<1>5. \A a \in In(q) : /\ a.type = "disconnect" => a.session \notin on
                       /\ a.type = "load" => a.session \notin known \ {m.session}
  BY <1>1 DEF Members
<1>6. \A a \in In(down) : a.type = "canonicalidchange" =>
        /\ a.session \in (known \ {m.session}) \ on
        /\ \A b \in In(q) : b.type = "disconnect" => b.session # a.session
  BY <1>1, <1>3 DEF Members
<1>7. /\ \A a, b : Precedes(q, a, b) => ~Clash(a, b)
      /\ \A a, b : Precedes(down, a, b) => ~Twice(a, b)
  BY <1>1 DEF Members
<1>8. Members(on, known \ {m.session}, q, down)
  BY <1>4, <1>5, <1>6, <1>7 DEF Members
<1> QED BY <1>8 DEF m, q

(* ... asks to be loaded, ...                                                 *)
LEMMA MembersJoin ==
  ASSUME NEW on, NEW known, NEW up \in Seq(ToKit), NEW down, Members(on, known, up, down),
         NEW m \in ToKit, m.type = "load", m.session \notin known,
         \A a \in In(up) : a.type # "tile" => a.session # m.session
  PROVE  Members(on, known, Append(up, m), down)
<1>1. /\ In(Append(up, m)) = In(up) \cup {m}
      /\ \A a, b : Precedes(Append(up, m), a, b) => Precedes(up, a, b) \/ (a \in In(up) /\ b = m)
  BY InOfOneMore, PrecedesInOneMore
<1>2. \A a \in In(Append(up, m)) : /\ a.type = "disconnect" => a.session \notin on
                                   /\ a.type = "load" => a.session \notin known
  BY <1>1 DEF Members
<1>3. ASSUME NEW a, NEW b, Precedes(Append(up, m), a, b) PROVE ~Clash(a, b)
  <2>1. CASE Precedes(up, a, b)
    BY <2>1 DEF Members
  <2>2. CASE a \in In(up) /\ b = m
    <3>1. a.type # "tile" => a.session # m.session
      BY <2>2
    <3> QED BY <2>2, <3>1 DEF Clash
  <2> QED BY <1>1, <1>3, <2>1, <2>2
<1>4. \A a \in In(down) : a.type = "canonicalidchange" =>
        /\ a.session \in known \ on
        /\ \A b \in In(Append(up, m)) : b.type = "disconnect" => b.session # a.session
  BY <1>1 DEF Members
<1>5. on \subseteq known /\ \A a, b : Precedes(down, a, b) => ~Twice(a, b)
  BY DEF Members
<1> QED BY <1>2, <1>3, <1>4, <1>5 DEF Members

(* ... and is loaded by the Kit.                                              *)
LEMMA MembersLoaded ==
  ASSUME NEW on, NEW known, NEW up \in Seq(ToKit), NEW down \in Seq(ToWsd), Members(on, known, up, down),
         up # <<>>, Head(up).type = "load",
         NEW n \in ToWsd, n.type = "canonicalidchange", n.session = Head(up).session
  PROVE  Members(on, known \cup {Head(up).session}, Tail(up), Append(down, n))
<1> DEFINE m == Head(up)
           q == Tail(up)
<1>1. /\ In(up) = In(q) \cup {m}
      /\ \A a, b : Precedes(q, a, b) => Precedes(up, a, b)
      /\ \A b \in In(q) : Precedes(up, m, b)
  BY InOfRest, PrecedesInRest
<1>2. m.type = "load" /\ n.session = m.session
  OBVIOUS
<1>3. /\ In(Append(down, n)) = In(down) \cup {n}
      /\ \A a, b : Precedes(Append(down, n), a, b) => Precedes(down, a, b) \/ (a \in In(down) /\ b = n)
  BY InOfOneMore, PrecedesInOneMore
<1> HIDE DEF m, q
<1>4. m.session \notin known
  BY <1>1, <1>2 DEF Members
<1>5. \A a \in In(q) : a.type \in {"load", "disconnect"} => a.session # m.session
  BY <1>1, <1>2 DEF Members, Clash
<1>6. on \subseteq known \cup {m.session} /\ m.session \notin on
  BY <1>4 DEF Members
<1>7. \A a \in In(q) : /\ a.type = "disconnect" => a.session \notin on
                       /\ a.type = "load" => a.session \notin known \cup {m.session}
  BY <1>1, <1>5 DEF Members
<1>8. \A a \in In(Append(down, n)) : a.type = "canonicalidchange" =>
        /\ a.session \in (known \cup {m.session}) \ on
        /\ \A b \in In(q) : b.type = "disconnect" => b.session # a.session
  <2> TAKE a \in In(Append(down, n))
  <2>1. CASE a \in In(down)
    BY <1>1, <2>1 DEF Members
  <2>2. CASE a = n
    BY <1>2, <1>5, <1>6, <2>2
  <2> QED BY <1>3, <2>1, <2>2
<1>9. ASSUME NEW a, NEW b, Precedes(Append(down, n), a, b) PROVE ~Twice(a, b)
  <2>1. CASE Precedes(down, a, b)
    BY <2>1 DEF Members
  <2>2. CASE a \in In(down) /\ b = n
    <3>1. a.type = "canonicalidchange" => a.session # m.session
      BY <1>4, <2>2 DEF Members
    <3> QED BY <1>2, <2>2, <3>1 DEF Twice
  <2> QED BY <1>3, <1>9, <2>1, <2>2
<1>10. \A a, b : Precedes(q, a, b) => ~Clash(a, b)
  BY <1>1 DEF Members
<1>11. Members(on, known \cup {m.session}, q, Append(down, n))
  BY <1>6, <1>7, <1>8, <1>9, <1>10 DEF Members
<1> QED BY <1>11 DEF m, q


-----------------------------------------------------------------------------
(* The invariant.                                                             *)

OnePerKey(tiles) == \A r, q \in tiles : r.key = q.key => r = q

Inv ==
  /\ TypeOK
  /\ Members(wsd.sessions, kit.sessions, toKit, toWsd)
  /\ Served(wsd, kit.tiles, toKit, WireOf(toWsd))
  /\ OnePerKey(kit.tiles)
  /\ Chains(wsd.cache, kit.deltas, kit.wid, toWsd)

(* What the proofs do not look into.                                          *)
Rest ==
  /\ doc \in [Tile -> Nat] /\ unsynced \subseteq View
  /\ client \in [Session -> ClientState]
  /\ count \in [changes : Nat, events : Nat]

(* Who waits for what depends on the views of the sessions, which stay.       *)
LEMMA ServedNext ==
  ASSUME Served(wsd', kit'.tiles, toKit', WireOf(toWsd')), kit'.viewOf = kit.viewOf
  PROVE  Served(wsd, kit.tiles, toKit, WireOf(toWsd))'
<1> DEFINE due == DueOf(kit.tiles, toKit, WireOf(toWsd))
<1>1. /\ wsd' \in Broker /\ (\A x \in due' : x.ver \in Nat)
      /\ Rising(wsd'.out, wsd'.ver, wsd'.ver) /\ wsd'.out = <<>>
      /\ \A x \in AskedOf(toKit') : x.ver <= wsd'.ver
      /\ \A x, y \in AskedOf(toKit') : Precedes(toKit', x, y) => x.ver <= y.ver
      /\ \A r \in kit'.tiles : r.ver <= wsd'.ver /\ \A x \in AskedOf(toKit') : r.ver <= x.ver
  BY DEF Served, Good
<1>2. (\A k \in Key : EntryOk(due, {}, wsd, k))'
  <2>1. \A k \in Key : EntryOk(due', {}, wsd', k)
    BY DEF Served, Good
  <2> HIDE DEF due
  <2> QED BY <2>1 DEF EntryOk, ViewOf
<1>3. RequestsOk(wsd)'
  <2>1. RequestsOk(wsd')
    BY DEF Served, Good
  <2> QED BY <2>1 DEF RequestsOk, ViewOf
<1> HIDE DEF due
<1>4. Good(due, wsd.ver, {}, wsd)'
  BY <1>1, <1>2, <1>3 DEF Good
<1> QED BY <1>1, <1>4 DEF Served, due

LEMMA InvNext ==
  ASSUME Rest', kit' \in KitState, wsd' \in Broker, toKit' \in Seq(ToKit), toWsd' \in Seq(ToWsd),
         kit'.viewOf = kit.viewOf,
         Members(wsd'.sessions, kit'.sessions, toKit', toWsd'),
         Served(wsd', kit'.tiles, toKit', WireOf(toWsd')),
         OnePerKey(kit'.tiles),
         Chains(wsd'.cache, kit'.deltas, kit'.wid, toWsd')
  PROVE  Inv'
<1>1. Served(wsd, kit.tiles, toKit, WireOf(toWsd))'
  BY ServedNext
<1>2. wsd'.out = <<>>
  BY DEF Served
<1>3. TypeOK'
  BY <1>2 DEF TypeOK, Rest
<1> QED BY <1>1, <1>3 DEF Inv

LEMMA TypesAre ==
  ASSUME Inv
  PROVE  /\ Rest /\ kit \in KitState /\ wsd \in Broker /\ toKit \in Seq(ToKit) /\ toWsd \in Seq(ToWsd)
         /\ kit.tiles \in SUBSET Request /\ kit.deltas \in SUBSET Entry /\ kit.wid \in Nat
         /\ kit.sessions \in SUBSET Session /\ kit.active \in SUBSET Session
         /\ WireOf(toWsd) \in SUBSET Rendered
         /\ wsd.cache \in Caches /\ wsd.ver \in Nat /\ wsd.sessions \in SUBSET Session
         /\ wsd.out = <<>>
         /\ \A s \in Session : ViewOf[s] \in View
         /\ Good(DueOf(kit.tiles, toKit, WireOf(toWsd)), wsd.ver, {}, wsd)
         /\ Served(wsd, kit.tiles, toKit, WireOf(toWsd))
         /\ Members(wsd.sessions, kit.sessions, toKit, toWsd)
         /\ OnePerKey(kit.tiles)
         /\ Chains(wsd.cache, kit.deltas, kit.wid, toWsd)
<1>1. TypeOK
  BY DEF Inv
<1>2. Rest /\ kit \in KitState /\ wsd \in Broker /\ toKit \in Seq(ToKit) /\ toWsd \in Seq(ToWsd) /\ wsd.out = <<>>
  BY <1>1 DEF TypeOK, Rest
<1>3. WireOf(toWsd) \in SUBSET Rendered
  BY <1>2, WireIs
<1>4. kit.tiles \in SUBSET Request /\ kit.deltas \in SUBSET Entry /\ kit.wid \in Nat
  BY <1>2 DEF KitState
<1>5. kit.sessions \in SUBSET Session /\ kit.active \in SUBSET Session
  BY <1>2 DEF KitState
<1>6. wsd.cache \in Caches /\ wsd.ver \in Nat /\ wsd.sessions \in SUBSET Session
  BY <1>2 DEF Broker, Caches
<1>7. \A s \in Session : ViewOf[s] \in View
  BY <1>2 DEF ViewOf, KitState
<1>8. Good(DueOf(kit.tiles, toKit, WireOf(toWsd)), wsd.ver, {}, wsd)
  BY DEF Inv, Served
<1>9. /\ Served(wsd, kit.tiles, toKit, WireOf(toWsd))
      /\ Members(wsd.sessions, kit.sessions, toKit, toWsd)
      /\ OnePerKey(kit.tiles)
      /\ Chains(wsd.cache, kit.deltas, kit.wid, toWsd)
  BY DEF Inv
<1> QED BY <1>2, <1>3, <1>4, <1>5, <1>6, <1>7, <1>8, <1>9

LEMMA InitInv ==
  ASSUME TileFlowAssumption, Init
  PROVE  Inv
<1>1. PICK layout \in Layouts :
        kit = [sessions |-> Session, active |-> Session, missed |-> {}, callbacks |-> <<>>,
               tiles |-> {}, deltas |-> {}, wid |-> 0, viewOf |-> layout]
  BY DEF Init
<1>2. \A S : <<>> \in Seq(S)
  OBVIOUS
<1>3. kit \in KitState
  <2>1. layout \in [Session -> View]
    BY DEF TileFlowAssumption
  <2> QED BY <1>1, <1>2, <2>1 DEF KitState
<1>4. wsd \in Broker /\ wsd.out = <<>> /\ \A s \in Session : wsd.session[s].requested = <<>>
  <2>1. FreshSession \in SessionState
    BY <1>2 DEF FreshSession, SessionState
  <2>2. FreshSession.requested = <<>>
    BY DEF FreshSession
  <2>3. wsd \in Broker
    BY <1>2, <2>1 DEF Init, Broker
  <2> QED BY <2>2, <2>3 DEF Init
<1>5. TypeOK
  <2>1. doc \in [Tile -> Nat] /\ unsynced \subseteq View /\ toKit \in Seq(ToKit) /\ toWsd \in Seq(ToWsd)
    BY <1>2 DEF Init
  <2>2. client \in [Session -> ClientState]
    BY <1>2 DEF Init, FreshClient, ClientState, NoImage
  <2>3. count \in [changes : Nat, events : Nat]
    BY DEF Init
  <2> QED BY <1>3, <1>4, <2>1, <2>2, <2>3 DEF TypeOK
<1>6. In(<<>>) = {} /\ WireOf(<<>>) = {} /\ toKit = <<>> /\ toWsd = <<>>
  BY DEF In, WireOf, Init
<1>7. Members(wsd.sessions, kit.sessions, toKit, toWsd)
  BY <1>1, <1>6 DEF Members, Precedes, Init
<1>8. DueOf(kit.tiles, toKit, WireOf(toWsd)) = {} /\ AskedOf(toKit) = {}
  BY <1>1, <1>6 DEF DueOf, AskedOf
<1>9. wsd.rendering = [k \in Key |-> NoTile] /\ wsd.cache = [k \in Key |-> NoTile]
  BY DEF Init
<1>10. Good({}, wsd.ver, {}, wsd)
  <2>1. \A k \in Key : EntryOk({}, {}, wsd, k)
    BY <1>9 DEF EntryOk
  <2>2. RequestsOk(wsd)
    BY <1>4, <1>6 DEF RequestsOk
  <2>3. Rising(wsd.out, wsd.ver, wsd.ver)
    BY <1>4 DEF Rising
  <2> QED BY <1>4, <2>1, <2>2, <2>3 DEF Good
<1>11. Served(wsd, kit.tiles, toKit, WireOf(toWsd))
  BY <1>1, <1>4, <1>8, <1>10 DEF Served
<1>12. Chains(wsd.cache, kit.deltas, kit.wid, toWsd)
  <2>1. Sound(wsd.cache, {}, {}, 0)
    BY <1>9 DEF Sound, SoundAt, Seen, Of
  <2> QED BY <1>1, <1>6, <2>1 DEF Chains, Precedes
<1>13. OnePerKey(kit.tiles)
  BY <1>1 DEF OnePerKey
<1> QED BY <1>5, <1>7, <1>11, <1>12, <1>13 DEF Inv

(* A handler of the broker.                                                   *)
LEMMA CommitIs ==
  ASSUME Inv, NEW v, NEW q \in Seq(ToWsd),
         Good(DueOf(kit.tiles, toKit, WireOf(q)), wsd.ver, {}, v), wsd.ver <= v.ver,
         Members(v.sessions, kit.sessions, toKit, q),
         Chains(v.cache, kit.deltas, kit.wid, q),
         Commit(v), toWsd' = q, kit' = kit, Rest'
  PROVE  Inv'
<1> USE TypesAre
<1> DEFINE now == [v EXCEPT !.out = <<>>]
<1>1. v \in Broker
  BY DEF Good
<1>2. /\ wsd' = now /\ toKit' = toKit \o v.out
      /\ now.sessions = v.sessions /\ now.cache = v.cache /\ now \in Broker
  <2>1. wsd' = now /\ toKit' = toKit \o v.out
    BY DEF Commit
  <2>2. now.sessions = v.sessions /\ now.cache = v.cache
    BY <1>1 DEF Broker
  <2>3. now \in Broker
    <3>1. <<>> \in Seq(Request)
      OBVIOUS
    <3> QED BY <1>1, <3>1 DEF Broker
  <2> QED BY <2>1, <2>2, <2>3
<1>3. WireOf(q) \in SUBSET Rendered
  BY WireIs
<1>4. /\ Served(now, kit.tiles, toKit \o v.out, WireOf(q))
      /\ toKit \o v.out \in Seq(ToKit)
      /\ v.out \in Seq(Request)
  BY <1>3, ServedCommit
<1>5. Members(v.sessions, kit.sessions, toKit \o v.out, q)
  <2>1. v.out \in Seq(ToKit)
    BY <1>4 DEF ToKit
  <2>2. \A m \in In(v.out) : m.type \notin {"load", "disconnect"}
    <3>1. \A i \in DOMAIN v.out : v.out[i] \in Request
      BY <1>4
    <3>2. \A r \in Request : r.type = "tile"
      BY DEF Request
    <3> QED BY <3>1, <3>2 DEF In
  <2> QED BY <2>1, <2>2, MembersUp
<1> HIDE DEF now
<1>6. /\ Members(wsd'.sessions, kit'.sessions, toKit', toWsd')
      /\ Chains(wsd'.cache, kit'.deltas, kit'.wid, toWsd')
      /\ OnePerKey(kit'.tiles) /\ kit'.viewOf = kit.viewOf
  BY <1>2, <1>5
<1>7. Served(wsd', kit'.tiles, toKit', WireOf(toWsd'))
  BY <1>2, <1>4
<1>8. kit' \in KitState /\ wsd' \in Broker /\ toKit' \in Seq(ToKit) /\ toWsd' \in Seq(ToWsd)
  BY <1>2, <1>4
<1> QED BY <1>6, <1>7, <1>8, InvNext

LEMMA MessageIs ==
  ASSUME NEW m \in ToWsd
  PROVE  /\ m.type = "invalidate" => m.session \in Session /\ m.area \in Areas
         /\ m.type = "canonicalidchange" => m.session \in Session
  BY DEF ToWsd

(* A message of the Kit.                                                      *)
LEMMA HandleKitMessageInv ==
  ASSUME Inv, HandleKitMessage
  PROVE  Inv'
<1> USE TypesAre
<1> DEFINE m == Head(toWsd)
           q == Tail(toWsd)
           due == DueOf(kit.tiles, toKit, WireOf(toWsd))
           left == DueOf(kit.tiles, toKit, WireOf(q))
<1>1. /\ m \in ToWsd /\ q \in Seq(ToWsd) /\ WireOf(q) \in SUBSET Rendered
      /\ WireOf(toWsd) = WireOf(q) \cup TilesOf(m)
      /\ \A t \in TilesOf(m), u \in WireOf(q) : t.blob.wid < u.blob.wid
      /\ m.type = "tiles" => Each(m.tiles)
      /\ m.type # "tiles" => WireOf(q) = WireOf(toWsd)
      /\ \A cache, less : Sound(cache, WireOf(q), less, kit.wid) => Chains(cache, less, kit.wid, q)
  BY ChainsTaken DEF HandleKitMessage
<1>2. /\ toWsd # <<>> /\ toWsd' = q /\ kit' = kit /\ doc' = doc /\ client' = client /\ count' = count
      /\ m.type \in {"tiles", "invalidate", "trimmed", "canonicalidchange"}
  BY DEF HandleKitMessage
<1>3. unsynced' \subseteq View
  <2>1. unsynced \subseteq View
    BY DEF Rest
  <2>2. m.type = "invalidate" => ViewOf[m.session] \in View
    BY <1>1, MessageIs
  <2> QED BY <2>1, <2>2 DEF HandleKitMessage
<1>4. Rest'
  BY <1>2, <1>3 DEF Rest
<1>5. Members(wsd.sessions, kit.sessions, toKit, q)
  BY <1>2, MembersTaken
<1>6. Sound(wsd.cache, WireOf(toWsd), kit.deltas, kit.wid)
  BY DEF Chains
<1>7. CASE m.type = "tiles"
  <2> DEFINE v == HandleTileCombinedResponse(wsd, m.tiles)
  <2>1. Commit(v)
    BY <1>7 DEF HandleKitMessage
  <2>2. m.tiles \in Seq(Rendered) /\ TilesOf(m) = In(m.tiles)
    BY <1>1, <1>7, TilesAre
  <2>3. due = left \cup In(m.tiles)
    BY <1>1, <2>2 DEF DueOf
  <2> HIDE DEF m, q, due, left
  <2>4. Good(left \cup In(m.tiles), wsd.ver, {}, wsd)
    BY <2>3 DEF due
  <2>5. /\ Good(left, wsd.ver, {}, v) /\ Sound(v.cache, WireOf(q), kit.deltas, kit.wid)
        /\ v.sessions = wsd.sessions /\ v.ver = wsd.ver
    <3>1. Sound(wsd.cache, WireOf(q) \cup In(m.tiles), kit.deltas, kit.wid)
      BY <1>1, <1>6, <2>2
    <3>2. /\ \A t \in In(m.tiles), u \in WireOf(q) : t.blob.wid < u.blob.wid
          /\ Each(m.tiles) /\ WireOf(q) \in SUBSET Rendered /\ kit.wid \in Nat
      BY <1>1, <1>7, <2>2
    <3> HIDE TypesAre
    <3> DEFINE wire == WireOf(q)
               tiles == m.tiles
               wid == kit.wid
    <3>3. /\ tiles \in Seq(Rendered) /\ Each(tiles) /\ wire \in SUBSET Rendered /\ wid \in Nat
          /\ \A t \in In(tiles), u \in wire : t.blob.wid < u.blob.wid
          /\ Good(left \cup In(tiles), wsd.ver, {}, wsd)
          /\ Sound(wsd.cache, wire \cup In(tiles), kit.deltas, wid)
      BY <2>2, <2>4, <3>1, <3>2
    <3> HIDE DEF wire, tiles, wid
    <3>4. LET x == HandleTileCombinedResponse(wsd, tiles)
          IN  /\ Good(left, wsd.ver, {}, x) /\ Sound(x.cache, wire, kit.deltas, wid)
              /\ x.sessions = wsd.sessions /\ x.ver = wsd.ver
      BY <3>3, HandleTileCombinedResponseIs
    <3> QED BY <3>4 DEF wire, tiles, wid
  <2> HIDE DEF v
  <2>6. Members(v.sessions, kit.sessions, toKit, q) /\ Chains(v.cache, kit.deltas, kit.wid, q)
    BY <1>1, <1>5, <2>5
  <2>7. Good(DueOf(kit.tiles, toKit, WireOf(q)), wsd.ver, {}, v) /\ wsd.ver <= v.ver
    BY <2>5 DEF left
  <2> QED BY <1>1, <1>2, <1>4, <2>1, <2>6, <2>7, CommitIs
<1>8. m.type # "tiles" => /\ WireOf(q) = WireOf(toWsd) /\ Good(left, wsd.ver, {}, wsd)
                          /\ Chains(wsd.cache, kit.deltas, kit.wid, q)
  BY <1>1, <1>6
<1>9. CASE m.type = "invalidate"
  <2> DEFINE v == Invalidation(m)
  <2>1. Commit(v)
    BY <1>9 DEF HandleKitMessage
  <2>2. m.session \in Session
    BY <1>1, <1>9, MessageIs
  <2> HIDE DEF m, q, due, left
  <2>3. /\ Good(left, wsd.ver, {}, v) /\ SameOrGone(wsd.cache, v.cache)
        /\ v.sessions = wsd.sessions /\ wsd.ver <= v.ver
    <3>1. CASE m.session \in wsd.sessions
      <4>1. v = HandleTileInvalidation(wsd, m.session, m.area)
        BY <3>1 DEF Invalidation
      <4>2. ViewOf[m.session] \in View /\ Good(left, wsd.ver, {}, wsd)
        BY <1>8, <1>9, <2>2
      <4> DEFINE s == m.session
                 area == m.area
                 base == wsd.ver
      <4>3. /\ Good(left, base, {}, wsd) /\ base \in Nat /\ base <= wsd.ver
            /\ s \in wsd.sessions /\ ViewOf[s] \in View
        BY <3>1, <4>2
      <4> HIDE DEF v, s, area, base
      <4> HIDE TypesAre
      <4>4. LET x == HandleTileInvalidation(wsd, s, area)
            IN  /\ Good(left, base, {}, x) /\ SameOrGone(wsd.cache, x.cache)
                /\ x.sessions = wsd.sessions /\ x.ver >= wsd.ver
        BY <4>3, HandleTileInvalidationIs
      <4>5. v.ver \in Nat /\ wsd.ver \in Nat
        BY <4>1, <4>3, <4>4, TypesAre DEF Good, Broker, s, area
      <4> QED BY <4>1, <4>4, <4>5 DEF s, area, base
    <3>2. CASE m.session \notin wsd.sessions
      <4>1. v = wsd
        BY <3>2 DEF Invalidation
      <4> HIDE DEF v
      <4> QED BY <1>8, <1>9, <4>1 DEF SameOrGone
    <3> QED BY <3>1, <3>2
  <2> HIDE DEF v
  <2>4. Chains(v.cache, kit.deltas, kit.wid, q)
    <3>1. kit.deltas \in SUBSET kit.deltas
      OBVIOUS
    <3> QED BY <1>1, <1>8, <1>9, <2>3, <3>1, ChainsFewer
  <2>5. Good(DueOf(kit.tiles, toKit, WireOf(q)), wsd.ver, {}, v)
    BY <2>3 DEF left
  <2>6. Members(v.sessions, kit.sessions, toKit, q)
    BY <1>5, <2>3
  <2> QED BY <1>1, <1>2, <1>4, <2>1, <2>3, <2>4, <2>5, <2>6, CommitIs
<1>10. CASE m.type = "trimmed"
  <2> DEFINE none == [k \in Key |-> NoTile]
             v == [wsd EXCEPT !.cache = none]
  <2>1. Commit(v)
    BY <1>10 DEF HandleKitMessage
  <2>2. none \in Caches /\ SameOrGone(wsd.cache, none)
    BY DEF Caches, SameOrGone
  <2> HIDE DEF m, q, due, left, none
  <2>3. Good(left, wsd.ver, {}, v) /\ v.cache = none /\ v.sessions = wsd.sessions /\ v.ver = wsd.ver
    BY <1>8, <1>10, <2>2, CacheReplaced
  <2> HIDE DEF v
  <2>4. Chains(v.cache, kit.deltas, kit.wid, q)
    <3>1. kit.deltas \in SUBSET kit.deltas
      OBVIOUS
    <3> QED BY <1>1, <1>8, <1>10, <2>2, <2>3, <3>1, ChainsFewer
  <2>5. Good(DueOf(kit.tiles, toKit, WireOf(q)), wsd.ver, {}, v)
    BY <2>3 DEF left
  <2>6. Members(v.sessions, kit.sessions, toKit, q) /\ wsd.ver <= v.ver
    BY <1>5, <2>3
  <2> QED BY <1>1, <1>2, <1>4, <2>1, <2>4, <2>5, <2>6, CommitIs
<1>11. CASE m.type = "canonicalidchange"
  <2> DEFINE v == [wsd EXCEPT !.sessions = @ \cup {m.session}]
  <2>1. Commit(v)
    BY <1>11 DEF HandleKitMessage
  <2>2. Members(wsd.sessions \cup {m.session}, kit.sessions, toKit, q)
    BY <1>2, <1>11, MembersOn
  <2>3. m.session \in Session
    BY <1>1, <1>11, MessageIs
  <2> HIDE DEF m, q, due, left
  <2>4. /\ v \in Broker /\ v.sessions = wsd.sessions \cup {m.session} /\ v.cache = wsd.cache
        /\ v.ver = wsd.ver /\ v.rendering = wsd.rendering /\ v.session = wsd.session /\ v.out = wsd.out
    BY <2>3 DEF Broker
  <2> HIDE DEF v
  <2>5. Less(wsd, v)
    <3>1. \A k \in Key : wsd.rendering[k] # NoTile => wsd.rendering[k].subscribers \subseteq wsd.sessions
      BY DEF Good, EntryOk
    <3>2. \A s \in Session : In(wsd.session[s].requested) # {} => s \in wsd.sessions
      BY DEF Good, RequestsOk
    <3> QED BY <2>4, <3>1, <3>2 DEF Less
  <2>6. Served(v, kit.tiles, toKit, WireOf(toWsd))
    BY <2>4, <2>5, ServedLess
  <2>7. Good(DueOf(kit.tiles, toKit, WireOf(q)), wsd.ver, {}, v)
    BY <1>8, <1>11, <2>4, <2>6 DEF Served
  <2>8. Chains(v.cache, kit.deltas, kit.wid, q) /\ Members(v.sessions, kit.sessions, toKit, q) /\ wsd.ver <= v.ver
    BY <1>8, <1>11, <2>2, <2>4
  <2> QED BY <1>1, <1>2, <1>4, <2>1, <2>7, <2>8, CommitIs
<1> QED BY <1>2, <1>7, <1>9, <1>10, <1>11


-----------------------------------------------------------------------------
(* Steps of the broker and of the clients that ask for nothing.               *)
LEMMA BrokerIs ==
  ASSUME Inv, NEW v \in Broker, Less(wsd, v), SameOrGone(wsd.cache, v.cache), v.sessions = wsd.sessions,
         wsd' = v, UNCHANGED <<kit, toKit, toWsd>>, Rest'
  PROVE  Inv'
<1> USE TypesAre
<1>1. Served(v, kit.tiles, toKit, WireOf(toWsd))
  BY ServedLess
<1>2. Chains(v.cache, kit.deltas, kit.wid, toWsd)
  <2>1. kit.deltas \in SUBSET kit.deltas
    OBVIOUS
  <2> QED BY <2>1, ChainsFewer
<1>3. /\ Members(wsd'.sessions, kit'.sessions, toKit', toWsd')
      /\ Chains(wsd'.cache, kit'.deltas, kit'.wid, toWsd')
      /\ OnePerKey(kit'.tiles) /\ kit'.viewOf = kit.viewOf
  BY <1>2
<1>4. Served(wsd', kit'.tiles, toKit', WireOf(toWsd'))
  BY <1>1
<1>5. kit' \in KitState /\ wsd' \in Broker /\ toKit' \in Seq(ToKit) /\ toWsd' \in Seq(ToWsd)
  OBVIOUS
<1> QED BY <1>3, <1>4, <1>5, InvNext

LEMMA CalmIsLess ==
  ASSUME Inv, NEW v, Calm(wsd, v)
  PROVE  Less(wsd, v)
<1>1. \A k \in Key : wsd.rendering[k] # NoTile => wsd.rendering[k].subscribers \subseteq wsd.sessions
  BY TypesAre DEF Good, EntryOk
<1>2. \A s \in Session : In(wsd.session[s].requested) # {} => s \in wsd.sessions
  BY TypesAre DEF Good, RequestsOk
<1> QED BY <1>1, <1>2 DEF Less, Calm

(* What happens in a session of the broker.                                   *)
LEMMA SessionIs ==
  ASSUME Inv, NEW s \in Session, NEW ses \in SessionState, ses.requested = wsd.session[s].requested,
         wsd' = [wsd EXCEPT !.session[s] = ses], UNCHANGED <<kit, toKit, toWsd>>, Rest'
  PROVE  Inv'
<1> DEFINE v == [wsd EXCEPT !.session[s] = ses]
<1>1. v \in Broker /\ v.cache = wsd.cache /\ v.sessions = wsd.sessions /\ Calm(wsd, v)
  BY TypesAre, SessionReplaced
<1>2. wsd' = v
  OBVIOUS
<1> HIDE DEF v
<1>3. Less(wsd, v) /\ SameOrGone(wsd.cache, v.cache)
  BY <1>1, CalmIsLess DEF SameOrGone
<1> QED BY <1>1, <1>2, <1>3, BrokerIs

LEMMA CountsIs ==
  ASSUME Rest, NEW event \in {"changes", "events"}, NEW max, Counts(event, max)
  PROVE  count' \in [changes : Nat, events : Nat]
  BY DEF Rest, Counts

LEMMA RenderingStallsInv ==
  ASSUME Inv, RenderingStalls
  PROVE  Inv'
<1> USE TypesAre
<1> DEFINE now == [k \in Key |-> IF wsd.rendering[k] = NoTile THEN NoTile
                                 ELSE [wsd.rendering[k] EXCEPT !.stale = TRUE]]
           v == [wsd EXCEPT !.rendering = now]
<1>1. wsd' = v /\ UNCHANGED <<kit, toKit, toWsd>>
  BY DEF RenderingStalls
<1>2. \A k \in Key : wsd.rendering[k] # NoTile =>
        /\ wsd.rendering[k] \in Rendering /\ wsd.rendering[k].subscribers \subseteq wsd.sessions
  BY DEF Good, EntryOk, Broker
<1>3. \A k \in Key : now[k] # NoTile =>
        /\ wsd.rendering[k] # NoTile /\ now[k] \in Rendering /\ now[k].ver = wsd.rendering[k].ver
        /\ now[k].subscribers = wsd.rendering[k].subscribers
  BY <1>2 DEF Rendering
<1>4. now \in [Key -> Rendering \cup {NoTile}]
  BY <1>3
<1> HIDE DEF now
<1>5. /\ v \in Broker /\ v.rendering = now /\ v.cache = wsd.cache /\ v.sessions = wsd.sessions
      /\ v.ver = wsd.ver /\ v.out = wsd.out /\ v.session = wsd.session
  BY <1>4 DEF Broker
<1> HIDE DEF v
<1>6. \A s \in Session : In(wsd.session[s].requested) # {} => s \in wsd.sessions
  BY DEF Good, RequestsOk
<1>7. Less(wsd, v) /\ SameOrGone(wsd.cache, v.cache)
  BY <1>2, <1>3, <1>5, <1>6 DEF Less, SameOrGone
<1>8. Rest'
  <2>1. count' \in [changes : Nat, events : Nat]
    BY CountsIs DEF RenderingStalls
  <2> QED BY <2>1 DEF Rest, RenderingStalls
<1> QED BY <1>1, <1>5, <1>7, <1>8, BrokerIs

LEMMA ClientStallsInv ==
  ASSUME Inv, NEW s \in Session, ClientStalls(s)
  PROVE  Inv'
<1> DEFINE ses == wsd.session[s]
           old == [i \in DOMAIN ses.onFly |-> [ses.onFly[i] EXCEPT !.old = TRUE]]
           now == [ses EXCEPT !.onFly = old]
<1>1. ses \in SessionState
  BY TypesAre DEF Broker
<1>2. old \in Seq([wid : Nat, old : BOOLEAN])
  <2> DEFINE R == [wid : Nat, old : BOOLEAN]
             fly == ses.onFly
  <2>1. \A x \in R : [x EXCEPT !.old = TRUE] \in R
    OBVIOUS
  <2>2. fly \in Seq(R)
    BY <1>1 DEF SessionState
  <2> HIDE DEF R, fly
  <2>3. DOMAIN fly = 1 .. Len(fly) /\ Len(fly) \in Nat /\ \A i \in DOMAIN fly : fly[i] \in R
    BY <2>2
  <2>4. [i \in DOMAIN fly |-> [fly[i] EXCEPT !.old = TRUE]] \in [1 .. Len(fly) -> R]
    BY <2>1, <2>3
  <2>5. [i \in DOMAIN fly |-> [fly[i] EXCEPT !.old = TRUE]] \in Seq(R)
    BY <2>3, <2>4
  <2> QED BY <2>5 DEF R, fly
<1>3. now \in SessionState /\ now.requested = ses.requested
  <2> HIDE DEF old, ses
  <2> QED BY <1>1, <1>2 DEF SessionState
<1>4. wsd' = [wsd EXCEPT !.session[s] = now]
  BY DEF ClientStalls
<1>5. UNCHANGED <<kit, toKit, toWsd>>
  BY DEF ClientStalls
<1>6. Rest'
  <2>1. count' \in [changes : Nat, events : Nat]
    BY TypesAre, CountsIs DEF ClientStalls
  <2> QED BY <2>1, TypesAre DEF Rest, ClientStalls
<1> HIDE DEF now
<1> QED BY <1>3, <1>4, <1>5, <1>6, SessionIs

LEMMA CleanCacheInv ==
  ASSUME Inv, NEW victim, CleanCache(victim)
  PROVE  Inv'
<1> USE TypesAre
<1> DEFINE left == EnsureCacheSize(wsd.cache, wsd.rendering, victim)
           v == [wsd EXCEPT !.cache = left]
<1>1. left \in Caches /\ SameOrGone(wsd.cache, left)
  BY DEF EnsureCacheSize, Caches, SameOrGone
<1>2. wsd' = v /\ UNCHANGED <<kit, toKit, toWsd>>
  BY DEF CleanCache
<1> HIDE DEF left
<1>3. /\ v \in Broker /\ v.cache = left /\ v.sessions = wsd.sessions
      /\ v.ver = wsd.ver /\ v.out = wsd.out /\ v.session = wsd.session /\ v.rendering = wsd.rendering
  BY <1>1 DEF Broker, Caches
<1> HIDE DEF v
<1>4. \A k \in Key : wsd.rendering[k] # NoTile => wsd.rendering[k].subscribers \subseteq wsd.sessions
  BY DEF Good, EntryOk
<1>5. \A s \in Session : In(wsd.session[s].requested) # {} => s \in wsd.sessions
  BY DEF Good, RequestsOk
<1>6. Less(wsd, v)
  BY <1>3, <1>4, <1>5 DEF Less
<1>7. Rest'
  <2>1. count' \in [changes : Nat, events : Nat]
    BY CountsIs DEF CleanCache
  <2> QED BY <2>1 DEF Rest, CleanCache
<1>8. SameOrGone(wsd.cache, v.cache)
  BY <1>1, <1>3
<1> QED BY <1>2, <1>3, <1>6, <1>7, <1>8, BrokerIs

LEMMA ClientReceiveInv ==
  ASSUME Inv, NEW s \in Session, ClientReceive(s)
  PROVE  Inv'
<1> DEFINE ses == wsd.session[s]
           now == [ses EXCEPT !.queue = Tail(@)]
           m == Head(ses.queue)
<1>1. ses \in SessionState /\ ses.queue # <<>>
  BY TypesAre DEF Broker, ClientReceive
<1>2. m \in Item /\ Tail(ses.queue) \in Seq(Item)
  <2>1. ses.queue \in Seq(Item)
    BY <1>1 DEF SessionState
  <2> QED BY <1>1, <2>1
<1>3. now \in SessionState /\ now.requested = ses.requested
  <2> HIDE DEF ses
  <2> QED BY <1>1, <1>2 DEF SessionState
<1>4. wsd' = [wsd EXCEPT !.session[s] = now]
  BY DEF ClientReceive
<1>5. UNCHANGED <<kit, toKit, toWsd, doc, unsynced, count>>
  BY DEF ClientReceive
<1>6. client' \in [Session -> ClientState]
  <2> DEFINE c == client[s]
             t == m.key[2]
             image == [c.image EXCEPT ![t] = Apply(@, m.blobs)]
             shown == [image |-> image, asked |-> c.asked \ {t}, acks |-> Append(c.acks, m.wid)]
  <2>1. client \in [Session -> ClientState] /\ c \in ClientState
    BY TypesAre DEF Rest
  <2>2. t \in Tile /\ m.blobs \in Seq(Blob) /\ m.wid \in Nat
    BY <1>2 DEF Item, Key
  <2>3. client' = [client EXCEPT ![s] = shown]
    BY DEF ClientReceive
  <2> HIDE DEF m, t
  <2>4. c.image \in [Tile -> Int] /\ c.asked \in SUBSET Tile /\ c.acks \in Seq(Nat)
        /\ c = [image |-> c.image, asked |-> c.asked, acks |-> c.acks]
    BY <2>1 DEF ClientState
  <2>5. Apply(c.image[t], m.blobs) \in Int
    BY <2>2, <2>4, ApplyIs
  <2>6. image \in [Tile -> Int] /\ c.asked \ {t} \in SUBSET Tile /\ Append(c.acks, m.wid) \in Seq(Nat)
    BY <2>2, <2>4, <2>5
  <2>7. shown \in ClientState
    <3> HIDE DEF image, c
    <3> QED BY <2>6 DEF ClientState
  <2> HIDE DEF shown
  <2> QED BY <2>1, <2>3, <2>7
<1>7. Rest'
  BY <1>5, <1>6, TypesAre DEF Rest
<1> HIDE DEF now
<1> QED BY <1>3, <1>4, <1>5, <1>7, SessionIs


-----------------------------------------------------------------------------
(* Requests of the clients.                                                   *)
LEMMA HandlerIs ==
  ASSUME Inv, NEW v, Good(DueOf(kit.tiles, toKit, WireOf(toWsd)), wsd.ver, {}, v), Kept(wsd, v),
         Commit(v), UNCHANGED <<kit, toWsd>>, Rest'
  PROVE  Inv'
<1>1. v.ver \in Nat /\ wsd.ver \in Nat /\ v.ver >= wsd.ver
  BY TypesAre DEF Good, Broker, Kept
<1>2. wsd.ver <= v.ver
  BY <1>1
<1>3. Members(v.sessions, kit.sessions, toKit, toWsd) /\ Chains(v.cache, kit.deltas, kit.wid, toWsd)
  BY TypesAre DEF Kept
<1>4. toWsd \in Seq(ToWsd)
  BY TypesAre
<1>5. toWsd' = toWsd /\ kit' = kit
  OBVIOUS
<1> QED BY <1>2, <1>3, <1>4, <1>5, CommitIs

LEMMA AskedForIs ==
  ASSUME TileFlowAssumption, Inv, NEW s \in Session, NEW tiles \in SUBSET Tile, AskTiles(s, tiles),
         UNCHANGED <<kit, toWsd>>, Rest'
  PROVE  Inv'
<1> DEFINE order == Row(tiles)
           reqs == [i \in DOMAIN order |-> TileRequest(<<ViewOf[s], order[i]>>, TRUE)]
           due == DueOf(kit.tiles, toKit, WireOf(toWsd))
           v == HandleTileCombinedRequest(wsd, s, reqs, TRUE)
<1>1. s \in wsd.sessions /\ Commit(v)
  BY DEF AskTiles
<1>2. order \in Seq(tiles)
  BY RowIs DEF TileFlowAssumption
<1>3. reqs \in Seq(Request) /\ \A n \in DOMAIN reqs : reqs[n].key[1] = ViewOf[s]
  <2> HIDE DEF order
  <2>1. DOMAIN order = 1 .. Len(order) /\ Len(order) \in Nat /\ \A i \in DOMAIN order : order[i] \in tiles
    BY <1>2
  <2>2. \A i \in DOMAIN order : TileRequest(<<ViewOf[s], order[i]>>, TRUE) \in Request
    <3>1. ViewOf[s] \in View
      BY TypesAre
    <3> QED BY <2>1, <3>1 DEF TileRequest, Request, Key
  <2>3. reqs \in Seq(Request)
    <3>1. reqs \in [1 .. Len(order) -> Request]
      BY <2>1, <2>2
    <3> HIDE DEF reqs
    <3> QED BY <2>1, <3>1
  <2>4. \A n \in DOMAIN reqs : reqs[n].key[1] = ViewOf[s]
    BY DEF TileRequest
  <2> QED BY <2>3, <2>4
<1>4. Good(due, wsd.ver, {}, wsd) /\ wsd.ver \in Nat /\ wsd.ver <= wsd.ver
  BY TypesAre
<1> HIDE DEF due, reqs
<1>5. Good(due, wsd.ver, {}, v) /\ Kept(wsd, v)
  BY <1>1, <1>3, <1>4, HandleTileCombinedRequestIs
<1> HIDE DEF v
<1>6. Good(DueOf(kit.tiles, toKit, WireOf(toWsd)), wsd.ver, {}, v)
  BY <1>5 DEF due
<1> QED BY <1>1, <1>5, <1>6, HandlerIs

LEMMA ClientRequestInv ==
  ASSUME TileFlowAssumption, Inv, NEW s \in Session, NEW tiles \in SUBSET Tile, ClientRequest(s, tiles)
  PROVE  Inv'
<1>1. Rest'
  <2>1. count' \in [changes : Nat, events : Nat]
    BY TypesAre, CountsIs DEF ClientRequest
  <2>2. client' \in [Session -> ClientState]
    <3> DEFINE c == client[s]
               now == [c EXCEPT !.image = [t \in Tile |-> IF t \in tiles THEN NoImage ELSE @[t]],
                                !.asked = @ \cup tiles]
    <3>1. client \in [Session -> ClientState] /\ c \in ClientState
      BY TypesAre DEF Rest
    <3>2. client' = [client EXCEPT ![s] = now]
      BY DEF ClientRequest
    <3>3. now \in ClientState
      <4> DEFINE image == [t \in Tile |-> IF t \in tiles THEN NoImage ELSE c.image[t]]
      <4>1. now = [c EXCEPT !.image = image, !.asked = @ \cup tiles]
        OBVIOUS
      <4> HIDE DEF c, now
      <4>2. image \in [Tile -> Int]
        <5>1. c.image \in [Tile -> Int] /\ NoImage \in Int
          BY <3>1 DEF ClientState, NoImage
        <5> QED BY <5>1
      <4> HIDE DEF image
      <4> QED BY <3>1, <4>1, <4>2 DEF ClientState
    <3> HIDE DEF now
    <3> QED BY <3>1, <3>2, <3>3
  <2> QED BY <2>1, <2>2, TypesAre DEF Rest, ClientRequest
<1>2. AskTiles(s, tiles) /\ UNCHANGED <<kit, toWsd>>
  BY DEF ClientRequest
<1> QED BY <1>1, <1>2, AskedForIs

LEMMA ClientRefetchInv ==
  ASSUME TileFlowAssumption, Inv, NEW s \in Session, ClientRefetch(s)
  PROVE  Inv'
<1> DEFINE tiles == Missing(s)
<1>1. tiles \in SUBSET Tile
  BY DEF TileFlowAssumption, Missing, Tile
<1> HIDE DEF tiles
<1>2. Rest'
  <2>1. client' \in [Session -> ClientState]
    <3> DEFINE c == client[s]
               now == [c EXCEPT !.asked = @ \cup tiles]
    <3>1. client \in [Session -> ClientState] /\ c \in ClientState
      BY TypesAre DEF Rest
    <3>2. client' = [client EXCEPT ![s] = now]
      BY DEF ClientRefetch, tiles
    <3>3. now \in ClientState
      <4> HIDE DEF c
      <4> QED BY <1>1, <3>1 DEF ClientState
    <3> HIDE DEF now
    <3> QED BY <3>1, <3>2, <3>3
  <2> QED BY <2>1, TypesAre DEF Rest, ClientRefetch
<1>3. AskTiles(s, tiles) /\ UNCHANGED <<kit, toWsd>>
  BY DEF ClientRefetch, tiles
<1> QED BY <1>1, <1>2, <1>3, AskedForIs

LEMMA ClientRequestTileInv ==
  ASSUME Inv, NEW s \in Session, NEW t \in Tile, ClientRequestTile(s, t)
  PROVE  Inv'
<1> DEFINE r == TileRequest(<<ViewOf[s], t>>, TRUE)
           due == DueOf(kit.tiles, toKit, WireOf(toWsd))
           v == HandleTileRequest(wsd, s, r)
<1>1. s \in wsd.sessions /\ Commit(v) /\ UNCHANGED <<kit, toWsd>>
  BY DEF ClientRequestTile
<1>2. r \in Request /\ r.key[1] = ViewOf[s]
  <2>1. ViewOf[s] \in View
    BY TypesAre
  <2> QED BY <2>1 DEF TileRequest, Request, Key
<1>3. Good(due, wsd.ver, {}, wsd) /\ wsd.ver \in Nat /\ wsd.ver <= wsd.ver
  BY TypesAre
<1> HIDE DEF due, r
<1>4. Good(due, wsd.ver, {}, v) /\ Kept(wsd, v)
  BY <1>1, <1>2, <1>3, HandleTileRequestIs
<1> HIDE DEF v
<1>5. Rest'
  <2>1. count' \in [changes : Nat, events : Nat]
    BY TypesAre, CountsIs DEF ClientRequestTile
  <2> QED BY <2>1, TypesAre DEF Rest, ClientRequestTile
<1>6. Good(DueOf(kit.tiles, toKit, WireOf(toWsd)), wsd.ver, {}, v)
  BY <1>4 DEF due
<1> QED BY <1>1, <1>4, <1>5, <1>6, HandlerIs

LEMMA TileProcessedInv ==
  ASSUME Inv, NEW s \in Session, TileProcessed(s)
  PROVE  Inv'
<1> DEFINE ses == wsd.session[s]
           R == [wid : Nat, old : BOOLEAN]
           fly == ses.onFly
           pos == {i \in DOMAIN fly : fly[i].wid = Head(client[s].acks)}
           left == IF pos = {} THEN fly ELSE RemoveAt(fly, CHOOSE i \in pos : \A j \in pos : i <= j)
           now == [ses EXCEPT !.onFly = left]
           w == [wsd EXCEPT !.session[s] = now]
           v == SendRequestedTiles(w, s)
           due == DueOf(kit.tiles, toKit, WireOf(toWsd))
<1>1. s \in wsd.sessions /\ UNCHANGED <<kit, toWsd>>
  BY DEF TileProcessed
<1>2. Commit(v)
  <2>1. Commit(SendRequestedTiles([wsd EXCEPT !.session[s].onFly = left], s))
    BY DEF TileProcessed
  <2> HIDE DEF left
  <2>2. [wsd EXCEPT !.session[s].onFly = left] = w
    OBVIOUS
  <2> QED BY <2>1, <2>2
<1>3. ses \in SessionState
  BY TypesAre DEF Broker
<1>4. left \in Seq(R)
  <2>1. fly \in Seq(R)
    BY <1>3 DEF SessionState
  <2> HIDE DEF fly, R
  <2>2. ASSUME pos # {} PROVE RemoveAt(fly, CHOOSE i \in pos : \A j \in pos : i <= j) \in Seq(R)
    <3>1. DOMAIN fly \in SUBSET Nat /\ pos \in SUBSET (DOMAIN fly)
      BY <2>1
    <3> HIDE DEF pos
    <3>2. pos \in SUBSET Nat
      BY <3>1
    <3>3. \E x \in pos : \A y \in pos : x <= y
      BY <2>2, <3>2, Least
    <3>4. (CHOOSE i \in pos : \A j \in pos : i <= j) \in pos
      BY <3>3
    <3> QED BY <2>1, <3>1, <3>4, RemoveAtIs
  <2> QED BY <2>1, <2>2
<1> HIDE DEF left
<1>5. now \in SessionState /\ now.requested = ses.requested
  <2> HIDE DEF ses
  <2> QED BY <1>3, <1>4 DEF SessionState
<1>6. w \in Broker /\ Calm(wsd, w)
  <2> HIDE DEF now
  <2> QED BY <1>5, TypesAre, SessionReplaced
<1>7. Good(due, wsd.ver, {}, wsd) /\ wsd.ver \in Nat
  BY TypesAre
<1> HIDE DEF due, w
<1>8. Good(due, wsd.ver, {}, w)
  BY <1>6, <1>7, CalmIsGood
<1>9. s \in w.sessions /\ wsd.ver <= w.ver
  BY <1>1, <1>6, <1>7 DEF Calm
<1>10. Good(due, wsd.ver, {}, v) /\ Kept(w, v)
  BY <1>7, <1>8, <1>9, SendRequestedTilesIs
<1> HIDE DEF v
<1>11. Kept(wsd, v)
  BY <1>6, <1>10 DEF Kept, Calm
<1>12. Rest'
  <2>1. client' \in [Session -> ClientState]
    <3> DEFINE c == client[s]
               told == [c EXCEPT !.acks = Tail(@)]
    <3>1. client \in [Session -> ClientState] /\ c \in ClientState /\ c.acks # <<>>
      BY TypesAre DEF Rest, TileProcessed
    <3>2. client' = [client EXCEPT ![s] = told]
      BY DEF TileProcessed
    <3>3. told \in ClientState
      <4> HIDE DEF c
      <4>1. Tail(c.acks) \in Seq(Nat)
        BY <3>1 DEF ClientState
      <4> QED BY <3>1, <4>1 DEF ClientState
    <3> HIDE DEF told
    <3> QED BY <3>1, <3>2, <3>3
  <2> QED BY <2>1, TypesAre DEF Rest, TileProcessed
<1>13. Good(DueOf(kit.tiles, toKit, WireOf(toWsd)), wsd.ver, {}, v)
  BY <1>10 DEF due
<1> QED BY <1>1, <1>2, <1>11, <1>12, <1>13, HandlerIs


-----------------------------------------------------------------------------
(* Steps that send messages which ask for no tile and bring none.             *)
LEMMA SentIs ==
  ASSUME Inv, NEW m \in ToKit, m.type \notin {"tile", "load", "disconnect"},
         toKit' = Append(toKit, m), UNCHANGED <<kit, wsd, toWsd>>, Rest'
  PROVE  Inv'
<1> USE TypesAre
<1>1. toKit' \in Seq(ToKit)
  OBVIOUS
<1>2. Members(wsd.sessions, kit.sessions, toKit', toWsd)
  <2>1. <<m>> \in Seq(ToKit) /\ toKit' = toKit \o <<m>> /\ \A x \in In(<<m>>) : x = m
    BY DEF In
  <2> QED BY <2>1, MembersUp
<1>3. Served(wsd, kit.tiles, toKit', WireOf(toWsd))
  BY ServedUp
<1>4. Members(wsd'.sessions, kit'.sessions, toKit', toWsd') /\ Served(wsd', kit'.tiles, toKit', WireOf(toWsd'))
  BY <1>2, <1>3
<1>5. Chains(wsd'.cache, kit'.deltas, kit'.wid, toWsd') /\ OnePerKey(kit'.tiles) /\ kit'.viewOf = kit.viewOf
  OBVIOUS
<1>6. kit' \in KitState /\ wsd' \in Broker /\ toWsd' \in Seq(ToWsd)
  OBVIOUS
<1> QED BY <1>1, <1>4, <1>5, <1>6, InvNext

LEMMA UserIdleInv ==
  ASSUME Inv, NEW s \in Session, UserIdle(s)
  PROVE  Inv'
<1> DEFINE m == [type |-> "userinactive", session |-> s]
<1>1. m \in ToKit /\ m.type \notin {"tile", "load", "disconnect"}
  BY DEF ToKit
<1>2. toKit' = Append(toKit, m) /\ UNCHANGED <<kit, wsd, toWsd>>
  BY DEF UserIdle
<1>3. Rest'
  <2>1. count' \in [changes : Nat, events : Nat]
    BY TypesAre, CountsIs DEF UserIdle
  <2> QED BY <2>1, TypesAre DEF Rest, UserIdle
<1> HIDE DEF m
<1> QED BY <1>1, <1>2, <1>3, SentIs

LEMMA UserActiveInv ==
  ASSUME Inv, NEW s \in Session, UserActive(s)
  PROVE  Inv'
<1> DEFINE m == [type |-> "useractive", session |-> s]
<1>1. m \in ToKit /\ m.type \notin {"tile", "load", "disconnect"}
  BY DEF ToKit
<1>2. toKit' = Append(toKit, m) /\ UNCHANGED <<kit, wsd, toWsd>>
  BY DEF UserActive
<1>3. Rest'
  BY TypesAre DEF Rest, UserActive
<1> HIDE DEF m
<1> QED BY <1>1, <1>2, <1>3, SentIs

(* Steps of the Kit that leave its queue of tiles alone, and only drop deltas.*)
LEMMA KitIs ==
  ASSUME Inv, kit' \in KitState, kit'.tiles = kit.tiles, kit'.sessions = kit.sessions, kit'.wid = kit.wid,
         kit'.viewOf = kit.viewOf, kit'.deltas \in SUBSET kit.deltas,
         NEW more \in Seq(ToWsd), \A m \in In(more) : m.type \notin {"tiles", "canonicalidchange"},
         toWsd' = toWsd \o more, UNCHANGED <<wsd, toKit>>, Rest'
  PROVE  Inv'
<1> USE TypesAre
<1>1. toWsd' \in Seq(ToWsd)
  OBVIOUS
<1>2. Members(wsd.sessions, kit.sessions, toKit, toWsd')
  BY MembersDown
<1>3. Chains(wsd.cache, kit.deltas, kit.wid, toWsd') /\ WireOf(toWsd') = WireOf(toWsd)
  BY ChainsQuiet
<1>4. Chains(wsd.cache, kit'.deltas, kit.wid, toWsd')
  <2>1. SameOrGone(wsd.cache, wsd.cache)
    BY DEF SameOrGone
  <2> QED BY <1>1, <1>3, <2>1, ChainsFewer
<1>5. Members(wsd'.sessions, kit'.sessions, toKit', toWsd') /\ Served(wsd', kit'.tiles, toKit', WireOf(toWsd'))
  BY <1>2, <1>3
<1>6. Chains(wsd'.cache, kit'.deltas, kit'.wid, toWsd') /\ OnePerKey(kit'.tiles)
  BY <1>4
<1>7. wsd' \in Broker /\ toKit' \in Seq(ToKit)
  OBVIOUS
<1> QED BY <1>1, <1>5, <1>6, <1>7, InvNext

LEMMA NothingSent ==
  ASSUME Inv
  PROVE  /\ toWsd = toWsd \o <<>> /\ <<>> \in Seq(ToWsd)
         /\ \A m \in In(<<>>) : m.type \notin {"tiles", "canonicalidchange"}
<1>1. toWsd \in Seq(ToWsd)
  BY TypesAre
<1>2. <<>> \in Seq(ToWsd) /\ toWsd = toWsd \o <<>>
  BY <1>1
<1> QED BY <1>2 DEF In

LEMMA EditInv ==
  ASSUME Inv, NEW lo \in Tile, NEW hi \in Tile, Edit(lo, hi)
  PROVE  Inv'
<1> DEFINE put == PutInvalidation(kit.callbacks, Area(lo, hi))
<1>1. kit \in KitState
  BY TypesAre
<1>2. put \in Seq(Areas)
  <2>1. kit.callbacks \in Seq(Areas)
    BY <1>1 DEF KitState
  <2>2. Area(lo, hi) \in Areas
    BY DEF Area, Areas, Tile
  <2> QED BY <2>1, <2>2, PutIs
<1>3. kit' = [kit EXCEPT !.callbacks = put]
  BY DEF Edit
<1> HIDE DEF put
<1>4. /\ kit' \in KitState /\ kit'.tiles = kit.tiles /\ kit'.sessions = kit.sessions /\ kit'.wid = kit.wid
      /\ kit'.viewOf = kit.viewOf /\ kit'.deltas \in SUBSET kit.deltas
  BY <1>1, <1>2, <1>3 DEF KitState
<1>5. UNCHANGED <<wsd, toKit, toWsd>>
  BY DEF Edit
<1>6. Rest'
  <2>1. count' \in [changes : Nat, events : Nat]
    BY TypesAre, CountsIs DEF Edit
  <2>2. doc' \in [Tile -> Nat]
    BY TypesAre DEF Rest, Edit
  <2> QED BY <2>1, <2>2, TypesAre DEF Rest, Edit
<1>7. toWsd' = toWsd \o <<>>
  BY <1>5, NothingSent
<1> QED BY <1>4, <1>5, <1>6, <1>7, NothingSent, KitIs

LEMMA RebalanceDeltasInv ==
  ASSUME Inv, NEW entry, RebalanceDeltas(entry)
  PROVE  Inv'
<1>1. kit \in KitState
  BY TypesAre
<1>2. kit' = [kit EXCEPT !.deltas = {d \in kit.deltas : d.wid > entry.wid}]
  BY DEF RebalanceDeltas
<1>3. /\ kit' \in KitState /\ kit'.tiles = kit.tiles /\ kit'.sessions = kit.sessions /\ kit'.wid = kit.wid
      /\ kit'.viewOf = kit.viewOf /\ kit'.deltas \in SUBSET kit.deltas
  BY <1>1, <1>2 DEF KitState
<1>4. UNCHANGED <<wsd, toKit, toWsd>>
  BY DEF RebalanceDeltas
<1>5. Rest'
  <2>1. count' \in [changes : Nat, events : Nat]
    BY TypesAre, CountsIs DEF RebalanceDeltas
  <2> QED BY <2>1, TypesAre DEF Rest, RebalanceDeltas
<1>6. toWsd' = toWsd \o <<>>
  BY <1>4, NothingSent
<1> QED BY <1>3, <1>4, <1>5, <1>6, NothingSent, KitIs

(* Invalidations are sent to the active sessions.                             *)
LEMMA InvalidationsSent ==
  ASSUME TileFlowAssumption, Inv, DrainCallbacks
  PROVE  \E more \in Seq(ToWsd) :
           toWsd' = toWsd \o more /\ \A m \in In(more) : m.type \notin {"tiles", "canonicalidchange"}
<1> DEFINE told == SetToSeq(kit.active)
           I == [type : {"invalidate"}, session : Session, area : Areas]
           each(n) == [j \in DOMAIN told |-> Invalidate_(told[j], kit.callbacks[n])]
<1>a. toWsd \in Seq(ToWsd) /\ I \in SUBSET ToWsd /\ \A m \in I : m.type \notin {"tiles", "canonicalidchange"}
  BY TypesAre DEF ToWsd
<1>b. kit.callbacks \in Seq(Areas)
  BY TypesAre DEF KitState
<1>c. \A n \in 1 .. Len(kit.callbacks) : each(n) \in Seq(I)
  <2> TAKE n \in 1 .. Len(kit.callbacks)
  <2>1. kit.active \in SUBSET Session /\ IsFiniteSet(kit.active)
    BY TypesAre, FS_Subset DEF TileFlowAssumption
  <2>2. told \in Seq(kit.active)
    BY <2>1, SetToSeqIs
  <2>3. kit.callbacks[n] \in Areas
    BY <1>b
  <2> DEFINE area == kit.callbacks[n]
  <2> HIDE DEF told, area
  <2>4. DOMAIN told = 1 .. Len(told) /\ Len(told) \in Nat /\ \A j \in DOMAIN told : told[j] \in Session
    BY <2>1, <2>2
  <2>5. \A j \in DOMAIN told : Invalidate_(told[j], area) \in I
    BY <2>3, <2>4 DEF Invalidate_, area
  <2> HIDE DEF I
  <2>6. [j \in DOMAIN told |-> Invalidate_(told[j], area)] \in [1 .. Len(told) -> I]
    BY <2>4, <2>5
  <2> QED BY <2>4, <2>6 DEF area
<1> HIDE DEF told
<1> DEFINE L == Len(kit.callbacks)
           A == {toWsd \o x : x \in Seq(I)}
           B == toWsd
           K(x, n) == x \o [j \in DOMAIN SetToSeq(kit.active) |-> Invalidate_(SetToSeq(kit.active)[j], kit.callbacks[n])]
           F(h) == [n \in 0 .. L |-> IF n = 0 THEN B ELSE K(h[n - 1], n)]
<1>1. L \in Nat /\ B \in A /\ \A x \in A : \A n \in 1 .. L : K(x, n) \in A
  <2>1. L \in Nat
    BY <1>b
  <2>2. B \in A
    <3>1. \A S : <<>> \in Seq(S)
      OBVIOUS
    <3>2. toWsd = toWsd \o <<>>
      BY <1>a
    <3> HIDE DEF I
    <3> QED BY <3>1, <3>2
  <2>3. ASSUME NEW x \in A, NEW n \in 1 .. L PROVE K(x, n) \in A
    <3>1. K(x, n) = x \o each(n) /\ each(n) \in Seq(I)
      BY <1>c DEF told
    <3> HIDE DEF each, K, I
    <3>2. PICK y \in Seq(I) : x = toWsd \o y
      OBVIOUS
    <3>3. y \o each(n) \in Seq(I)
      BY <3>1
    <3>4. (toWsd \o y) \o each(n) = toWsd \o (y \o each(n))
      <4>1. y \in Seq(ToWsd) /\ each(n) \in Seq(ToWsd)
        <5>1. I \in SUBSET ToWsd
          BY <1>a DEF I
        <5> QED BY <3>1, <5>1
      <4>2. toWsd \in Seq(ToWsd)
        BY <1>a
      <4> HIDE DEF A, B, L, F
      <4>3. \A z \in Seq(ToWsd) : (toWsd \o y) \o z = toWsd \o (y \o z)
        BY <4>1, <4>2, ConcatAssociative
      <4> QED BY <4>1, <4>3
    <3> QED BY <3>1, <3>2, <3>3, <3>4
  <2> HIDE DEF A, B, K, L
  <2> QED BY <2>1, <2>2, <2>3

<1>2. \E h : h = F(h)
  <2> DEFINE step == [x \in A |-> [n \in 1 .. L |-> K(x, n)]]
  <2> HIDE DEF A, B, L, K
  <2>1. step \in [A -> [1 .. L -> A]]
    BY <1>1
  <2>2. \A x \in A : \A n \in 1 .. L : step[x][n] = K(x, n)
    OBVIOUS
  <2> HIDE DEF step
  <2>3. PICK h \in [0 .. L -> A] : FoldsAlong(h, B, step, L)
    BY <1>1, <2>1, FoldExists
  <2>4. h[0] = B /\ \A n \in 1 .. L : h[n] = step[h[n - 1]][n]
    BY <2>3 DEF FoldsAlong
  <2>5. ASSUME NEW n \in 0 .. L PROVE h[n] = IF n = 0 THEN B ELSE K(h[n - 1], n)
    <3>1. n # 0 => n \in 1 .. L /\ n - 1 \in 0 .. L
      BY <1>1
    <3> QED BY <2>2, <2>4, <3>1
  <2>6. h = F(h)
    BY <2>5
  <2> QED BY <2>6
<1>3. PICK k : k = F(k) /\ toWsd' = k[L]
  BY <1>2 DEF DrainCallbacks
<1>4. k[0] = B /\ \A n \in 1 .. L : k[n] = K(k[n - 1], n)
  <2> HIDE DEF A, B, L, K
  <2>1. \A n \in 0 .. L : k[n] = F(k)[n]
    BY <1>3
  <2>2. F(k)[0] = B
    BY <1>1
  <2>3. ASSUME NEW n \in 1 .. L PROVE F(k)[n] = K(k[n - 1], n)
    BY <1>1
  <2> HIDE DEF F
  <2>4. 0 \in 0 .. L /\ \A n \in 1 .. L : n \in 0 .. L
    BY <1>1
  <2> QED BY <2>1, <2>2, <2>3, <2>4
<1>5. \A n \in 0 .. L : k[n] \in A
  <2> HIDE DEF A, B, L, K
  <2>1. \A n \in 1 .. L : k[n - 1] \in A => k[n] \in A
    BY <1>1, <1>4
  <2> QED BY <1>1, <1>4, <2>1, Along
<1>6. toWsd' \in A
  <2> HIDE DEF A, B, L, K, F
  <2>1. L \in 0 .. L
    BY <1>1
  <2> QED BY <1>3, <1>5, <2>1
<1>7. PICK more \in Seq(I) : toWsd' = toWsd \o more
  BY <1>6
<1> HIDE DEF I, F, K
<1>8. more \in Seq(ToWsd)
  <2>1. I \in SUBSET ToWsd
    BY <1>a DEF I
  <2> QED BY <1>7, <2>1
<1>9. \A m \in In(more) : m.type \notin {"tiles", "canonicalidchange"}
  <2>1. \A m \in I : m.type \notin {"tiles", "canonicalidchange"}
    BY <1>a DEF I
  <2>2. \A i \in DOMAIN more : more[i] \in I
    BY <1>7
  <2> QED BY <2>1, <2>2 DEF In
<1> QED BY <1>7, <1>8, <1>9

LEMMA DrainCallbacksInv ==
  ASSUME TileFlowAssumption, Inv, DrainCallbacks
  PROVE  Inv'
<1>1. PICK more \in Seq(ToWsd) :
        toWsd' = toWsd \o more /\ \A m \in In(more) : m.type \notin {"tiles", "canonicalidchange"}
  BY InvalidationsSent
<1>2. kit \in KitState
  BY TypesAre
<1>3. kit' = [kit EXCEPT !.callbacks = <<>>, !.missed = @ \cup (kit.sessions \ kit.active)]
  BY DEF DrainCallbacks
<1>4. /\ kit' \in KitState /\ kit'.tiles = kit.tiles /\ kit'.sessions = kit.sessions /\ kit'.wid = kit.wid
      /\ kit'.viewOf = kit.viewOf /\ kit'.deltas \in SUBSET kit.deltas
  <2>1. \A S : <<>> \in Seq(S)
    OBVIOUS
  <2> QED BY <1>2, <1>3, <2>1 DEF KitState
<1>5. UNCHANGED <<wsd, toKit>>
  BY DEF DrainCallbacks
<1>6. Rest'
  BY TypesAre DEF Rest, DrainCallbacks
<1> QED BY <1>1, <1>4, <1>5, <1>6, KitIs


-----------------------------------------------------------------------------
(* Sessions come and go.                                                      *)
LEMMA LeaveInv ==
  ASSUME Inv, NEW s \in Session, Leave(s)
  PROVE  Inv'
<1> USE TypesAre
<1> DEFINE m == [type |-> "disconnect", session |-> s]
           now == [k \in Key |-> IF wsd.rendering[k] = NoTile THEN NoTile ELSE
                                   [wsd.rendering[k] EXCEPT !.subscribers = @ \ {s}]]
           on == wsd.sessions \ {s}
           all == [wsd.session EXCEPT ![s] = FreshSession]
           v == [wsd EXCEPT !.sessions = on, !.rendering = now, !.session = all]
<1>1. /\ s \in wsd.sessions /\ toKit' = Append(toKit, m) /\ UNCHANGED <<kit, toWsd>>
  BY DEF Leave
<1>2. wsd' = v
  <2>1. wsd' = [wsd EXCEPT !.sessions = on, !.rendering = now, !.session[s] = FreshSession]
    BY DEF Leave
  <2> HIDE DEF on, now
  <2>2. [wsd EXCEPT !.sessions = on, !.rendering = now, !.session[s] = FreshSession]
        = [wsd EXCEPT !.sessions = on, !.rendering = now, !.session = all]
    OBVIOUS
  <2> QED BY <2>1, <2>2
<1>3. \A k \in Key : wsd.rendering[k] # NoTile =>
        /\ wsd.rendering[k] \in Rendering /\ wsd.rendering[k].subscribers \subseteq wsd.sessions
  BY DEF Good, EntryOk, Broker
<1>4. \A k \in Key : now[k] # NoTile =>
        /\ wsd.rendering[k] # NoTile /\ now[k] \in Rendering /\ now[k].ver = wsd.rendering[k].ver
        /\ now[k].subscribers \subseteq wsd.rendering[k].subscribers \cap on
  BY <1>3 DEF Rendering
<1>5. now \in [Key -> Rendering \cup {NoTile}]
  BY <1>4
<1>6. FreshSession \in SessionState /\ FreshSession.requested = <<>>
  <2>1. \A S : <<>> \in Seq(S)
    OBVIOUS
  <2> QED BY <2>1 DEF FreshSession, SessionState
<1>7. /\ all \in [Session -> SessionState] /\ all[s].requested = <<>>
      /\ \A x \in Session : x # s => all[x] = wsd.session[x]
  <2>1. wsd.session \in [Session -> SessionState]
    BY DEF Broker
  <2> QED BY <1>6, <2>1
<1> HIDE DEF now, all, on
<1>8. on \in SUBSET Session
  BY DEF on
<1>9. /\ v \in Broker /\ v.rendering = now /\ v.cache = wsd.cache /\ v.sessions = on
      /\ v.ver = wsd.ver /\ v.out = wsd.out /\ v.session = all
  BY <1>5, <1>7, <1>8 DEF Broker
<1> HIDE DEF v
<1>10. \A x \in Session : In(wsd.session[x].requested) # {} => x \in wsd.sessions
  BY DEF Good, RequestsOk
<1>11. Less(wsd, v)
  <2>1. \A k \in Key : v.rendering[k] # NoTile =>
          /\ wsd.rendering[k] # NoTile /\ v.rendering[k].ver = wsd.rendering[k].ver
          /\ v.rendering[k].subscribers \subseteq wsd.rendering[k].subscribers \cap v.sessions
    BY <1>4, <1>9
  <2>2. ASSUME NEW x \in Session
        PROVE  /\ In(v.session[x].requested) \subseteq In(wsd.session[x].requested)
               /\ In(v.session[x].requested) # {} => x \in v.sessions
    <3>1. CASE x = s
      <4>1. In(<<>>) = {}
        BY DEF In
      <4> QED BY <1>7, <1>9, <3>1, <4>1
    <3>2. CASE x # s
      BY <1>7, <1>9, <1>10, <3>2 DEF on
    <3> QED BY <3>1, <3>2
  <2> QED BY <1>9, <2>1, <2>2 DEF Less
<1>12. Served(v, kit.tiles, toKit, WireOf(toWsd))
  BY <1>9, <1>11, ServedLess
<1>13. m \in ToKit /\ m.type = "disconnect" /\ m.session = s
  BY DEF ToKit
<1> HIDE DEF m
<1>14. Served(v, kit.tiles, Append(toKit, m), WireOf(toWsd))
  BY <1>12, <1>13, ServedUp
<1>15. Members(on, kit.sessions, Append(toKit, m), toWsd)
  BY <1>1, <1>13, MembersOff DEF on
<1>16. Rest'
  <2>1. client' \in [Session -> ClientState]
    <3>1. FreshClient \in ClientState
      <4>1. \A S : <<>> \in Seq(S)
        OBVIOUS
      <4> QED BY <4>1 DEF FreshClient, ClientState, NoImage
    <3> QED BY <3>1 DEF Rest, Leave
  <2>2. count' \in [changes : Nat, events : Nat]
    BY CountsIs DEF Leave
  <2> QED BY <2>1, <2>2 DEF Rest, Leave
<1>17. Members(wsd'.sessions, kit'.sessions, toKit', toWsd') /\ Served(wsd', kit'.tiles, toKit', WireOf(toWsd'))
  BY <1>1, <1>2, <1>9, <1>14, <1>15
<1>18. Chains(wsd'.cache, kit'.deltas, kit'.wid, toWsd') /\ OnePerKey(kit'.tiles) /\ kit'.viewOf = kit.viewOf
  BY <1>1, <1>2, <1>9
<1>19. kit' \in KitState /\ wsd' \in Broker /\ toKit' \in Seq(ToKit) /\ toWsd' \in Seq(ToWsd)
  BY <1>1, <1>2, <1>9, <1>13
<1> QED BY <1>16, <1>17, <1>18, <1>19, InvNext

LEMMA JoinViewInv ==
  ASSUME Inv, NEW s \in Session, JoinView(s)
  PROVE  Inv'
<1> USE TypesAre
<1> DEFINE m == [type |-> "load", session |-> s]
<1>1. s \notin kit.sessions /\ toKit' = Append(toKit, m) /\ UNCHANGED <<kit, wsd, toWsd>>
  BY DEF JoinView
<1>2. m \in ToKit /\ m.type = "load" /\ m.session = s
  BY DEF ToKit
<1>3. \A a \in In(toKit) : a.type # "tile" => a.session # s
  BY DEF In, JoinView
<1> HIDE DEF m
<1>4. Served(wsd, kit.tiles, Append(toKit, m), WireOf(toWsd))
  BY <1>2, ServedUp
<1>5. Members(wsd.sessions, kit.sessions, Append(toKit, m), toWsd)
  BY <1>1, <1>2, <1>3, MembersJoin
<1>6. Rest'
  BY DEF Rest, JoinView
<1>7. Members(wsd'.sessions, kit'.sessions, toKit', toWsd') /\ Served(wsd', kit'.tiles, toKit', WireOf(toWsd'))
  BY <1>1, <1>4, <1>5
<1>8. Chains(wsd'.cache, kit'.deltas, kit'.wid, toWsd') /\ OnePerKey(kit'.tiles) /\ kit'.viewOf = kit.viewOf
  BY <1>1
<1>9. kit' \in KitState /\ wsd' \in Broker /\ toKit' \in Seq(ToKit) /\ toWsd' \in Seq(ToWsd)
  BY <1>1, <1>2
<1> QED BY <1>6, <1>7, <1>8, <1>9, InvNext


-----------------------------------------------------------------------------
(* The Kit takes a message that asks for no tile.                             *)
LEMMA KitTakes ==
  ASSUME Inv, toKit # <<>>, Head(toKit).type # "tile", toKit' = Tail(toKit),
         kit' \in KitState, kit'.tiles = kit.tiles, kit'.wid = kit.wid,
         kit'.viewOf = kit.viewOf, kit'.deltas \in SUBSET kit.deltas,
         NEW more \in Seq(ToWsd), \A m \in In(more) : m.type # "tiles", toWsd' = toWsd \o more,
         Members(wsd.sessions, kit'.sessions, Tail(toKit), toWsd \o more), UNCHANGED wsd, Rest'
  PROVE  Inv'
<1> USE TypesAre
<1>1. toWsd' \in Seq(ToWsd) /\ toKit' \in Seq(ToKit)
  OBVIOUS
<1>2. Chains(wsd.cache, kit.deltas, kit.wid, toWsd') /\ WireOf(toWsd') = WireOf(toWsd)
  BY ChainsQuiet
<1>3. Chains(wsd.cache, kit'.deltas, kit.wid, toWsd')
  <2>1. SameOrGone(wsd.cache, wsd.cache)
    BY DEF SameOrGone
  <2> QED BY <1>1, <1>2, <2>1, ChainsFewer
<1>4. Served(wsd, kit.tiles, toKit', WireOf(toWsd))
  BY ServedTaken
<1>5. Members(wsd'.sessions, kit'.sessions, toKit', toWsd') /\ Served(wsd', kit'.tiles, toKit', WireOf(toWsd'))
  BY <1>2, <1>4
<1>6. Chains(wsd'.cache, kit'.deltas, kit'.wid, toWsd') /\ OnePerKey(kit'.tiles)
  BY <1>3
<1>7. wsd' \in Broker
  OBVIOUS
<1> QED BY <1>1, <1>5, <1>6, <1>7, InvNext

LEMMA KitReceiveInv ==
  ASSUME TileFlowAssumption, Inv, KitReceive
  PROVE  Inv'
<1> USE TypesAre
<1> DEFINE m == Head(toKit)
           q == Tail(toKit)
<1>1. toKit # <<>> /\ toKit' = q /\ UNCHANGED <<wsd>> /\ Rest'
  BY DEF KitReceive, Rest
<1>2. m \in ToKit /\ q \in Seq(ToKit)
  BY <1>1, InOfRest
<1>3. Members(wsd.sessions, kit.sessions, q, toWsd)
  BY <1>1, MembersTaken
<1>4. m.type = "tile" => m \in Request
  BY <1>2 DEF ToKit
<1>5. m.type \in {"useractive", "userinactive", "disconnect", "load"} => m.session \in Session
  BY <1>2 DEF ToKit, Request
<1>6. CASE m.type = "tile"
  <2> DEFINE tiles == PushTile(kit.tiles, m)
  <2>1. kit' = [kit EXCEPT !.tiles = tiles] /\ toWsd' = toWsd
    BY <1>6 DEF KitReceive
  <2>2. tiles \in SUBSET Request /\ OnePerKey(tiles)
    <3>1. m \in Request
      BY <1>4, <1>6
    <3> QED BY <3>1 DEF PushTile, OnePerKey
  <2>3. Served(wsd, tiles, q, WireOf(toWsd))
    BY <1>1, <1>6, ServedTaken
  <2> HIDE DEF m, q, tiles
  <2>4. /\ kit' \in KitState /\ kit'.tiles = tiles /\ kit'.wid = kit.wid /\ kit'.deltas = kit.deltas
        /\ kit'.viewOf = kit.viewOf /\ kit'.sessions = kit.sessions
    BY <2>1, <2>2 DEF KitState
  <2>5. Members(wsd'.sessions, kit'.sessions, toKit', toWsd') /\ Served(wsd', kit'.tiles, toKit', WireOf(toWsd'))
    BY <1>1, <1>3, <2>1, <2>3, <2>4
  <2>6. Chains(wsd'.cache, kit'.deltas, kit'.wid, toWsd') /\ OnePerKey(kit'.tiles)
    BY <1>1, <2>1, <2>2, <2>4
  <2>7. wsd' \in Broker /\ toWsd' \in Seq(ToWsd) /\ toKit' \in Seq(ToKit)
    BY <1>1, <1>2, <2>1
  <2> QED BY <1>1, <2>4, <2>5, <2>6, <2>7, InvNext
<1>7. \A n \in ToWsd : /\ toWsd \o <<n>> = Append(toWsd, n) /\ <<n>> \in Seq(ToWsd)
                       /\ \A x \in In(<<n>>) : x = n
  BY DEF In
<1>8. toWsd = toWsd \o <<>> /\ <<>> \in Seq(ToWsd) /\ In(<<>>) = {}
  BY NothingSent DEF In
<1>9. CASE m.type = "useractive"
  <2> DEFINE n == Invalidate_(m.session, Area(1, Tiles))
             more == IF m.session \in kit.missed THEN <<n>> ELSE <<>>
  <2>1. kit' = [kit EXCEPT !.active = @ \cup {m.session}, !.missed = @ \ {m.session}]
    BY <1>9 DEF KitReceive
  <2>2. toWsd' = IF m.session \in kit.missed THEN Append(toWsd, n) ELSE toWsd
    BY <1>9 DEF KitReceive
  <2>3. n \in ToWsd /\ n.type = "invalidate"
    <3>1. Area(1, Tiles) \in Areas
      BY DEF Area, Areas, TileFlowAssumption
    <3> QED BY <1>5, <1>9, <3>1 DEF Invalidate_, ToWsd
  <2> HIDE DEF m, q, n
  <2>4. more \in Seq(ToWsd) /\ toWsd' = toWsd \o more /\ \A x \in In(more) : x.type = "invalidate"
    BY <1>7, <1>8, <2>2, <2>3
  <2> HIDE DEF more
  <2>5. /\ kit' \in KitState /\ kit'.tiles = kit.tiles /\ kit'.wid = kit.wid /\ kit'.deltas \in SUBSET kit.deltas
        /\ kit'.viewOf = kit.viewOf /\ kit'.sessions = kit.sessions
    BY <1>5, <1>9, <2>1 DEF KitState
  <2>6. Members(wsd.sessions, kit'.sessions, q, toWsd \o more)
    BY <1>2, <1>3, <2>4, <2>5, MembersDown
  <2> QED BY <1>1, <1>9, <2>4, <2>5, <2>6, KitTakes DEF m, q
<1>10. CASE m.type = "userinactive"
  <2> DEFINE n == [type |-> "trimmed"]
             last == kit.active \subseteq {m.session}
             more == IF last THEN <<n>> ELSE <<>>
  <2>1. kit' = IF last THEN [kit EXCEPT !.active = {}, !.deltas = {}]
               ELSE [kit EXCEPT !.active = @ \ {m.session}]
    BY <1>10 DEF KitReceive
  <2>2. toWsd' = IF last THEN Append(toWsd, n) ELSE toWsd
    BY <1>10 DEF KitReceive
  <2>3. n \in ToWsd /\ n.type = "trimmed"
    BY DEF ToWsd
  <2> HIDE DEF m, q, n, last
  <2>4. more \in Seq(ToWsd) /\ toWsd' = toWsd \o more /\ \A x \in In(more) : x.type = "trimmed"
    BY <1>7, <1>8, <2>2, <2>3
  <2> HIDE DEF more
  <2>5. /\ kit' \in KitState /\ kit'.tiles = kit.tiles /\ kit'.wid = kit.wid /\ kit'.deltas \in SUBSET kit.deltas
        /\ kit'.viewOf = kit.viewOf /\ kit'.sessions = kit.sessions
    <3>1. CASE last
      BY <2>1, <3>1 DEF KitState
    <3>2. CASE ~last
      BY <2>1, <3>2 DEF KitState
    <3> QED BY <3>1, <3>2
  <2>6. Members(wsd.sessions, kit'.sessions, q, toWsd \o more)
    BY <1>2, <1>3, <2>4, <2>5, MembersDown
  <2> QED BY <1>1, <1>10, <2>4, <2>5, <2>6, KitTakes DEF m, q
<1>11. CASE m.type = "disconnect"
  <2>1. kit' = [kit EXCEPT !.sessions = @ \ {m.session}, !.active = @ \ {m.session}, !.missed = @ \ {m.session}]
    BY <1>11 DEF KitReceive
  <2>2. toWsd' = toWsd \o <<>>
    BY <1>8, <1>11 DEF KitReceive
  <2>3. Members(wsd.sessions, kit.sessions \ {m.session}, q, toWsd)
    BY <1>1, <1>11, MembersRemoved
  <2> HIDE DEF m, q
  <2>4. /\ kit' \in KitState /\ kit'.tiles = kit.tiles /\ kit'.wid = kit.wid /\ kit'.deltas \in SUBSET kit.deltas
        /\ kit'.viewOf = kit.viewOf /\ kit'.sessions = kit.sessions \ {m.session}
    BY <2>1 DEF KitState
  <2>5. Members(wsd.sessions, kit'.sessions, q, toWsd \o <<>>)
    BY <1>8, <2>3, <2>4
  <2> QED BY <1>1, <1>8, <1>11, <2>2, <2>4, <2>5, KitTakes DEF m, q
<1>12. CASE m.type = "load"
  <2> DEFINE n == [type |-> "canonicalidchange", session |-> m.session]
  <2>1. kit' = [kit EXCEPT !.sessions = @ \cup {m.session}, !.active = @ \cup {m.session}]
    BY <1>12 DEF KitReceive
  <2>2. toWsd' = Append(toWsd, n)
    BY <1>12 DEF KitReceive
  <2>3. n \in ToWsd /\ n.type = "canonicalidchange" /\ n.session = m.session
    BY <1>5, <1>12 DEF ToWsd
  <2> HIDE DEF n
  <2>4. Members(wsd.sessions, kit.sessions \cup {m.session}, q, Append(toWsd, n))
    BY <1>1, <1>12, <2>3, MembersLoaded
  <2> HIDE DEF m, q
  <2>5. /\ kit' \in KitState /\ kit'.tiles = kit.tiles /\ kit'.wid = kit.wid /\ kit'.deltas \in SUBSET kit.deltas
        /\ kit'.viewOf = kit.viewOf /\ kit'.sessions = kit.sessions \cup {m.session}
    BY <1>5, <1>12, <2>1 DEF KitState
  <2>6. <<n>> \in Seq(ToWsd) /\ toWsd' = toWsd \o <<n>> /\ \A x \in In(<<n>>) : x.type = "canonicalidchange"
    BY <1>7, <2>2, <2>3
  <2>7. Members(wsd.sessions, kit'.sessions, q, toWsd \o <<n>>)
    BY <1>7, <2>3, <2>4, <2>5
  <2> QED BY <1>1, <1>12, <2>5, <2>6, <2>7, KitTakes DEF m, q
<1>13. m.type \in {"tile", "useractive", "userinactive", "disconnect", "load"}
  BY DEF KitReceive
<1> QED BY <1>6, <1>9, <1>10, <1>11, <1>12, <1>13


-----------------------------------------------------------------------------
(* A tile is rendered, as a keyframe or from what was rendered last.          *)
LEMMA RenderIs ==
  ASSUME Inv, NEW r \in Request, NEW wid \in Nat
  PROVE  /\ Render(r, wid) \in Rendered
         /\ Render(r, wid).key = r.key /\ Render(r, wid).ver = r.ver /\ Render(r, wid).blob.wid = wid
         /\ ~Render(r, wid).blob.key =>
              \E d \in kit.deltas : d.key = r.key /\ d.to = Render(r, wid).blob.from
<1> DEFINE entries == {d \in kit.deltas : d.key = r.key}
           to == doc[r.key[2]]
           last == CHOOSE d \in entries : TRUE
<1>1. r.key \in Key /\ r.ver \in Nat /\ r.force \in BOOLEAN
  BY DEF Request
<1>2. to \in Nat
  <2>1. r.key[2] \in Tile
    BY <1>1 DEF Key
  <2> QED BY <2>1, TypesAre DEF Rest
<1>3. entries # {} => last \in entries /\ last.to \in Nat
  <2>1. entries # {} => last \in entries
    OBVIOUS
  <2>2. \A d \in kit.deltas : d.to \in Nat
    BY TypesAre DEF Entry
  <2> HIDE DEF last
  <2> QED BY <2>1, <2>2
<1>4. CASE entries = {} \/ r.force
  <2>1. Render(r, wid) = [key |-> r.key, ver |-> r.ver, blob |-> Keyframe(wid, to)]
    BY <1>4 DEF Render
  <2> HIDE DEF to
  <2>2. Keyframe(wid, to) \in Blob /\ Keyframe(wid, to).wid = wid /\ Keyframe(wid, to).key
    BY <1>2 DEF Keyframe, Blob
  <2> HIDE DEF entries
  <2> QED BY <1>1, <2>1, <2>2 DEF Rendered
<1>5. CASE ~(entries = {} \/ r.force)
  <2> DEFINE from == last.to
  <2>1. Render(r, wid) = [key |-> r.key, ver |-> r.ver, blob |-> Delta(wid, from, to)]
    BY <1>5 DEF Render
  <2>2. from \in Nat /\ \E d \in kit.deltas : d.key = r.key /\ d.to = from
    BY <1>3, <1>5
  <2> HIDE DEF to, from, entries, last
  <2>3. Delta(wid, from, to) \in Blob /\ Delta(wid, from, to).wid = wid /\ Delta(wid, from, to).from = from
    BY <1>2, <2>2 DEF Delta, Blob
  <2> QED BY <1>1, <2>1, <2>2, <2>3 DEF Rendered
<1> QED BY <1>4, <1>5

LEMMA RenderTilesInv ==
  ASSUME TileFlowAssumption, Inv, NEW view, NEW requests, RenderTiles(view, requests)
  PROVE  Inv'
<1> USE TypesAre
<1>1. /\ requests \in SUBSET kit.tiles /\ requests \in SUBSET Request
      /\ \A r \in requests : r.key[1] = view
      /\ UNCHANGED <<doc, wsd, toKit, client, unsynced, count>>
  BY DEF RenderTiles, CombinedWith
<1>2. Rest'
  BY <1>1 DEF Rest
<1> DEFINE left == kit.tiles \ requests
<1>3. left \in SUBSET Request /\ OnePerKey(left)
  BY DEF OnePerKey
<1>4. CASE ~\E s \in kit.sessions : ViewOf[s] = view
  <2>1. kit' = [kit EXCEPT !.tiles = left] /\ toWsd' = toWsd
    BY <1>4 DEF RenderTiles
  <2>2. Served(wsd, left, toKit, WireOf(toWsd))
    <3>1. \A r \in requests : \A s \in wsd.sessions : ViewOf[s] # r.key[1]
      BY <1>1, <1>4 DEF Members
    <3> QED BY <1>1, <3>1, ServedDropped
  <2> HIDE DEF left
  <2>3. /\ kit' \in KitState /\ kit'.tiles = left /\ kit'.wid = kit.wid /\ kit'.deltas = kit.deltas
        /\ kit'.viewOf = kit.viewOf /\ kit'.sessions = kit.sessions
    BY <1>3, <2>1 DEF KitState
  <2>4. Members(wsd'.sessions, kit'.sessions, toKit', toWsd') /\ Served(wsd', kit'.tiles, toKit', WireOf(toWsd'))
    BY <1>1, <2>1, <2>2, <2>3
  <2>5. Chains(wsd'.cache, kit'.deltas, kit'.wid, toWsd') /\ OnePerKey(kit'.tiles)
    BY <1>1, <1>3, <2>1, <2>3
  <2>6. wsd' \in Broker /\ toWsd' \in Seq(ToWsd) /\ toKit' \in Seq(ToKit)
    BY <1>1, <2>1
  <2> QED BY <1>2, <2>3, <2>4, <2>5, <2>6, InvNext
<1>5. CASE \E s \in kit.sessions : ViewOf[s] = view
  <2> DEFINE T == {r.key[2] : r \in requests}
             order == Row(T)
             pick(i) == CHOOSE r \in requests : r.key[2] = order[i]
             done == [i \in DOMAIN order |-> Render(pick(i), kit.wid + i)]
             keys == {r.key : r \in requests}
             new == {d \in kit.deltas : d.key \notin keys} \cup
                      {[key |-> done[i].key, to |-> done[i].blob.to, wid |-> kit.wid + i] : i \in DOMAIN done}
             m == [type |-> "tiles", tiles |-> done]
  <2>1. /\ toWsd' = Append(toWsd, m)
        /\ kit' = [kit EXCEPT !.tiles = left, !.wid = kit.wid + Len(order), !.deltas = new]
    BY <1>5 DEF RenderTiles
  <2>2. /\ order \in Seq(T)
        /\ \A i, j \in DOMAIN order : i # j => order[i] # order[j]
        /\ \A t \in T : \E i \in DOMAIN order : order[i] = t
    <3>1. T \in SUBSET Tile
      BY <1>1 DEF Request, Key
    <3>2. Tiles \in Nat
      BY DEF TileFlowAssumption
    <3> HIDE DEF T
    <3> QED BY <3>1, <3>2, RowIs
  <2>3. /\ Len(order) \in Nat /\ DOMAIN order = 1 .. Len(order)
        /\ \A i \in DOMAIN order : order[i] \in T
    <3> HIDE DEF T, order
    <3> QED BY <2>2
  <2> HIDE DEF order
  <2>4. \A i \in DOMAIN order : pick(i) \in requests /\ pick(i) \in Request /\ pick(i).key[2] = order[i]
    <3> TAKE i \in DOMAIN order
    <3>1. \E r \in requests : r.key[2] = order[i]
      BY <2>3
    <3> QED BY <1>1, <3>1
  <2> HIDE DEF pick
  <2>5. \A r \in requests : \E i \in DOMAIN order : pick(i) = r
    <3> TAKE r \in requests
    <3>1. PICK i \in DOMAIN order : order[i] = r.key[2]
      BY <2>2
    <3>2. pick(i) \in requests /\ pick(i).key[2] = r.key[2]
      BY <2>4, <3>1
    <3>3. pick(i).key = r.key
      <4>1. pick(i).key \in Key /\ r.key \in Key
        BY <1>1, <3>2 DEF Request
      <4>2. pick(i).key[1] = r.key[1]
        BY <1>1, <3>2
      <4>3. \A a, b \in View \X Tile : a[1] = b[1] /\ a[2] = b[2] => a = b
        OBVIOUS
      <4> HIDE DEF pick
      <4> QED BY <3>2, <4>1, <4>2, <4>3 DEF Key
    <3>4. pick(i) = r
      BY <1>1, <3>2, <3>3 DEF OnePerKey
    <3> QED BY <3>4
  <2>6. \A i \in DOMAIN order :
          /\ kit.wid + i \in Nat
          /\ done[i] \in Rendered /\ done[i].key = pick(i).key /\ done[i].ver = pick(i).ver
          /\ done[i].blob.wid = kit.wid + i
          /\ ~done[i].blob.key => \E d \in kit.deltas : d.key = done[i].key /\ d.to = done[i].blob.from
    <3> TAKE i \in DOMAIN order
    <3>1. kit.wid + i \in Nat
      BY <2>3
    <3> DEFINE wid == kit.wid + i
               r == pick(i)
    <3>2. wid \in Nat /\ r \in Request /\ done[i] = Render(r, wid)
      BY <2>4, <3>1
    <3> HIDE DEF done, wid, r
    <3> HIDE TypesAre
    <3>3. /\ Render(r, wid) \in Rendered
          /\ Render(r, wid).key = r.key /\ Render(r, wid).ver = r.ver /\ Render(r, wid).blob.wid = wid
          /\ ~Render(r, wid).blob.key =>
               \E d \in kit.deltas : d.key = r.key /\ d.to = Render(r, wid).blob.from
      BY <3>2, RenderIs
    <3> QED BY <3>1, <3>2, <3>3 DEF wid, r
  <2>7. DOMAIN done = DOMAIN order
    OBVIOUS
  <2>8. done \in Seq(Rendered) /\ Len(done) = Len(order)
    <3> DEFINE L == Len(order)
    <3>1. done \in [1 .. L -> Rendered] /\ L \in Nat
      BY <2>3, <2>6
    <3> HIDE DEF done, L
    <3>2. done \in Seq(Rendered) /\ Len(done) = L
      BY <3>1
    <3> QED BY <3>2 DEF L
  <2> HIDE DEF done
  <2>9. Each(done)
    <3> SUFFICES ASSUME NEW i \in DOMAIN done, NEW j \in DOMAIN done, i # j PROVE done[i].key # done[j].key
      BY DEF Each
    <3>1. pick(i).key[2] # pick(j).key[2]
      BY <2>2, <2>4, <2>7
    <3> QED BY <2>6, <2>7, <3>1
  <2>10. \A d \in new : \/ d \in kit.deltas /\ \A i \in DOMAIN done : d.key # done[i].key
                        \/ \E i \in DOMAIN done : d.key = done[i].key /\ d.to = done[i].blob.to
    <3>1. \A i \in DOMAIN done : done[i].key \in keys
      BY <2>4, <2>6, <2>7
    <3> QED BY <3>1
  <2>11. new \in SUBSET Entry
    <3>1. \A i \in DOMAIN done :
            [key |-> done[i].key, to |-> done[i].blob.to, wid |-> kit.wid + i] \in Entry
      BY <2>6, <2>7 DEF Rendered, Blob, Entry
    <3> QED BY <3>1
  <2> HIDE DEF new
  <2>12. Chains(wsd.cache, new, kit.wid + Len(done), Append(toWsd, m))
    <3>1. \A i \in DOMAIN done :
            /\ done[i].blob.wid = kit.wid + i
            /\ ~done[i].blob.key => \E d \in kit.deltas : d.key = done[i].key /\ d.to = done[i].blob.from
      BY <2>6, <2>7
    <3> DEFINE wid == kit.wid
               deltas == kit.deltas
               cache == wsd.cache
    <3>2. /\ cache \in Caches /\ wid \in Nat /\ toWsd \in Seq(ToWsd) /\ Chains(cache, deltas, wid, toWsd)
          /\ \A i \in DOMAIN done :
               /\ done[i].blob.wid = wid + i
               /\ ~done[i].blob.key => \E d \in deltas : d.key = done[i].key /\ d.to = done[i].blob.from
          /\ \A d \in new : \/ d \in deltas /\ \A i \in DOMAIN done : d.key # done[i].key
                            \/ \E i \in DOMAIN done : d.key = done[i].key /\ d.to = done[i].blob.to
      BY <2>10, <3>1
    <3> HIDE DEF wid, deltas, cache
    <3> HIDE TypesAre
    <3>3. Chains(cache, new, wid + Len(done), Append(toWsd, [type |-> "tiles", tiles |-> done]))
      BY <2>8, <2>9, <3>2, ChainsRendered
    <3> QED BY <3>3 DEF wid, cache
  <2>13. m \in ToWsd /\ m.type = "tiles" /\ TilesOf(m) = In(done)
    BY <2>8 DEF ToWsd, TilesOf
  <2> HIDE DEF m
  <2>14. WireOf(Append(toWsd, m)) = WireOf(toWsd) \cup In(done) /\ Append(toWsd, m) \in Seq(ToWsd)
    BY <2>13, WireIs
  <2>15. Served(wsd, left, toKit, WireOf(toWsd) \cup In(done))
    <3>1. In(done) \in SUBSET Rendered
      BY <2>8 DEF In
    <3>2. \A r \in requests : \E t \in In(done) : t.key = r.key /\ t.ver = r.ver
      <4> TAKE r \in requests
      <4>1. PICK i \in DOMAIN order : pick(i) = r
        BY <2>5
      <4>2. done[i] \in In(done) /\ done[i].key = r.key /\ done[i].ver = r.ver
        BY <2>6, <2>7, <4>1 DEF In
      <4> QED BY <4>2
    <3> QED BY <1>1, <3>1, <3>2, ServedRendered
  <2>16. Members(wsd.sessions, kit.sessions, toKit, Append(toWsd, m))
    <3>1. <<m>> \in Seq(ToWsd) /\ Append(toWsd, m) = toWsd \o <<m>> /\ \A x \in In(<<m>>) : x = m
      BY <2>13 DEF In
    <3>2. \A x \in In(<<m>>) : x.type # "canonicalidchange"
      BY <2>13, <3>1
    <3>3. Members(wsd.sessions, kit.sessions, toKit, toWsd \o <<m>>)
      BY <3>1, <3>2, MembersDown
    <3> QED BY <3>1, <3>3
  <2> HIDE DEF left
  <2>17. /\ kit' \in KitState /\ kit'.tiles = left /\ kit'.wid = kit.wid + Len(order) /\ kit'.deltas = new
         /\ kit'.viewOf = kit.viewOf /\ kit'.sessions = kit.sessions
    <3> DEFINE later == kit.wid + Len(order)
    <3>1. later \in Nat
      BY <2>3
    <3> HIDE DEF later
    <3>2. kit' = [kit EXCEPT !.tiles = left, !.wid = later, !.deltas = new]
      BY <2>1 DEF later
    <3>3. /\ kit' \in KitState /\ kit'.tiles = left /\ kit'.wid = later /\ kit'.deltas = new
          /\ kit'.viewOf = kit.viewOf /\ kit'.sessions = kit.sessions
      BY <1>3, <2>11, <3>1, <3>2 DEF KitState
    <3> QED BY <3>3 DEF later
  <2>18. Members(wsd'.sessions, kit'.sessions, toKit', toWsd') /\ Served(wsd', kit'.tiles, toKit', WireOf(toWsd'))
    BY <1>1, <2>1, <2>14, <2>15, <2>16, <2>17
  <2>19. Chains(wsd'.cache, kit'.deltas, kit'.wid, toWsd') /\ OnePerKey(kit'.tiles)
    BY <1>1, <1>3, <2>1, <2>8, <2>12, <2>17
  <2>20. wsd' \in Broker /\ toWsd' \in Seq(ToWsd) /\ toKit' \in Seq(ToKit)
    BY <1>1, <2>1, <2>14
  <2> QED BY <1>2, <2>17, <2>18, <2>19, <2>20, InvNext
<1> QED BY <1>4, <1>5
-----------------------------------------------------------------------------
LEMMA NextInv ==
  ASSUME TileFlowAssumption, Inv, [Next]_vars
  PROVE  Inv'
<1>1. CASE HandleKitMessage BY <1>1, HandleKitMessageInv
<1>2. CASE DrainCallbacks BY <1>2, DrainCallbacksInv
<1>3. CASE KitReceive BY <1>3, KitReceiveInv
<1>4. ASSUME NEW s \in Session,
             \/ TileProcessed(s) \/ ClientReceive(s) \/ UserIdle(s) \/ UserActive(s) \/ Leave(s)
             \/ JoinView(s) \/ ClientStalls(s) \/ ClientRefetch(s)
             \/ \E S \in SUBSET Tile : S # {} /\ ClientRequest(s, S)
             \/ \E t \in Tile : ClientRequestTile(s, t)
      PROVE  Inv'
  BY <1>4, TileProcessedInv, ClientReceiveInv, UserIdleInv, UserActiveInv, LeaveInv, JoinViewInv,
     ClientStallsInv, ClientRefetchInv, ClientRequestInv, ClientRequestTileInv
<1>5. CASE RenderingStalls BY <1>5, RenderingStallsInv
<1>6. CASE \E key \in CachedTiles(wsd.cache) : CleanCache(key) BY <1>6, CleanCacheInv
<1>7. CASE \E lo, hi \in Tile : lo <= hi /\ Edit(lo, hi) BY <1>7, EditInv
<1>8. CASE \E view \in View : \E R \in SUBSET kit.tiles : RenderTiles(view, R) BY <1>8, RenderTilesInv
<1>9. CASE \E d \in kit.deltas : RebalanceDeltas(d) BY <1>9, RebalanceDeltasInv
<1>10. CASE UNCHANGED vars
  <2>1. UNCHANGED <<kit, wsd, toKit, toWsd>> /\ Rest'
    BY <1>10, TypesAre DEF vars, Rest
  <2>2. /\ kit' \in KitState /\ wsd' \in Broker /\ toKit' \in Seq(ToKit) /\ toWsd' \in Seq(ToWsd)
        /\ kit'.viewOf = kit.viewOf
    BY <2>1, TypesAre
  <2>3. Members(wsd'.sessions, kit'.sessions, toKit', toWsd') /\ Served(wsd', kit'.tiles, toKit', WireOf(toWsd'))
    BY <2>1, TypesAre
  <2>4. OnePerKey(kit'.tiles) /\ Chains(wsd'.cache, kit'.deltas, kit'.wid, toWsd')
    BY <2>1, TypesAre
  <2> QED BY <2>1, <2>2, <2>3, <2>4, InvNext
<1> QED BY <1>1, <1>2, <1>3, <1>4, <1>5, <1>6, <1>7, <1>8, <1>9, <1>10 DEF Next

LEMMA Invariance == Spec => []Inv
<1>1. Init => Inv
  BY InitInv, TileFlowAssumption
<1>2. Inv /\ [Next]_vars => Inv'
  BY NextInv, TileFlowAssumption
<1> QED BY <1>1, <1>2, PTL DEF Spec

(* The queues, the cache and what is on its way hold what they should,        *)
(* whatever the handlers make of them.                                        *)
THEOREM TypeCorrect == Spec => []TypeOK
<1>1. Inv => TypeOK
  BY DEF Inv
<1> QED BY <1>1, Invariance, PTL

(* Whatever is dropped from the cache of the broker or from the deltas of the *)
(* Kit, rendered twice, forced or trimmed, a tile of the cache is a keyframe  *)
(* and deltas that each start from the content before (TileData::appendBlob,  *)
(* DeltaGenerator::createDelta).                                              *)
THEOREM ChainsAreSound == Spec => []ChainIsSound
<1>1. ASSUME Inv PROVE ChainIsSound
  <2> SUFFICES ASSUME NEW k \in CachedTiles(wsd.cache) PROVE Chained(wsd.cache[k].blobs)
    BY DEF ChainIsSound, Chained
  <2>1. k \in Key /\ wsd.cache[k] # NoTile
    BY <1>1, TypesAre DEF CachedTiles, Caches
  <2>2. Sound(wsd.cache, WireOf(toWsd), kit.deltas, kit.wid)
    BY <1>1 DEF Inv, Chains
  <2> QED BY <2>1, <2>2 DEF Sound, SoundAt
<1> QED BY <1>1, Invariance, PTL

(* A session that waits for a tile is owed a rendering which ends the wait:   *)
(* it is asked for, queued in the Kit or on its way back, and not older than  *)
(* the version the subscription was moved to (subscribeToTileRendering,       *)
(* forgetTileBeingRendered).                                                  *)
THEOREM SubscribersAreServed == Spec => []SubscriberIsServed
<1>1. ASSUME Inv PROVE SubscriberIsServed
  <2> SUFFICES ASSUME NEW k \in Key, wsd.rendering[k] # NoTile, wsd.rendering[k].subscribers # {}
               PROVE
      \/ \E i \in DOMAIN toKit : /\ toKit[i].type = "tile" /\ toKit[i].key = k
                                 /\ toKit[i].ver >= wsd.rendering[k].ver
      \/ \E r \in kit.tiles : r.key = k /\ r.ver >= wsd.rendering[k].ver
      \/ \E i \in DOMAIN toWsd : /\ toWsd[i].type = "tiles"
                                 /\ \E j \in DOMAIN toWsd[i].tiles :
                                      /\ toWsd[i].tiles[j].key = k
                                      /\ toWsd[i].tiles[j].ver >= wsd.rendering[k].ver
    BY DEF SubscriberIsServed
  <2> DEFINE due == DueOf(kit.tiles, toKit, WireOf(toWsd))
             e == wsd.rendering[k]
  <2>1. Good(due, wsd.ver, {}, wsd) /\ wsd.out = <<>>
    BY <1>1, TypesAre
  <2>2. In(<<>>) = {}
    BY DEF In
  <2> HIDE DEF due
  <2>3. Owed(due, e, k)
    BY <2>1, <2>2 DEF Good, EntryOk
  <2>4. PICK x \in due : x.key = k /\ x.ver >= e.ver
    BY <2>3 DEF Owed
  <2>5. CASE x \in AskedOf(toKit)
    BY <2>4, <2>5 DEF AskedOf, In
  <2>6. CASE x \in kit.tiles
    BY <2>4, <2>6
  <2>7. CASE x \in WireOf(toWsd)
    <3>1. PICK n \in In(toWsd) : x \in TilesOf(n)
      BY <2>7 DEF WireOf
    <3>2. n.type = "tiles" /\ x \in In(n.tiles)
      BY <3>1 DEF TilesOf
    <3>3. PICK i \in DOMAIN toWsd : toWsd[i] = n
      BY DEF In
    <3>4. PICK j \in DOMAIN n.tiles : n.tiles[j] = x
      BY <3>2 DEF In
    <3> QED BY <2>4, <3>2, <3>3, <3>4
  <2> QED BY <2>5, <2>6, <2>7 DEF due, DueOf
<1> QED BY <1>1, Invariance, PTL
================================================================================
