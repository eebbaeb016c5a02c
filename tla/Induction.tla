------------------------------- MODULE Induction -------------------------------
(* Induction along a sequence, for the proofs about handlers that go through  *)
(* one: a recursive function over its places exists, and what holds at the    *)
(* start and from each place to the next holds at every place. The theorems   *)
(* of the library take an operator; these take a set, and a function for the  *)
(* step, and rest on the least element of a set of naturals.                  *)
EXTENDS Integers, Sequences, WellFoundedInduction, TLAPS

(* A set of naturals has a least element. *)
LEMMA Least ==
  ASSUME NEW T \in SUBSET Nat, T # {}
  PROVE  \E x \in T : \A y \in T : x <= y
<1> DEFINE R == OpToRel(<, Nat)
<1>1. IsWellFoundedOn(R, Nat)
  BY NatLessThanWellFounded
<1>2. \A x, y \in Nat : <<x, y>> \in R <=> x < y
  BY DEF OpToRel
<1> HIDE DEF R
<1>3. PICK x \in T : \A y \in T : ~(<<y, x>> \in R)
  BY <1>1, WFMin
<1>4. ASSUME NEW y \in T PROVE x <= y
  <2>1. x \in Nat /\ y \in Nat /\ ~(<<y, x>> \in R)
    BY <1>3
  <2>2. ~(y < x)
    BY <1>2, <2>1
  <2> QED BY <2>1, <2>2
<1> QED BY <1>3, <1>4

(* A set of naturals up to a bound has a greatest element. *)
LEMMA Greatest ==
  ASSUME NEW n \in Nat, NEW T \in SUBSET (1 .. n), T # {}
  PROVE  \E x \in T : \A y \in T : y <= x
<1> DEFINE U == {n - t : t \in T}
<1>1. U \in SUBSET Nat /\ U # {}
  <2>1. PICK t \in T : TRUE
    OBVIOUS
  <2>2. n - t \in U
    BY <2>1
  <2>3. \A x \in 1 .. n : n - x \in Nat
    OBVIOUS
  <2>4. \A u \in U : u \in Nat
    BY <2>3
  <2> HIDE DEF U
  <2> QED BY <2>2, <2>4
<1>2. PICK u \in U : \A v \in U : u <= v
  BY <1>1, Least
<1>3. PICK x \in T : u = n - x
  OBVIOUS
<1>4. ASSUME NEW y \in T PROVE y <= x
  <2>1. n - y \in U /\ x \in Int /\ y \in Int /\ n \in Int
    OBVIOUS
  <2>2. n - x <= n - y
    BY <1>2, <1>3, <2>1
  <2> QED BY <2>1, <2>2
<1> QED BY <1>3, <1>4

(* What holds at the start, and from each place to the next, holds everywhere. *)
LEMMA Stepwise ==
  ASSUME NEW P, NEW L \in Nat, 0 \in P, \A n \in 1 .. L : n - 1 \in P => n \in P
  PROVE  \A n \in 0 .. L : n \in P
<1> SUFFICES ASSUME \E n \in 0 .. L : n \notin P PROVE FALSE
  OBVIOUS
<1> DEFINE T == {n \in 0 .. L : n \notin P}
<1>1. T \in SUBSET Nat /\ T # {}
  OBVIOUS
<1>2. PICK x \in T : \A y \in T : x <= y
  BY <1>1, Least
<1>3. x \in 1 .. L /\ x - 1 \in 0 .. L /\ x - 1 \notin T
  BY <1>2
<1> QED BY <1>2, <1>3

(* The values of a fold, place by place. *)
FoldsAlong(g, base, step, L) == g[0] = base /\ \A n \in 1 .. L : g[n] = step[g[n - 1]][n]

LEMMA FoldExists ==
  ASSUME NEW A, NEW base \in A, NEW L \in Nat, NEW step \in [A -> [1 .. L -> A]]
  PROVE  \E g \in [0 .. L -> A] : FoldsAlong(g, base, step, L)
<1> DEFINE Is(g, m) == g[0] = base /\ \A n \in 1 .. m : g[n] = step[g[n - 1]][n]
           P == {m \in 0 .. L : \E g \in [0 .. m -> A] : Is(g, m)}
<1>1. 0 \in P
  <2>1. [n \in 0 .. 0 |-> base] \in [0 .. 0 -> A]
    OBVIOUS
  <2>2. Is([n \in 0 .. 0 |-> base], 0)
    OBVIOUS
  <2>3. \E g \in [0 .. 0 -> A] : Is(g, 0)
    BY <2>1, <2>2
  <2> QED BY <2>3
<1>2. ASSUME NEW m \in 1 .. L, m - 1 \in P PROVE m \in P
  <2>1. PICK g \in [0 .. m - 1 -> A] : Is(g, m - 1)
    BY <1>2
  <2> DEFINE h == [n \in 0 .. m |-> IF n = m THEN step[g[m - 1]][m] ELSE g[n]]
  <2>2. g[m - 1] \in A /\ step[g[m - 1]][m] \in A
    <3>1. g[m - 1] \in A
      OBVIOUS
    <3> QED BY <3>1
  <2>3. h \in [0 .. m -> A]
    BY <2>1, <2>2
  <2>4. Is(h, m)
    <3>1. h[0] = base
      BY <2>1
    <3>2. ASSUME NEW n \in 1 .. m PROVE h[n] = step[h[n - 1]][n]
      <4>1. h[n - 1] = g[n - 1]
        OBVIOUS
      <4>2. n # m => h[n] = g[n] /\ n \in 1 .. m - 1
        OBVIOUS
      <4>3. n = m => h[n] = step[g[m - 1]][m]
        OBVIOUS
      <4> QED BY <2>1, <4>1, <4>2, <4>3
    <3> QED BY <3>1, <3>2
  <2>5. \E f \in [0 .. m -> A] : Is(f, m)
    BY <2>3, <2>4
  <2>6. m \in 0 .. L
    OBVIOUS
  <2> QED BY <2>5, <2>6
<1> HIDE DEF P
<1>3. L \in P
  <2>1. \A n \in 0 .. L : n \in P
    BY <1>1, <1>2, Stepwise
  <2> QED BY <2>1
<1> QED BY <1>3 DEF P, FoldsAlong

(* What is made place by place stays within a set that each step stays in. *)
LEMMA Along ==
  ASSUME NEW A, NEW L \in Nat, NEW k, k[0] \in A, \A n \in 1 .. L : k[n - 1] \in A => k[n] \in A
  PROVE  \A n \in 0 .. L : k[n] \in A
<1> DEFINE P == {n \in 0 .. L : k[n] \in A}
<1>1. 0 \in P
  OBVIOUS
<1>2. \A n \in 1 .. L : n - 1 \in P => n \in P
  OBVIOUS
<1> HIDE DEF P
<1>3. \A n \in 0 .. L : n \in P
  BY <1>1, <1>2, Stepwise
<1> QED BY <1>3 DEF P

(* A loop whose state is within one set after another, step by step. *)
StaysWithin(A, base, step, L) ==
  base \in A[0] /\ \A n \in 1 .. L : \A x \in A[n - 1] : step[n][x] \in A[n]

FoldsThrough(g, A, base, step, L) ==
  /\ g = [n \in 0 .. L |-> g[n]] /\ g[0] = base
  /\ \A n \in 1 .. L : g[n - 1] \in A[n - 1] /\ g[n] = step[n][g[n - 1]]

LEMMA FoldThrough ==
  ASSUME NEW L \in Nat, NEW A, NEW base, NEW step, StaysWithin(A, base, step, L)
  PROVE  \E g : FoldsThrough(g, A, base, step, L)
<1> USE DEF StaysWithin
<1> DEFINE U == UNION {A[n] : n \in 0 .. L}
           total == [x \in U |-> [n \in 1 .. L |-> IF x \in A[n - 1] THEN step[n][x] ELSE base]]
<1>1. base \in U /\ \A n \in 0 .. L : A[n] \subseteq U
  OBVIOUS
<1>2. \A n \in 1 .. L : n - 1 \in 0 .. L /\ n \in 0 .. L
  OBVIOUS
<1> HIDE DEF U
<1>3. \A n \in 1 .. L : \A x \in A[n - 1] : step[n][x] \in U
  BY <1>1, <1>2
<1>4. total \in [U -> [1 .. L -> U]]
  BY <1>1, <1>3
<1>5. \A n \in 1 .. L : \A x \in A[n - 1] : total[x][n] = step[n][x]
  BY <1>1, <1>2
<1> HIDE DEF total
<1>6. PICK g \in [0 .. L -> U] : FoldsAlong(g, base, total, L)
  BY <1>1, <1>4, FoldExists
<1>7. g[0] = base /\ \A n \in 1 .. L : g[n] = total[g[n - 1]][n]
  BY <1>6 DEF FoldsAlong
<1> DEFINE P == {n \in 0 .. L : g[n] \in A[n]}
<1>8. 0 \in P
  BY <1>7
<1>9. \A n \in 1 .. L : n - 1 \in P => n \in P
  BY <1>2, <1>5, <1>7
<1> HIDE DEF P
<1>10. \A n \in 0 .. L : n \in P
  BY <1>8, <1>9, Stepwise
<1>11. \A n \in 1 .. L : g[n - 1] \in A[n - 1] /\ g[n] = step[n][g[n - 1]]
  BY <1>2, <1>5, <1>7, <1>10 DEF P
<1>12. g = [n \in 0 .. L |-> g[n]]
  BY <1>6
<1> QED BY <1>7, <1>11, <1>12 DEF FoldsThrough
-----------------------------------------------------------------------------
(* What is in a sequence. *)
In(seq) == {seq[i] : i \in DOMAIN seq}

(* What is in two sequences, one after the other. *)
LEMMA InOfTwo ==
  ASSUME NEW S, NEW a \in Seq(S), NEW b \in Seq(S)
  PROVE  a \o b \in Seq(S) /\ In(a \o b) = In(a) \cup In(b)
<1>1. /\ a \o b \in Seq(S) /\ Len(a \o b) = Len(a) + Len(b) /\ Len(a) \in Nat /\ Len(b) \in Nat
      /\ DOMAIN (a \o b) = 1 .. Len(a) + Len(b) /\ DOMAIN a = 1 .. Len(a) /\ DOMAIN b = 1 .. Len(b)
      /\ \A i \in 1 .. Len(a) + Len(b) :
           (a \o b)[i] = IF i <= Len(a) THEN a[i] ELSE b[i - Len(a)]
  OBVIOUS
<1>2. ASSUME NEW i \in 1 .. Len(a) + Len(b) PROVE (a \o b)[i] \in In(a) \cup In(b)
  <2>1. i > Len(a) => i - Len(a) \in 1 .. Len(b)
    BY <1>1
  <2> QED BY <1>1, <2>1 DEF In
<1>3. ASSUME NEW i \in 1 .. Len(a) PROVE a[i] \in In(a \o b)
  <2>1. i \in 1 .. Len(a) + Len(b) /\ (a \o b)[i] = a[i]
    BY <1>1
  <2> QED BY <1>1, <2>1 DEF In
<1>4. ASSUME NEW i \in 1 .. Len(b) PROVE b[i] \in In(a \o b)
  <2>1. i + Len(a) \in 1 .. Len(a) + Len(b) /\ (a \o b)[i + Len(a)] = b[i]
    BY <1>1
  <2> QED BY <1>1, <2>1 DEF In
<1>5. In(a \o b) \subseteq In(a) \cup In(b)
  <2>1. ASSUME NEW x \in In(a \o b) PROVE x \in In(a) \cup In(b)
    <3>1. PICK i \in DOMAIN (a \o b) : x = (a \o b)[i]
      BY DEF In
    <3> QED BY <1>1, <1>2, <3>1
  <2> QED BY <2>1
<1>6. In(a) \cup In(b) \subseteq In(a \o b)
  <2>1. ASSUME NEW x \in In(a) PROVE x \in In(a \o b)
    <3>1. PICK i \in DOMAIN a : x = a[i]
      BY DEF In
    <3> QED BY <1>1, <1>3, <3>1
  <2>2. ASSUME NEW x \in In(b) PROVE x \in In(a \o b)
    <3>1. PICK i \in DOMAIN b : x = b[i]
      BY DEF In
    <3> QED BY <1>1, <1>4, <3>1
  <2> QED BY <2>1, <2>2
<1> QED BY <1>1, <1>5, <1>6

(* What is in one that is longer by one. *)
LEMMA InOfOneMore ==
  ASSUME NEW S, NEW a \in Seq(S), NEW x \in S
  PROVE  Append(a, x) \in Seq(S) /\ In(Append(a, x)) = In(a) \cup {x}
<1>1. <<x>> \in Seq(S) /\ Append(a, x) = a \o <<x>>
  OBVIOUS
<1>2. In(<<x>>) = {x}
  BY DEF In
<1>3. a \o <<x>> \in Seq(S) /\ In(a \o <<x>>) = In(a) \cup In(<<x>>)
  BY <1>1, InOfTwo
<1> QED BY <1>1, <1>2, <1>3

(* What is in the rest of one. *)
LEMMA InOfRest ==
  ASSUME NEW S, NEW a \in Seq(S), a # <<>>
  PROVE  /\ Head(a) \in S /\ Tail(a) \in Seq(S)
         /\ In(a) = In(Tail(a)) \cup {Head(a)}
<1>1. Head(a) \in S /\ Tail(a) \in Seq(S) /\ <<Head(a)>> \in Seq(S) /\ a = <<Head(a)>> \o Tail(a)
  OBVIOUS
<1>2. In(<<Head(a)>>) = {Head(a)}
  BY DEF In
<1>3. In(<<Head(a)>> \o Tail(a)) = In(<<Head(a)>>) \cup In(Tail(a))
  BY <1>1, InOfTwo
<1> QED BY <1>1, <1>2, <1>3

(* A sequence is one of what is in it. *)
LEMMA OfItsOwn ==
  ASSUME NEW S, NEW a \in Seq(S)
  PROVE  a \in Seq(In(a))
<1>1. Len(a) \in Nat /\ DOMAIN a = 1 .. Len(a) /\ a = [i \in 1 .. Len(a) |-> a[i]]
  OBVIOUS
<1>2. \A i \in 1 .. Len(a) : a[i] \in In(a)
  BY <1>1 DEF In
<1>3. \A n \in Nat : \A T : [1 .. n -> T] \subseteq Seq(T)
  OBVIOUS
<1>4. [i \in 1 .. Len(a) |-> a[i]] \in [1 .. Len(a) -> In(a)]
  BY <1>2
<1>5. a \in [1 .. Len(a) -> In(a)]
  BY <1>1, <1>4
<1> QED BY <1>1, <1>3, <1>5

(* What comes before what in a sequence. *)
Precedes(seq, x, y) == \E i, j \in DOMAIN seq : i < j /\ seq[i] = x /\ seq[j] = y

LEMMA PrecedesInTwo ==
  ASSUME NEW S, NEW a \in Seq(S), NEW b \in Seq(S), NEW x, NEW y, Precedes(a \o b, x, y)
  PROVE  Precedes(a, x, y) \/ Precedes(b, x, y) \/ (x \in In(a) /\ y \in In(b))
<1>1. /\ Len(a) \in Nat /\ Len(b) \in Nat /\ DOMAIN (a \o b) = 1 .. Len(a) + Len(b)
      /\ DOMAIN a = 1 .. Len(a) /\ DOMAIN b = 1 .. Len(b)
      /\ \A i \in 1 .. Len(a) + Len(b) :
           (a \o b)[i] = IF i <= Len(a) THEN a[i] ELSE b[i - Len(a)]
  OBVIOUS
<1> DEFINE c == a \o b
<1>2. PICK i, j \in DOMAIN c : i < j /\ c[i] = x /\ c[j] = y
  BY DEF Precedes
<1>3. i \in 1 .. Len(a) + Len(b) /\ j \in 1 .. Len(a) + Len(b) /\ i < j
  BY <1>1, <1>2
<1>4. /\ i <= Len(a) => i \in DOMAIN a /\ x = a[i]
      /\ j <= Len(a) => j \in DOMAIN a /\ y = a[j]
      /\ ~(i <= Len(a)) => i - Len(a) \in DOMAIN b /\ x = b[i - Len(a)]
      /\ ~(j <= Len(a)) => j - Len(a) \in DOMAIN b /\ y = b[j - Len(a)]
  BY <1>1, <1>2, <1>3
<1> HIDE DEF c
<1>5. CASE j <= Len(a)
  <2>1. i <= Len(a)
    BY <1>1, <1>3, <1>5
  <2> QED BY <1>3, <1>4, <1>5, <2>1 DEF Precedes
<1>6. CASE ~(j <= Len(a)) /\ i <= Len(a)
  BY <1>4, <1>6 DEF In
<1>7. CASE ~(j <= Len(a)) /\ ~(i <= Len(a))
  <2>1. i - Len(a) < j - Len(a)
    BY <1>1, <1>3
  <2> QED BY <1>4, <1>7, <2>1 DEF Precedes
<1> QED BY <1>5, <1>6, <1>7

LEMMA PrecedesInOneMore ==
  ASSUME NEW S, NEW a \in Seq(S), NEW m \in S, NEW x, NEW y, Precedes(Append(a, m), x, y)
  PROVE  Precedes(a, x, y) \/ (x \in In(a) /\ y = m)
<1>1. <<m>> \in Seq(S) /\ Append(a, m) = a \o <<m>>
  OBVIOUS
<1>2. In(<<m>>) = {m} /\ ~Precedes(<<m>>, x, y)
  BY DEF In, Precedes
<1> QED BY <1>1, <1>2, PrecedesInTwo

LEMMA PrecedesInRest ==
  ASSUME NEW S, NEW a \in Seq(S), a # <<>>
  PROVE  /\ \A x, y : Precedes(Tail(a), x, y) => Precedes(a, x, y)
         /\ \A y \in In(Tail(a)) : Precedes(a, Head(a), y)
<1> DEFINE t == Tail(a)
<1>1. /\ Len(a) \in Nat /\ DOMAIN a = 1 .. Len(a) /\ DOMAIN t = 1 .. Len(a) - 1 /\ 1 \in DOMAIN a
      /\ Head(a) = a[1] /\ \A i \in 1 .. Len(a) - 1 : t[i] = a[i + 1]
  OBVIOUS
<1> HIDE DEF t
<1>2. \A i \in DOMAIN t : i \in Nat /\ i + 1 \in DOMAIN a /\ a[i + 1] = t[i] /\ 1 < i + 1
  BY <1>1
<1>3. ASSUME NEW x, NEW y, Precedes(t, x, y) PROVE Precedes(a, x, y)
  <2>1. PICK i, j \in DOMAIN t : i < j /\ t[i] = x /\ t[j] = y
    BY <1>3 DEF Precedes
  <2>2. i + 1 < j + 1
    BY <1>2, <2>1
  <2> QED BY <1>2, <2>1, <2>2 DEF Precedes
<1>4. ASSUME NEW y \in In(t) PROVE Precedes(a, Head(a), y)
  <2>1. PICK i \in DOMAIN t : y = t[i]
    BY DEF In
  <2> QED BY <1>1, <1>2, <2>1 DEF Precedes
<1> QED BY <1>3, <1>4 DEF t
================================================================================
