--------------------------- MODULE PageCache_proofs ---------------------------
(***************************************************************************)
(* The paged listing, for any number of directories, walkers and entries,  *)
(* any page size and any capacity: the cache is an LRU, and the pages of a *)
(* walk cover its listing.                                                 *)
(***************************************************************************)
EXTENDS PageCache, Induction_proofs, FiniteSetTheorems, SequenceTheorems

CacheEntry == [path : Paths, listing : Listing]
WalkRecord ==
  [path : Paths, offset : Nat, at : {"idle", "listing", "paused", "reading", "put"},
   read : Listing \cup {NotRead}, seen : SUBSET (Nat \X Nat), from : SUBSET Listing]

PageShape ==
  /\ remote \in [Paths -> Listing]
  /\ lru \in Seq(CacheEntry)
  /\ walk \in [Walkers -> WalkRecord]
  /\ \A w \in Walkers : walk[w].at = "put" => walk[w].read \in Listing
  /\ usedSince \in [Paths -> SUBSET Paths]

\* The n-th path of the list has been followed by the uses of the n - 1 before it and of no
\* others; a path that is not on it was never used, or at least CacheCap others since.
PlaceKept(i) ==
  /\ IsFiniteSet(usedSince[lru[i].path])
  /\ Cardinality(usedSince[lru[i].path]) = i - 1
  /\ \A q \in Paths : q \in usedSince[lru[i].path] <=> \E j \in 1 .. i - 1 : lru[j].path = q
GoneLong(p) ==
  \/ p \in usedSince[p]
  \/ IsFiniteSet(usedSince[p]) /\ Cardinality(usedSince[p]) >= CacheCap
OnceEach == \A i, j \in 1 .. Len(lru) : lru[i].path = lru[j].path => i = j
CacheInv ==
  /\ Len(lru) <= CacheCap /\ OnceEach
  /\ \A i \in 1 .. Len(lru) : PlaceKept(i)
  /\ \A p \in Paths : ~IsCached(p) => GoneLong(p)

\* While all pages of a walk came from one listing, it has seen the entries up to its offset, of
\* which there are more to come while it goes on.
SeenTo(l, n) == {<<l.version, i>> : i \in 1 .. n}
WalkKept(w) ==
  /\ walk[w].from = {} => walk[w].seen = {} /\ (walk[w].at # "idle" => walk[w].offset = 0)
  /\ \A l \in walk[w].from : walk[w].from = {l} =>
       /\ walk[w].at # "idle" => walk[w].offset > 0 /\ walk[w].offset < l.size
       /\ walk[w].seen =
            SeenTo(l, IF walk[w].at = "idle" /\ walk[w].offset = LastPage THEN l.size ELSE walk[w].offset)

PageInv == PageShape /\ CacheInv /\ \A w \in Walkers : WalkKept(w)

-----------------------------------------------------------------------------
\* Sequences: an element put in front, and one of them moved there.
Front(e, s) == <<e>> \o s
IsRotation(r, s, i, e, T) ==
  /\ r \in Seq(T) /\ Len(r) = Len(s) /\ r[1] = e
  /\ \A k \in 2 .. i : r[k] = s[k - 1]
  /\ \A k \in i + 1 .. Len(s) : r[k] = s[k]

LEMMA Pushed ==
  ASSUME NEW T, NEW s \in Seq(T), NEW e \in T
  PROVE  /\ Front(e, s) \in Seq(T) /\ Len(Front(e, s)) = Len(s) + 1 /\ Front(e, s)[1] = e
         /\ \A k \in 2 .. Len(s) + 1 : Front(e, s)[k] = s[k - 1]
<1> DEFINE r == Front(e, s)
<1>1. <<e>> \in Seq(T) /\ Len(<<e>>) = 1 /\ Len(s) \in Nat /\ r = <<e>> \o s
  BY DEF Front
<1> HIDE DEF r
<1>2. r \in Seq(T) /\ Len(r) = Len(s) + 1
  BY <1>1
<1>3. r[1] = e
  BY <1>1
<1>4. ASSUME NEW k \in 2 .. Len(s) + 1 PROVE r[k] = s[k - 1]
  BY <1>1
<1> QED
  BY <1>2, <1>3, <1>4 DEF r

LEMMA Rotated ==
  ASSUME NEW T, NEW s \in Seq(T), NEW i \in 1 .. Len(s), NEW e \in T
  PROVE  IsRotation(Front(e, SeqExt!RemoveAt(s, i)), s, i, e, T)
<1> DEFINE a == SubSeq(s, 1, i - 1)
           b == SubSeq(s, i + 1, Len(s))
           c == SeqExt!RemoveAt(s, i)
<1>1. a \in Seq(T) /\ Len(a) = i - 1 /\ \A k \in 1 .. i - 1 : a[k] = s[k]
  OBVIOUS
<1>2. b \in Seq(T) /\ Len(b) = Len(s) - i /\ \A k \in 1 .. Len(s) - i : b[k] = s[k + i]
  OBVIOUS
<1>3. c = a \o b
  BY DEF SeqExt!RemoveAt
<1> HIDE DEF a, b
<1>4. a \o b \in Seq(T) /\ Len(a \o b) = Len(s) - 1
  <2>1. Len(s) \in Nat /\ i \in Nat
    OBVIOUS
  <2>2. a \o b \in Seq(T) /\ Len(a \o b) = Len(a) + Len(b)
    BY <1>1, <1>2, ConcatProperties
  <2> QED
    BY <1>1, <1>2, <2>1, <2>2
<1>5. ASSUME NEW k \in 1 .. i - 1 PROVE (a \o b)[k] = s[k]
  BY <1>1, <1>2
<1>6. ASSUME NEW k \in i .. Len(s) - 1 PROVE (a \o b)[k] = s[k + 1]
  <2>1. Len(s) \in Nat /\ i \in Nat /\ k \in Nat /\ k - (i - 1) \in 1 .. Len(s) - i /\ k - (i - 1) + i = k + 1
    OBVIOUS
  <2>2. (a \o b)[k] = b[k - (i - 1)]
    BY <1>1, <1>2, <2>1, ConcatProperties
  <2> QED
    BY <1>2, <2>1, <2>2
<1> HIDE DEF c
<1>7. c \in Seq(T) /\ Len(c) = Len(s) - 1 /\ (\A k \in 1 .. i - 1 : c[k] = s[k])
      /\ (\A k \in i .. Len(s) - 1 : c[k] = s[k + 1])
  BY <1>3, <1>4, <1>5, <1>6
<1> DEFINE r == Front(e, c)
<1>8. r \in Seq(T) /\ Len(r) = Len(c) + 1 /\ r[1] = e /\ \A k \in 2 .. Len(c) + 1 : r[k] = c[k - 1]
  BY <1>7, Pushed, SMTT(30)
<1> HIDE DEF r
<1>9. Len(c) + 1 = Len(s)
  BY <1>7
<1>10. r \in Seq(T) /\ Len(r) = Len(s) /\ r[1] = e
       /\ (\A k \in 2 .. i : r[k] = s[k - 1]) /\ \A k \in i + 1 .. Len(s) : r[k] = s[k]
  BY <1>7, <1>8, <1>9
<1> QED
  BY <1>10 DEF r, c, IsRotation

-----------------------------------------------------------------------------
\* What a use of p does to the places of the others.
LEMMA UsedSinceOthers ==
  ASSUME PageShape, NEW p \in Paths, Use(p)
  PROVE  /\ usedSince' \in [Paths -> SUBSET Paths] /\ usedSince'[p] = {}
         /\ \A q \in Paths : q # p => usedSince'[q] = usedSince[q] \cup {p}
BY DEF Use, PageShape

LEMMA StaysGone ==
  ASSUME PageShape, NEW p \in Paths, Use(p), NEW q \in Paths, q # p, GoneLong(q)
  PROVE  GoneLong(q)'
<1>1. usedSince'[q] = usedSince[q] \cup {p}
  BY UsedSinceOthers
<1>2. CASE q \in usedSince[q]
  BY <1>1, <1>2 DEF GoneLong
<1>3. CASE IsFiniteSet(usedSince[q]) /\ Cardinality(usedSince[q]) >= CacheCap
  <2>1. /\ IsFiniteSet(usedSince[q] \cup {p}) /\ Cardinality(usedSince[q]) \in Nat
        /\ Cardinality(usedSince[q] \cup {p}) \in {Cardinality(usedSince[q]), Cardinality(usedSince[q]) + 1}
    BY <1>3, FS_AddElement, FS_CardinalityType
  <2> QED
    BY <1>1, <1>3, <2>1, PageAssumption DEF GoneLong
<1> QED
  BY <1>2, <1>3 DEF GoneLong

\* A path of the list that is used goes to the front.
LEMMA UseOfCached ==
  ASSUME PageShape, CacheInv, NEW p \in Paths, NEW l \in Listing, IsCached(p), Use(p),
         lru' = <<Entry(p, l)>> \o Others(p)
  PROVE  CacheInv' /\ lru' \in Seq(CacheEntry)
<1> DEFINE n == PlaceOf(p)
           L == Len(lru)
<1>1. lru \in Seq(CacheEntry) /\ L \in Nat /\ DOMAIN lru = 1 .. L /\ L <= CacheCap
  BY DEF PageShape, CacheInv
<1>2. n \in 1 .. L /\ lru[n].path = p
  <2>1. \E i \in DOMAIN lru : lru[i].path = p
    BY DEF IsCached
  <2> QED
    BY <1>1, <2>1 DEF PlaceOf
<1>3. Entry(p, l) \in CacheEntry /\ Entry(p, l).path = p
  BY DEF Entry, CacheEntry
<1>4. lru' = Front(Entry(p, l), SeqExt!RemoveAt(lru, n))
  BY DEF Others, Front
<1> HIDE DEF n
<1>5. /\ lru' \in Seq(CacheEntry) /\ Len(lru') = L /\ lru'[1].path = p
      /\ \A k \in 2 .. n : lru'[k] = lru[k - 1]
      /\ \A k \in n + 1 .. L : lru'[k] = lru[k]
  <2> HIDE DEF L
  <2>1. /\ lru' \in Seq(CacheEntry) /\ Len(lru') = Len(lru) /\ lru'[1] = Entry(p, l)
        /\ \A k \in 2 .. n : lru'[k] = lru[k - 1]
        /\ \A k \in n + 1 .. Len(lru) : lru'[k] = lru[k]
    <3>1. lru \in Seq(CacheEntry) /\ n \in 1 .. Len(lru) /\ Entry(p, l) \in CacheEntry
      BY <1>1, <1>2, <1>3
    <3>2. IsRotation(Front(Entry(p, l), SeqExt!RemoveAt(lru, n)), lru, n, Entry(p, l), CacheEntry)
      BY <3>1, Rotated
    <3> QED
      BY <1>4, <3>2 DEF IsRotation
  <2> QED
    BY <1>3, <2>1 DEF L
<1> HIDE DEF L
<1>6. OnceEach'
  <2> DEFINE o == [k \in 1 .. L |-> IF k = 1 THEN n ELSE IF k <= n THEN k - 1 ELSE k]
  <2>1. ASSUME NEW k \in 1 .. L PROVE o[k] \in 1 .. L /\ lru'[k].path = lru[o[k]].path
    <3>1. CASE k = 1
      BY <1>1, <1>2, <1>5, <3>1
    <3>2. CASE k \in 2 .. n
      <4>1. o[k] = k - 1 /\ k - 1 \in 1 .. L
        BY <1>1, <1>2, <3>2
      <4> QED
        BY <1>5, <3>2, <4>1
    <3>3. CASE k \in n + 1 .. L
      <4>1. o[k] = k
        BY <1>1, <1>2, <3>3
      <4> QED
        BY <1>5, <3>3, <4>1
    <3>4. k = 1 \/ k \in 2 .. n \/ k \in n + 1 .. L
      BY <1>1, <1>2
    <3> HIDE DEF o
    <3> QED
      BY <3>1, <3>2, <3>3, <3>4
  <2>2. \A i, j \in 1 .. L : o[i] = o[j] => i = j
    BY <1>1, <1>2
  <2>3. \A i, j \in 1 .. L : lru[i].path = lru[j].path => i = j
    BY DEF CacheInv, OnceEach, L
  <2> HIDE DEF o
  <2>4. ASSUME NEW i \in 1 .. L, NEW j \in 1 .. L, lru'[i].path = lru'[j].path PROVE i = j
    <3>1. o[i] \in 1 .. L /\ o[j] \in 1 .. L /\ lru[o[i]].path = lru[o[j]].path
      BY <2>1, <2>4
    <3> QED
      BY <2>2, <2>3, <3>1
  <2> QED
    BY <1>5, <2>4 DEF OnceEach
<1>7. \A k \in 1 .. L : lru[k].path \in Paths
  <2>1. \A k \in 1 .. L : lru[k] \in CacheEntry
    BY <1>1 DEF L
  <2> QED
    BY <2>1 DEF CacheEntry
<1>8. \A k \in 1 .. L : k # n => lru[k].path # p
  BY <1>2 DEF CacheInv, OnceEach, L
<1>9. ASSUME NEW k \in 1 .. L PROVE PlaceKept(k)'
  <2> USE DEF PlaceKept
  <2>1. CASE k = 1
    <3>1. usedSince'[lru'[k].path] = {}
      BY <1>5, <2>1, UsedSinceOthers
    <3> QED
      BY <2>1, <3>1, FS_EmptySet
  <2>2. CASE k \in 2 .. n
    <3> DEFINE u == usedSince[lru[k - 1].path]
    <3>1. k - 1 \in 1 .. L /\ k - 1 # n /\ lru'[k].path = lru[k - 1].path /\ usedSince'[lru'[k].path] = u \cup {p}
      BY <1>1, <1>2, <1>5, <1>7, <1>8, <2>2, UsedSinceOthers
    <3>2. PlaceKept(k - 1)
      BY <3>1 DEF CacheInv, L
    <3>3. p \notin u
      BY <1>1, <1>2, <1>8, <2>2, <3>1, <3>2
    <3>4. IsFiniteSet(u \cup {p}) /\ Cardinality(u \cup {p}) = k - 1
      <4>1. IsFiniteSet(u) /\ Cardinality(u) = k - 1 - 1
        BY <3>2
      <4> HIDE DEF u
      <4>2. IsFiniteSet(u \cup {p}) /\ Cardinality(u \cup {p}) = Cardinality(u) + 1
        BY <3>3, <4>1, FS_AddElement
      <4> QED
        BY <1>1, <1>2, <2>2, <4>1, <4>2
    <3>5. ASSUME NEW q \in Paths PROVE q \in u \cup {p} <=> \E j \in 1 .. k - 1 : lru'[j].path = q
      <4>1. q \in u <=> \E j \in 1 .. k - 2 : lru[j].path = q
        BY <3>2, <2>2
      <4>2. \A j \in 1 .. k - 2 : j + 1 \in 2 .. n /\ j + 1 \in 1 .. k - 1 /\ lru'[j + 1].path = lru[j].path
        BY <1>1, <1>2, <1>5, <2>2
      <4>3. ASSUME NEW j \in 1 .. k - 1, j # 1 PROVE j - 1 \in 1 .. k - 2 /\ lru'[j].path = lru[j - 1].path
        <5>1. j \in 2 .. n /\ j - 1 \in 1 .. k - 2
          BY <1>1, <1>2, <2>2, <4>3
        <5> QED
          BY <1>5, <5>1
      <4>4. 1 \in 1 .. k - 1 /\ lru'[1].path = p
        BY <1>5, <2>2
      <4>5. ASSUME q \in u \cup {p} PROVE \E j \in 1 .. k - 1 : lru'[j].path = q
        BY <4>1, <4>2, <4>4, <4>5
      <4>6. ASSUME NEW j \in 1 .. k - 1, lru'[j].path = q PROVE q \in u \cup {p}
        <5>1. CASE j = 1
          BY <4>4, <4>6, <5>1
        <5>2. CASE j # 1
          BY <4>1, <4>3, <4>6, <5>2
        <5> QED
          BY <5>1, <5>2
      <4> QED
        BY <4>5, <4>6
    <3> QED
      BY <3>1, <3>4, <3>5
  <2>3. CASE k \in n + 1 .. L
    <3> DEFINE u == usedSince[lru[k].path]
    <3>1. k # n /\ lru'[k].path = lru[k].path /\ usedSince'[lru'[k].path] = u \cup {p}
      BY <1>1, <1>2, <1>5, <1>7, <1>8, <2>3, UsedSinceOthers
    <3>2. PlaceKept(k)
      BY <3>1 DEF CacheInv, L
    <3>3. u \cup {p} = u
      BY <1>1, <1>2, <2>3, <3>2
    <3>4. ASSUME NEW q \in Paths
          PROVE  (\E j \in 1 .. k - 1 : lru[j].path = q) <=> \E j \in 1 .. k - 1 : lru'[j].path = q
      <4>1. /\ 1 \in 1 .. k - 1 /\ n \in 1 .. k - 1 /\ lru'[1].path = lru[n].path
            /\ \A j \in 1 .. k - 1 : j = n \/ j + 1 \in 2 .. n \/ j \in n + 1 .. L
            /\ \A j \in 1 .. k - 1 : j = 1 \/ j \in 2 .. n \/ j \in n + 1 .. L
        BY <1>1, <1>2, <1>5, <2>3
      <4>2. ASSUME NEW j \in 1 .. k - 1, j + 1 \in 2 .. n
            PROVE  j + 1 \in 1 .. k - 1 /\ lru'[j + 1].path = lru[j].path
        <5>1. lru'[j + 1] = lru[j + 1 - 1] /\ j + 1 - 1 = j /\ lru'[j + 1] = lru[j]
          BY <1>5, <4>2
        <5>2. j + 1 \in 1 .. k - 1
          BY <1>1, <1>2, <2>3, <4>2
        <5> QED
          BY <5>1, <5>2
      <4>3. ASSUME NEW j \in 2 .. n PROVE j - 1 \in 1 .. k - 1 /\ lru'[j].path = lru[j - 1].path
        BY <1>1, <1>2, <1>5, <2>3
      <4>4. ASSUME NEW j \in n + 1 .. L PROVE lru'[j].path = lru[j].path
        BY <1>5
      <4>5. ASSUME \E j \in 1 .. k - 1 : lru[j].path = q PROVE \E j \in 1 .. k - 1 : lru'[j].path = q
        BY <4>1, <4>2, <4>4, <4>5
      <4>6. ASSUME \E j \in 1 .. k - 1 : lru'[j].path = q PROVE \E j \in 1 .. k - 1 : lru[j].path = q
        BY <4>1, <4>3, <4>4, <4>6
      <4> QED
        BY <4>5, <4>6
    <3> QED
      BY <3>1, <3>2, <3>3, <3>4
  <2> HIDE DEF PlaceKept
  <2>4. k = 1 \/ k \in 2 .. n \/ k \in n + 1 .. L
    BY <1>1, <1>2
  <2> QED
    BY <2>1, <2>2, <2>3, <2>4
<1>10. ASSUME NEW q \in Paths, ~IsCached(q)' PROVE GoneLong(q)'
  <2>1. DOMAIN lru' = 1 .. L
    BY <1>5
  <2>2. q # p
    BY <1>1, <1>2, <1>5, <1>10, <2>1 DEF IsCached
  <2>3. ~IsCached(q)
    <3> SUFFICES ASSUME NEW j \in 1 .. L, lru[j].path = q PROVE FALSE
      BY <1>1 DEF IsCached, L
    <3>1. j # n /\ IF j < n THEN j + 1 \in 1 .. L /\ lru'[j + 1].path = q ELSE lru'[j].path = q
      BY <1>1, <1>2, <1>5, <2>2
    <3> QED
      BY <1>10, <2>1, <3>1 DEF IsCached
  <2> QED
    BY <2>2, <2>3, StaysGone DEF CacheInv
<1> QED
  BY <1>1, <1>5, <1>6, <1>9, <1>10 DEF CacheInv

\* A path that is not on the list comes in front, and the last one goes when the list is full.
LEMMA UseOfNew ==
  ASSUME PageShape, CacheInv, NEW p \in Paths, NEW l \in Listing, ~IsCached(p), Use(p),
         lru' = <<Entry(p, l)>> \o (IF Len(lru) < CacheCap THEN lru ELSE SubSeq(lru, 1, CacheCap - 1))
  PROVE  CacheInv' /\ lru' \in Seq(CacheEntry)
<1> DEFINE c == IF Len(lru) < CacheCap THEN lru ELSE SubSeq(lru, 1, CacheCap - 1)
           L == Len(lru)
           m == Len(c)
<1>1. /\ lru \in Seq(CacheEntry) /\ L \in Nat /\ DOMAIN lru = 1 .. L /\ L <= CacheCap
      /\ CacheCap \in Nat /\ CacheCap >= 1
  BY PageAssumption DEF PageShape, CacheInv
<1>11. L \in Nat /\ L <= CacheCap /\ CacheCap \in Nat /\ (Len(lru) < CacheCap <=> L < CacheCap)
  BY <1>1
<1>2. /\ c \in Seq(CacheEntry) /\ m \in Nat /\ m <= L /\ m + 1 <= CacheCap /\ (m = L \/ (m + 1 = L /\ L = CacheCap))
      /\ \A k \in 1 .. m : c[k] = lru[k]
  <2>1. CASE Len(lru) < CacheCap
    <3>1. c = lru
      BY <2>1
    <3>2. m = L
      BY <3>1
    <3> HIDE DEF c, m, L
    <3>3. L + 1 <= CacheCap
      BY <1>11, <2>1
    <3> QED
      BY <1>1, <3>1, <3>2, <3>3
  <2>2. CASE ~(Len(lru) < CacheCap)
    <3>0. L = CacheCap
      <4> HIDE DEF L
      <4> QED
        BY <1>11, <2>2
    <3>1. c = SubSeq(lru, 1, CacheCap - 1) /\ L = CacheCap
      BY <2>2, <3>0
    <3>2. c \in Seq(CacheEntry) /\ Len(c) = CacheCap - 1 /\ \A k \in 1 .. CacheCap - 1 : c[k] = lru[k]
      BY <1>1, <3>1
    <3> HIDE DEF c, L
    <3> QED
      BY <1>1, <3>1, <3>2
  <2> QED
    BY <2>1, <2>2
<1>3. Entry(p, l) \in CacheEntry /\ Entry(p, l).path = p
  BY DEF Entry, CacheEntry
<1>4. lru' = Front(Entry(p, l), c)
  BY DEF Front
<1> HIDE DEF c
<1>5. /\ lru' \in Seq(CacheEntry) /\ Len(lru') = m + 1 /\ lru'[1].path = p
      /\ \A k \in 2 .. m + 1 : lru'[k] = c[k - 1]
  <2> DEFINE e == Entry(p, l)
  <2>1. e \in CacheEntry /\ e.path = p /\ lru' = Front(e, c) /\ c \in Seq(CacheEntry)
    BY <1>2, <1>3, <1>4
  <2> HIDE DEF e
  <2>2. /\ Front(e, c) \in Seq(CacheEntry) /\ Len(Front(e, c)) = Len(c) + 1 /\ Front(e, c)[1] = e
        /\ \A k \in 2 .. Len(c) + 1 : Front(e, c)[k] = c[k - 1]
    BY <2>1, Pushed
  <2> QED
    BY <2>1, <2>2
<1> HIDE DEF m
<1>6. ASSUME NEW k \in 2 .. m + 1 PROVE k - 1 \in 1 .. m /\ k - 1 \in 1 .. L /\ lru'[k] = lru[k - 1]
  <2>1. k - 1 \in 1 .. m /\ k - 1 \in 1 .. L
    BY <1>11, <1>2
  <2> QED
    BY <1>2, <1>5, <2>1
<1>61. ASSUME NEW j \in 1 .. m PROVE j + 1 \in 1 .. m + 1 /\ lru'[j + 1] = lru[j]
  <2> DEFINE i == j + 1
  <2>1. i \in 2 .. m + 1 /\ i - 1 = j /\ i \in 1 .. m + 1
    BY <1>2
  <2> HIDE DEF i
  <2>2. lru'[i] = lru[i - 1]
    BY <1>6, <2>1
  <2>3. lru'[i] = lru[j]
    BY <2>1, <2>2
  <2> QED
    BY <2>1, <2>3 DEF i
<1> HIDE DEF L
<1>7. \A k \in 1 .. L : lru[k].path # p /\ lru[k].path \in Paths
  <2>1. \A k \in 1 .. L : lru[k] \in CacheEntry
    BY <1>1 DEF L
  <2> QED
    BY <1>1, <2>1 DEF CacheEntry, IsCached
<1>8. OnceEach'
  <2>1. \A i, j \in 1 .. L : lru[i].path = lru[j].path => i = j
    BY DEF CacheInv, OnceEach, L
  <2>2. ASSUME NEW i \in 1 .. m + 1, NEW j \in 1 .. m + 1, lru'[i].path = lru'[j].path PROVE i = j
    <3>1. CASE i = 1 \/ j = 1
      <4>1. i = 1 \/ i \in 2 .. m + 1
        BY <1>2
      <4>2. j = 1 \/ j \in 2 .. m + 1
        BY <1>2
      <4> QED
        BY <1>5, <1>6, <1>7, <2>2, <3>1, <4>1, <4>2
    <3>2. CASE i \in 2 .. m + 1 /\ j \in 2 .. m + 1
      <4>1. lru[i - 1].path = lru[j - 1].path /\ i - 1 \in 1 .. L /\ j - 1 \in 1 .. L
        BY <1>6, <2>2, <3>2
      <4>2. i - 1 = j - 1
        BY <2>1, <4>1
      <4> QED
        BY <1>2, <4>2
    <3> QED
      BY <1>2, <3>1, <3>2
  <2> QED
    BY <1>5, <2>2 DEF OnceEach
<1>9. ASSUME NEW k \in 1 .. m + 1 PROVE PlaceKept(k)'
  <2>1. CASE k = 1
    <3>1. usedSince'[lru'[k].path] = {}
      BY <1>5, <2>1, UsedSinceOthers
    <3> QED
      BY <2>1, <3>1, FS_EmptySet DEF PlaceKept
  <2>2. CASE k \in 2 .. m + 1
    <3> DEFINE u == usedSince[lru[k - 1].path]
    <3>1. k - 1 \in 1 .. L /\ lru'[k].path = lru[k - 1].path /\ usedSince'[lru'[k].path] = u \cup {p}
      BY <1>6, <1>7, <2>2, UsedSinceOthers
    <3>2. PlaceKept(k - 1)
      BY <3>1 DEF CacheInv, L
    <3>3. p \notin u
      <4>1. \A j \in 1 .. k - 1 - 1 : j \in 1 .. L
        BY <1>11, <1>2, <2>2
      <4> QED
        BY <1>7, <3>2, <4>1 DEF PlaceKept
    <3>4. IsFiniteSet(u \cup {p}) /\ Cardinality(u \cup {p}) = k - 1
      <4>1. IsFiniteSet(u) /\ Cardinality(u) = k - 1 - 1
        BY <3>2 DEF PlaceKept
      <4> HIDE DEF u
      <4>2. IsFiniteSet(u \cup {p}) /\ Cardinality(u \cup {p}) = Cardinality(u) + 1
        BY <3>3, <4>1, FS_AddElement
      <4> QED
        BY <1>1, <1>2, <2>2, <4>1, <4>2
    <3>5. ASSUME NEW q \in Paths PROVE q \in u \cup {p} <=> \E j \in 1 .. k - 1 : lru'[j].path = q
      <4>1. q \in u <=> \E j \in 1 .. k - 2 : lru[j].path = q
        BY <1>2, <2>2, <3>2 DEF PlaceKept
      <4>2. ASSUME NEW j \in 1 .. k - 2 PROVE j + 1 \in 1 .. k - 1 /\ lru'[j + 1].path = lru[j].path
        <5>1. j \in 1 .. m /\ j + 1 \in 1 .. k - 1
          BY <1>2, <2>2
        <5> QED
          BY <1>61, <5>1
      <4>3. ASSUME NEW j \in 1 .. k - 1, j # 1 PROVE j - 1 \in 1 .. k - 2 /\ lru'[j].path = lru[j - 1].path
        <5>1. j \in 2 .. m + 1 /\ j - 1 \in 1 .. k - 2
          BY <1>2, <2>2, <4>3
        <5> QED
          BY <1>6, <5>1
      <4>4. 1 \in 1 .. k - 1 /\ lru'[1].path = p
        BY <1>2, <1>5, <2>2
      <4>5. ASSUME q \in u \cup {p} PROVE \E j \in 1 .. k - 1 : lru'[j].path = q
        BY <4>1, <4>2, <4>4, <4>5
      <4>6. ASSUME NEW j \in 1 .. k - 1, lru'[j].path = q PROVE q \in u \cup {p}
        BY <4>1, <4>3, <4>4, <4>6
      <4> QED
        BY <4>5, <4>6
    <3> QED
      BY <3>1, <3>4, <3>5 DEF PlaceKept
  <2>3. k = 1 \/ k \in 2 .. m + 1
    BY <1>2
  <2> QED
    BY <2>1, <2>2, <2>3
<1>10. ASSUME NEW q \in Paths, ~IsCached(q)' PROVE GoneLong(q)'
  <2>1. DOMAIN lru' = 1 .. m + 1
    BY <1>2, <1>5
  <2>2. \A j \in 1 .. m + 1 : lru'[j].path # q
    BY <1>10, <2>1 DEF IsCached
  <2>3. q # p
    BY <1>2, <1>5, <2>2
  <2>4. CASE ~IsCached(q)
    BY <2>3, <2>4, StaysGone DEF CacheInv
  <2>5. CASE IsCached(q)
    <3>1. PICK j \in 1 .. L : lru[j].path = q
      BY <1>1, <2>5 DEF IsCached
    <3>2. j = CacheCap
      <4> SUFFICES ASSUME j # CacheCap PROVE FALSE
        OBVIOUS
      <4>1. j \in 1 .. m
        BY <1>1, <1>2
      <4>2. j + 1 \in 1 .. m + 1 /\ lru'[j + 1] = lru[j]
        BY <1>61, <4>1
      <4> QED
        BY <2>2, <3>1, <4>1, <4>2
    <3> DEFINE u == usedSince[q]
    <3>3. PlaceKept(j)
      BY DEF CacheInv, L
    <3>4. IsFiniteSet(u) /\ Cardinality(u) = CacheCap - 1 /\ p \notin u /\ usedSince'[q] = u \cup {p}
      <4>1. \A k \in 1 .. j - 1 : k \in 1 .. L
        BY <1>1
      <4> QED
        BY <1>7, <2>3, <3>1, <3>2, <3>3, <4>1, UsedSinceOthers DEF PlaceKept
    <3> HIDE DEF u
    <3>5. IsFiniteSet(u \cup {p}) /\ Cardinality(u \cup {p}) = CacheCap - 1 + 1
      BY <3>4, FS_AddElement
    <3> QED
      BY <1>1, <3>4, <3>5 DEF GoneLong
  <2> QED
    BY <2>4, <2>5
<1> QED
  BY <1>2, <1>5, <1>8, <1>9, <1>10 DEF CacheInv

-----------------------------------------------------------------------------
LEMMA ListingSize == ASSUME NEW l \in Listing PROVE l.size \in Nat /\ l.version \in Nat
<1>1. l.size \in Sizes /\ l.version \in 0 .. MaxChanges
  BY DEF Listing
<1>2. Sizes \subseteq Nat /\ MaxChanges \in Nat
  BY PageAssumption
<1>3. l.size \in Nat
  BY <1>1, <1>2
<1>4. l.version \in Nat
  BY <1>1, <1>2
<1> QED
  BY <1>3, <1>4

\* One walker moves: what its record must respect.
LEMMA WalkerMoved ==
  ASSUME PageShape, \A x \in Walkers : WalkKept(x), NEW w \in Walkers, NEW r \in WalkRecord,
         walk' = [walk EXCEPT ![w] = r], r.at = "put" => r.read \in Listing,
         r.from = {} => r.seen = {} /\ (r.at # "idle" => r.offset = 0),
         \A l \in r.from : r.from = {l} =>
           /\ r.at # "idle" => r.offset > 0 /\ r.offset < l.size
           /\ r.seen = SeenTo(l, IF r.at = "idle" /\ r.offset = LastPage THEN l.size ELSE r.offset)
  PROVE  /\ walk' \in [Walkers -> WalkRecord]
         /\ \A x \in Walkers : walk'[x].at = "put" => walk'[x].read \in Listing
         /\ \A x \in Walkers : WalkKept(x)'
<1>1. walk' \in [Walkers -> WalkRecord] /\ walk'[w] = r /\ \A x \in Walkers : x # w => walk'[x] = walk[x]
  BY DEF PageShape
<1>2. \A x \in Walkers : walk'[x].at = "put" => walk'[x].read \in Listing
  BY <1>1 DEF PageShape
<1>3. WalkKept(w)'
  BY <1>1 DEF WalkKept
<1>4. ASSUME NEW x \in Walkers, x # w PROVE WalkKept(x)'
  BY <1>1, <1>4 DEF WalkKept
<1> QED
  BY <1>1, <1>2, <1>3, <1>4

\* A step of a walker that takes no page and leaves what it has seen.
LEMMA WalkerGoesOn ==
  ASSUME PageInv, NEW w \in Walkers, NEW to \in {"idle", "listing", "paused", "reading", "put"},
         NEW d \in Listing \cup {NotRead}, to = "put" => d \in Listing, walk[w].at # "idle",
         walk' = [walk EXCEPT ![w] = [walk[w] EXCEPT !.at = to, !.read = d]], UNCHANGED <<remote, lru, usedSince>>
  PROVE  PageInv'
<1> DEFINE r == [walk[w] EXCEPT !.at = to, !.read = d]
<1>1. walk[w] \in WalkRecord
  BY DEF PageInv, PageShape
<1>2. /\ r \in WalkRecord /\ r.at = to /\ r.read = d /\ r.from = walk[w].from /\ r.seen = walk[w].seen
      /\ r.offset = walk[w].offset /\ r.offset \in Nat
  BY <1>1 DEF WalkRecord
<1> HIDE DEF r
<1>3. WalkKept(w)
  BY DEF PageInv
<1>4. \A l \in r.from : r.from = {l} =>
           /\ r.at # "idle" => r.offset > 0 /\ r.offset < l.size
           /\ r.seen = SeenTo(l, IF r.at = "idle" /\ r.offset = LastPage THEN l.size ELSE r.offset)
  <2> SUFFICES ASSUME NEW l \in walk[w].from, walk[w].from = {l}
               PROVE  /\ r.offset > 0 /\ r.offset < l.size
                      /\ r.seen = SeenTo(l, IF r.at = "idle" /\ r.offset = LastPage THEN l.size ELSE r.offset)
    BY <1>2
  <2>1. walk[w].offset > 0 /\ walk[w].offset < l.size /\ walk[w].seen = SeenTo(l, walk[w].offset)
    BY <1>3 DEF WalkKept
  <2> QED
    BY <1>2, <2>1 DEF LastPage
<1>5. r.from = {} => r.seen = {} /\ (r.at # "idle" => r.offset = 0)
  BY <1>2, <1>3 DEF WalkKept
<1>6. /\ walk' \in [Walkers -> WalkRecord]
      /\ \A x \in Walkers : walk'[x].at = "put" => walk'[x].read \in Listing
      /\ \A x \in Walkers : WalkKept(x)'
  <2>1. walk' = [walk EXCEPT ![w] = r]
    BY DEF r
  <2> QED
    BY <1>2, <1>4, <1>5, <2>1, WalkerMoved DEF PageInv
<1>7. PageShape'
  BY <1>6 DEF PageInv, PageShape
<1>8. CacheInv'
  BY DEF PageInv, CacheInv, OnceEach, PlaceKept, GoneLong, IsCached
<1> QED
  BY <1>6, <1>7, <1>8 DEF PageInv

\* A page is taken.
LEMMA TakeKept ==
  ASSUME PageInv, NEW w \in Walkers, walk[w].at \in {"listing", "put"}, NEW l \in Listing, Take(w, l)
  PROVE  /\ walk' \in [Walkers -> WalkRecord]
         /\ \A x \in Walkers : walk'[x].at = "put" => walk'[x].read \in Listing
         /\ \A x \in Walkers : WalkKept(x)'
<1> DEFINE v == walk[w]
           next == NextOffset(l.size, v.offset)
           r == [v EXCEPT !.at = IF next = LastPage THEN "idle" ELSE "paused", !.offset = next,
                          !.seen = @ \cup {<<l.version, i>> : i \in Page(l.size, v.offset)},
                          !.from = @ \cup {l}, !.read = NotRead]
           top == IF l.size > v.offset + PageSize THEN v.offset + PageSize ELSE l.size
<1>1. v \in WalkRecord /\ v.offset \in Nat /\ WalkKept(w) /\ v.at # "idle" /\ v.from \subseteq Listing
      /\ v.seen \subseteq Nat \X Nat
  BY DEF PageInv, PageShape, WalkRecord
<1>2. walk' = [walk EXCEPT ![w] = r]
  BY DEF Take
<1>3. l.size \in Nat /\ l.version \in Nat /\ PageSize \in Nat /\ PageSize > 0
  BY ListingSize, PageAssumption
<1>4. next \in Nat /\ top \in Nat
  BY <1>1, <1>3 DEF NextOffset, LastPage
<1>5. {<<l.version, i>> : i \in Page(l.size, v.offset)} = {<<l.version, i>> : i \in v.offset + 1 .. top}
  BY DEF Page
<1>6. {<<l.version, i>> : i \in v.offset + 1 .. top} \subseteq Nat \X Nat
  BY <1>1, <1>3, <1>4
<1> HIDE DEF next, v
<1>7. /\ r.at = (IF next = LastPage THEN "idle" ELSE "paused") /\ r.offset = next
      /\ r.seen = v.seen \cup {<<l.version, i>> : i \in Page(l.size, v.offset)}
      /\ r.from = v.from \cup {l} /\ r.read = NotRead
  BY <1>1 DEF WalkRecord
<1>8. r \in WalkRecord
  <2>1. v.seen \cup {<<l.version, i>> : i \in Page(l.size, v.offset)} \in SUBSET (Nat \X Nat)
    BY <1>1, <1>5, <1>6
  <2>2. v.from \cup {l} \in SUBSET Listing
    BY <1>1
  <2>3. (IF next = LastPage THEN "idle" ELSE "paused") \in {"idle", "listing", "paused", "reading", "put"}
    OBVIOUS
  <2> QED
    BY <1>1, <1>4, <2>1, <2>2, <2>3 DEF WalkRecord
<1> HIDE DEF r
<1>9. \A m \in r.from : r.from = {m} =>
           /\ r.at # "idle" => r.offset > 0 /\ r.offset < m.size
           /\ r.seen = SeenTo(m, IF r.at = "idle" /\ r.offset = LastPage THEN m.size ELSE r.offset)
  <2> SUFFICES ASSUME r.from = {l}
               PROVE  /\ r.at # "idle" => r.offset > 0 /\ r.offset < l.size
                      /\ r.seen = SeenTo(l, IF r.at = "idle" /\ r.offset = LastPage THEN l.size ELSE r.offset)
    BY <1>7
  <2>1. next = (IF l.size > v.offset + PageSize THEN v.offset + PageSize ELSE LastPage)
    BY DEF next, NextOffset
  <2>2. /\ r.at # "idle" => r.offset > 0 /\ r.offset < l.size
        /\ top = IF r.at = "idle" /\ r.offset = LastPage THEN l.size ELSE r.offset
    BY <1>1, <1>3, <1>7, <2>1 DEF LastPage
  <2>3. v.seen = SeenTo(l, v.offset) /\ v.offset <= top
    <3>1. CASE v.from = {}
      <4>1. v.seen = {} /\ v.offset = 0
        BY <1>1, <3>1 DEF WalkKept, v
      <4> QED
        BY <1>4, <4>1 DEF SeenTo
    <3>2. CASE v.from = {l}
      <4>1. v.offset > 0 /\ v.offset < l.size /\ v.seen = SeenTo(l, v.offset)
        BY <1>1, <3>2 DEF WalkKept, v
      <4> QED
        BY <1>1, <1>3, <4>1
    <3> QED
      BY <1>7, <3>1, <3>2
  <2>4. 1 .. top = (1 .. v.offset) \cup (v.offset + 1 .. top)
    BY <1>1, <1>4, <2>3
  <2> HIDE DEF top
  <2>5. r.seen = SeenTo(l, top)
    BY <1>5, <1>7, <2>3, <2>4 DEF SeenTo
  <2> QED
    BY <2>2, <2>5
<1>10. r.from # {} /\ r.at # "put"
  BY <1>7
<1> QED
  BY <1>2, <1>8, <1>9, <1>10, WalkerMoved DEF PageInv

LEMMA PageInitInv == PageInit => PageInv
<1> SUFFICES ASSUME PageInit PROVE PageInv
  OBVIOUS
<1> DEFINE r == [path |-> CHOOSE p \in Paths : TRUE, offset |-> 0, at |-> "idle",
                read |-> NotRead, seen |-> {}, from |-> {}]
<1>1. (CHOOSE p \in Paths : TRUE) \in Paths
  BY PageAssumption
<1>2. r \in WalkRecord /\ r.at = "idle" /\ r.seen = {} /\ r.from = {}
  BY <1>1 DEF WalkRecord
<1>3. walk = [w \in Walkers |-> r]
  BY DEF PageInit
<1> HIDE DEF r
<1>4. walk \in [Walkers -> WalkRecord] /\ \A w \in Walkers : walk[w] = r
  BY <1>2, <1>3
<1>5. remote \in [Paths -> Listing]
  <2>1. 0 \in 0 .. MaxChanges
    BY PageAssumption
  <2>2. remote \in [Paths -> [version : {0}, size : Sizes]]
    BY DEF PageInit
  <2>3. [version : {0}, size : Sizes] \subseteq Listing
    BY <2>1 DEF Listing
  <2> QED
    BY <2>2, <2>3
<1>6. lru = <<>> /\ usedSince = [p \in Paths |-> Paths]
  BY DEF PageInit
<1>7. PageShape
  BY <1>2, <1>4, <1>5, <1>6 DEF PageShape
<1>8. CacheInv
  <2>1. Len(lru) = 0 /\ Len(lru) <= CacheCap
    BY <1>6, PageAssumption
  <2>2. \A p \in Paths : p \in usedSince[p]
    BY <1>6
  <2> QED
    BY <2>1, <2>2 DEF CacheInv, OnceEach, GoneLong
<1> QED
  BY <1>2, <1>4, <1>7, <1>8 DEF PageInv, WalkKept

LEMMA ChangesTyped == ASSUME PageShape PROVE Changes \in 0 .. MaxChanges
<1> DEFINE T == {remote[p].version : p \in Paths}
<1>1. T # {}
  BY PageAssumption
<1>2. T \subseteq 0 .. MaxChanges
  BY DEF PageShape, Listing
<1> HIDE DEF T
<1>3. PICK x \in T : \A y \in T : y <= x
  BY <1>1, <1>2, Greatest, PageAssumption
<1>4. \A p \in Paths : remote[p].version <= x
  BY <1>3 DEF T
<1>5. \E n \in T : \A p \in Paths : remote[p].version <= n
  BY <1>4
<1>6. Changes \in T
  BY <1>5 DEF Changes, T
<1> QED
  BY <1>2, <1>6

LEMMA RemoteChangeInv == ASSUME PageInv, NEW p \in Paths, RemoteChange(p) PROVE PageInv'
<1>1. PICK n \in Sizes : remote' = [remote EXCEPT ![p] = [version |-> Changes + 1, size |-> n]]
  BY DEF RemoteChange
<1>2. Changes + 1 \in 0 .. MaxChanges
  <2>1. Changes \in 0 .. MaxChanges /\ Changes < MaxChanges /\ MaxChanges \in Nat
    BY ChangesTyped, PageAssumption DEF PageInv, RemoteChange
  <2> QED
    BY <2>1
<1>3. [version |-> Changes + 1, size |-> n] \in Listing
  BY <1>2 DEF Listing
<1>4. remote' \in [Paths -> Listing] /\ UNCHANGED <<lru, walk, usedSince>>
  BY <1>1, <1>3 DEF RemoteChange, PageInv, PageShape
<1> QED
  BY <1>4 DEF PageInv, PageShape, CacheInv, OnceEach, PlaceKept, GoneLong, IsCached, WalkKept

\* Walk and Abandon put a walker's record back to nothing seen.
LEMMA WalkerReset ==
  ASSUME PageInv, NEW w \in Walkers, NEW p \in Paths, NEW to \in {"idle", "listing"}, NEW n \in Nat,
         to = "listing" => n = 0, UNCHANGED <<remote, lru, usedSince>>,
         walk' = [walk EXCEPT ![w] = [walk[w] EXCEPT !.path = p, !.offset = n, !.at = to, !.seen = {}, !.from = {}]]
  PROVE  PageInv'
<1> DEFINE r == [walk[w] EXCEPT !.path = p, !.offset = n, !.at = to, !.seen = {}, !.from = {}]
<1>1. walk[w] \in WalkRecord
  BY DEF PageInv, PageShape
<1>2. r \in WalkRecord /\ r.at = to /\ r.seen = {} /\ r.from = {} /\ r.offset = n
  BY <1>1 DEF WalkRecord
<1>3. walk' = [walk EXCEPT ![w] = r]
  OBVIOUS
<1> HIDE DEF r
<1>4. /\ walk' \in [Walkers -> WalkRecord]
      /\ \A x \in Walkers : walk'[x].at = "put" => walk'[x].read \in Listing
      /\ \A x \in Walkers : WalkKept(x)'
  BY <1>2, <1>3, WalkerMoved DEF PageInv
<1>5. PageShape'
  BY <1>4 DEF PageInv, PageShape
<1>6. CacheInv'
  BY DEF PageInv, CacheInv, OnceEach, PlaceKept, GoneLong, IsCached
<1> QED
  BY <1>4, <1>5, <1>6 DEF PageInv

LEMMA ListHitInv == ASSUME PageInv, NEW w \in Walkers, ListHit(w) PROVE PageInv'
<1> DEFINE p == walk[w].path
           l == CachedListing(p)
<1>1. p \in Paths /\ walk[w].at = "listing" /\ IsCached(p) /\ Use(p) /\ Take(w, l) /\ UNCHANGED remote
  BY DEF ListHit, PageInv, PageShape, WalkRecord
<1>2. l \in Listing
  <2>1. PlaceOf(p) \in DOMAIN lru
    BY <1>1 DEF IsCached, PlaceOf
  <2>2. lru[PlaceOf(p)] \in CacheEntry
    BY <2>1 DEF PageInv, PageShape
  <2> QED
    BY <2>2 DEF CachedListing, CacheEntry
<1>3. lru' = <<Entry(p, l)>> \o Others(p)
  BY DEF ListHit, Touched
<1> HIDE DEF l, p
<1>4. CacheInv' /\ lru' \in Seq(CacheEntry)
  BY <1>1, <1>2, <1>3, UseOfCached DEF PageInv
<1>5. /\ walk' \in [Walkers -> WalkRecord]
      /\ \A x \in Walkers : walk'[x].at = "put" => walk'[x].read \in Listing
      /\ \A x \in Walkers : WalkKept(x)'
  BY <1>1, <1>2, TakeKept
<1>6. usedSince' \in [Paths -> SUBSET Paths]
  BY <1>1, UsedSinceOthers DEF PageInv
<1> QED
  BY <1>1, <1>4, <1>5, <1>6 DEF PageInv, PageShape

LEMMA ListPutInv == ASSUME PageInv, NEW w \in Walkers, ListPut(w) PROVE PageInv'
<1> DEFINE p == walk[w].path
           l == walk[w].read
<1>1. p \in Paths /\ walk[w].at = "put" /\ l \in Listing /\ Use(p) /\ Take(w, l) /\ UNCHANGED remote
  BY DEF ListPut, PageInv, PageShape, WalkRecord
<1>2. lru' = Put(p, l)
  BY DEF ListPut
<1> HIDE DEF l, p
<1>3. CacheInv' /\ lru' \in Seq(CacheEntry)
  <2>1. CASE IsCached(p)
    <3>1. lru' = <<Entry(p, l)>> \o Others(p)
      BY <1>2, <2>1 DEF Put
    <3> QED
      BY <1>1, <2>1, <3>1, UseOfCached DEF PageInv
  <2>2. CASE ~IsCached(p)
    <3>1. lru' = <<Entry(p, l)>> \o (IF Len(lru) < CacheCap THEN lru ELSE SubSeq(lru, 1, CacheCap - 1))
      BY <1>2, <2>2 DEF Put
    <3> QED
      BY <1>1, <2>2, <3>1, UseOfNew DEF PageInv
  <2> QED
    BY <2>1, <2>2
<1>4. /\ walk' \in [Walkers -> WalkRecord]
      /\ \A x \in Walkers : walk'[x].at = "put" => walk'[x].read \in Listing
      /\ \A x \in Walkers : WalkKept(x)'
  BY <1>1, TakeKept
<1>5. usedSince' \in [Paths -> SUBSET Paths]
  BY <1>1, UsedSinceOthers DEF PageInv
<1> QED
  BY <1>1, <1>3, <1>4, <1>5 DEF PageInv, PageShape

LEMMA PageStepInv == PageInv /\ [PageNext]_pageVars => PageInv'
<1> SUFFICES ASSUME PageInv, [PageNext]_pageVars PROVE PageInv'
  OBVIOUS
<1>0. ASSUME NEW w \in Walkers PROVE walk[w] \in WalkRecord
  BY DEF PageInv, PageShape
<1>1. ASSUME NEW p \in Paths, RemoteChange(p) PROVE PageInv'
  BY <1>1, RemoteChangeInv
<1>2. ASSUME NEW p \in Paths, NEW w \in Walkers, Walk(w, p) PROVE PageInv'
  BY <1>2, WalkerReset DEF Walk
<1>3. ASSUME NEW w \in Walkers, Abandon(w) PROVE PageInv'
  <2> DEFINE v == walk[w]
  <2>1. v.path \in Paths /\ v.offset \in Nat
    BY <1>0 DEF WalkRecord
  <2>2. [v EXCEPT !.at = "idle", !.seen = {}, !.from = {}]
        = [v EXCEPT !.path = v.path, !.offset = v.offset, !.at = "idle", !.seen = {}, !.from = {}]
    BY <1>0 DEF WalkRecord
  <2>3. walk' = [walk EXCEPT ![w] = [v EXCEPT !.path = v.path, !.offset = v.offset, !.at = "idle", !.seen = {}, !.from = {}]]
    BY <1>3, <2>2 DEF Abandon
  <2>4. UNCHANGED <<remote, lru, usedSince>>
    BY <1>3 DEF Abandon
  <2> QED
    BY <2>1, <2>3, <2>4, WalkerReset
<1>4. ASSUME NEW w \in Walkers, NEW to \in {"idle", "listing", "paused", "reading"},
             walk[w].at # "idle", walk' = [walk EXCEPT ![w].at = to], UNCHANGED <<remote, lru, usedSince>>
      PROVE  PageInv'
  <2> DEFINE v == walk[w]
  <2>1. [v EXCEPT !.at = to] = [v EXCEPT !.at = to, !.read = v.read] /\ v.read \in Listing \cup {NotRead}
    BY <1>0 DEF WalkRecord
  <2>2. walk' = [walk EXCEPT ![w] = [v EXCEPT !.at = to, !.read = v.read]]
    BY <1>4, <2>1
  <2> QED
    BY <1>4, <2>1, <2>2, WalkerGoesOn
<1>5. ASSUME NEW w \in Walkers, Continue(w) \/ ListMiss(w) \/ ReadDirFails(w) PROVE PageInv'
  BY <1>4, <1>5 DEF Continue, ListMiss, ReadDirFails
<1>6. ASSUME NEW w \in Walkers, ReadDir(w) PROVE PageInv'
  <2> DEFINE d == remote[walk[w].path]
  <2>1. d \in Listing
    BY <1>0 DEF WalkRecord, PageInv, PageShape
  <2>2. walk' = [walk EXCEPT ![w] = [walk[w] EXCEPT !.at = "put", !.read = d]]
    BY <1>6 DEF ReadDir, PageInv, PageShape
  <2> QED
    BY <1>6, <2>1, <2>2, WalkerGoesOn DEF ReadDir
<1>7. ASSUME NEW w \in Walkers, ListHit(w) \/ ListPut(w) PROVE PageInv'
  BY <1>7, ListHitInv, ListPutInv
<1>8. CASE UNCHANGED pageVars
  BY <1>8 DEF pageVars, PageInv, PageShape, CacheInv, OnceEach, PlaceKept, GoneLong, IsCached, WalkKept
<1> QED
  BY <1>1, <1>2, <1>3, <1>5, <1>6, <1>7, <1>8 DEF PageNext

LEMMA PageInvariant == PageSpec => []PageInv
BY PageInitInv, PageStepInv, PTL DEF PageSpec

\* The cache of listings is an LRU, by any interleaving of walkers that hit, miss and put one
\* path twice (pageCache.get and put).
THEOREM ListingsLRU == PageSpec => []CacheIsLRU
<1>1. PageInv => CacheIsLRU
  <2> SUFFICES ASSUME PageInv, NEW p \in Paths
               PROVE  IsCached(p) <=> p \notin usedSince[p] /\ Cardinality(usedSince[p]) < CacheCap
    BY DEF CacheIsLRU
  <2>0. Len(lru) \in Nat /\ DOMAIN lru = 1 .. Len(lru) /\ Len(lru) <= CacheCap /\ CacheCap \in Nat
    BY PageAssumption DEF PageInv, PageShape, CacheInv
  <2>1. ASSUME IsCached(p) PROVE p \notin usedSince[p] /\ Cardinality(usedSince[p]) < CacheCap
    <3>1. PICK i \in 1 .. Len(lru) : lru[i].path = p
      BY <2>0, <2>1 DEF IsCached
    <3>2. PlaceKept(i)
      BY DEF PageInv, CacheInv
    <3>3. \A j \in 1 .. i - 1 : lru[j].path # p
      BY <2>0, <3>1 DEF PageInv, CacheInv, OnceEach
    <3> QED
      BY <2>0, <3>1, <3>2, <3>3 DEF PlaceKept
  <2>2. ASSUME ~IsCached(p), p \notin usedSince[p] PROVE ~(Cardinality(usedSince[p]) < CacheCap)
    <3>1. IsFiniteSet(usedSince[p]) /\ Cardinality(usedSince[p]) >= CacheCap
      BY <2>2 DEF PageInv, CacheInv, GoneLong
    <3>2. Cardinality(usedSince[p]) \in Nat
      BY <3>1, FS_CardinalityType
    <3> QED
      BY <2>0, <3>1, <3>2
  <2> QED
    BY <2>1, <2>2
<1> QED
  BY <1>1, PageInvariant, PTL

\* The pages of a walk that were cut from one listing are its first entries without a gap, and
\* all of them at the end (Client.List and slicePage).
THEOREM WalksCover == PageSpec => []WalkCovers
<1>1. PageInv => WalkCovers
  BY DEF PageInv, WalkKept, WalkCovers, SeenTo
<1> QED
  BY <1>1, PageInvariant, PTL

\* The types and the capacity.
LEMMA PagesTyped == PageSpec => []PageTypeOK
<1>1. PageInv => PageTypeOK
  BY DEF PageInv, PageShape, CacheInv, CacheEntry, WalkRecord, PageTypeOK
<1> QED
  BY <1>1, PageInvariant, PTL
=============================================================================
