--------------------------- MODULE KnownHosts_proofs ---------------------------
(***************************************************************************)
(* The known hosts, for any addresses, keys, files, callbacks, answers and *)
(* starts.  First the wildcard match: the recursive function of the code   *)
(* is what the cuts of a string along a pattern say.                       *)
(***************************************************************************)
EXTENDS KnownHosts, Induction_proofs, SequenceTheorems

\* The piece of the string that stands for character k of the pattern, and a cut of the string
\* from place j along the pattern from place i.
Piece(cut, pat, str, k) ==
  IF pat[k] = "*" THEN cut[k] >= cut[k - 1]
  ELSE cut[k] = cut[k - 1] + 1 /\ pat[k] \in {"?", str[cut[k]]}
Cuts(cut, pat, str, i, j) ==
  /\ cut[i - 1] = j - 1 /\ cut[Len(pat)] = Len(str)
  /\ \A k \in i .. Len(pat) : Piece(cut, pat, str, k)
Cutting(pat, str) == [0 .. Len(pat) -> 0 .. Len(str)]
CutFrom(pat, str, i, j) == \E cut \in Cutting(pat, str) : Cuts(cut, pat, str, i, j)

LEMMA CutEmpty ==
  ASSUME NEW S, NEW pat \in Seq(S), NEW str \in Seq(S), NEW j \in 1 .. Len(str) + 1
  PROVE  CutFrom(pat, str, Len(pat) + 1, j) <=> j > Len(str)
<1>1. Len(pat) \in Nat /\ Len(str) \in Nat /\ Len(pat) + 1 - 1 = Len(pat) /\ Len(pat) + 1 .. Len(pat) = {}
  OBVIOUS
<1>2. ASSUME CutFrom(pat, str, Len(pat) + 1, j) PROVE j > Len(str)
  BY <1>1, <1>2 DEF CutFrom, Cuts
<1>3. ASSUME j > Len(str) PROVE CutFrom(pat, str, Len(pat) + 1, j)
  <2> DEFINE cut == [k \in 0 .. Len(pat) |-> Len(str)]
  <2>1. cut \in Cutting(pat, str) /\ cut[Len(pat)] = Len(str)
    BY <1>1 DEF Cutting
  <2>2. j - 1 = Len(str)
    BY <1>1, <1>3
  <2>3. Cuts(cut, pat, str, Len(pat) + 1, j)
    BY <1>1, <2>1, <2>2 DEF Cuts
  <2> QED
    BY <2>1, <2>3 DEF CutFrom
<1> QED
  BY <1>2, <1>3

LEMMA CutOne ==
  ASSUME NEW S, NEW pat \in Seq(S), NEW str \in Seq(S),
         NEW i \in 1 .. Len(pat), NEW j \in 1 .. Len(str) + 1, pat[i] # "*"
  PROVE  CutFrom(pat, str, i, j)
           <=> j <= Len(str) /\ pat[i] \in {"?", str[j]} /\ CutFrom(pat, str, i + 1, j + 1)
<1>1. Len(pat) \in Nat /\ Len(str) \in Nat /\ i + 1 - 1 = i /\ j + 1 - 1 = j /\ j - 1 + 1 = j
  OBVIOUS
<1>2. ASSUME CutFrom(pat, str, i, j)
      PROVE  j <= Len(str) /\ pat[i] \in {"?", str[j]} /\ CutFrom(pat, str, i + 1, j + 1)
  <2> PICK cut \in Cutting(pat, str) : Cuts(cut, pat, str, i, j)
    BY <1>2 DEF CutFrom
  <2>1. Piece(cut, pat, str, i) /\ cut[i - 1] = j - 1 /\ i \in 0 .. Len(pat)
    BY <1>1 DEF Cuts
  <2>2. cut[i] = j /\ pat[i] \in {"?", str[j]}
    BY <1>1, <2>1 DEF Piece
  <2>3. j <= Len(str)
    BY <1>1, <2>1, <2>2 DEF Cutting
  <2>4. Cuts(cut, pat, str, i + 1, j + 1)
    <3>1. \A k \in i + 1 .. Len(pat) : Piece(cut, pat, str, k)
      BY <1>1 DEF Cuts
    <3> QED
      BY <1>1, <2>2, <3>1 DEF Cuts
  <2> QED
    BY <2>2, <2>3, <2>4 DEF CutFrom
<1>3. ASSUME j <= Len(str), pat[i] \in {"?", str[j]}, CutFrom(pat, str, i + 1, j + 1)
      PROVE  CutFrom(pat, str, i, j)
  <2> PICK old \in Cutting(pat, str) : Cuts(old, pat, str, i + 1, j + 1)
    BY <1>3 DEF CutFrom
  <2> DEFINE cut == [k \in 0 .. Len(pat) |-> IF k = i - 1 THEN j - 1 ELSE old[k]]
  <2>1. cut \in Cutting(pat, str)
    BY <1>1, <1>3 DEF Cutting
  <2>2. cut[i - 1] = j - 1 /\ \A k \in i .. Len(pat) : cut[k] = old[k]
    BY <1>1
  <2> HIDE DEF cut
  <2>3. old[i] = j /\ old[Len(pat)] = Len(str)
    BY <1>1 DEF Cuts
  <2>4. cut[i] = j /\ cut[Len(pat)] = Len(str)
    BY <1>1, <2>2, <2>3
  <2>5. Piece(cut, pat, str, i)
    BY <1>1, <1>3, <2>2, <2>4 DEF Piece
  <2>6. ASSUME NEW k \in i + 1 .. Len(pat) PROVE Piece(cut, pat, str, k)
    <3>1. Piece(old, pat, str, k)
      BY DEF Cuts
    <3>2. cut[k] = old[k] /\ cut[k - 1] = old[k - 1]
      BY <1>1, <2>2
    <3> QED
      BY <3>1, <3>2 DEF Piece
  <2>7. \A k \in i .. Len(pat) : k = i \/ k \in i + 1 .. Len(pat)
    BY <1>1
  <2>8. \A k \in i .. Len(pat) : Piece(cut, pat, str, k)
    BY <2>5, <2>6, <2>7
  <2> QED
    BY <2>1, <2>2, <2>4, <2>8 DEF Cuts, CutFrom
<1> QED
  BY <1>2, <1>3

\* The place after a run of stars exists.
LEMMA AfterStarsIs ==
  ASSUME NEW S, NEW pat \in Seq(S), NEW i \in 1 .. Len(pat), pat[i] = "*"
  PROVE  /\ AfterStars(pat, i) \in i + 1 .. Len(pat) + 1
         /\ \A s \in i .. AfterStars(pat, i) - 1 : pat[s] = "*"
<1> DEFINE T == {k \in i + 1 .. Len(pat) + 1 : k > Len(pat) \/ pat[k] # "*"}
<1>1. Len(pat) \in Nat
  OBVIOUS
<1>2. T \subseteq Nat /\ Len(pat) + 1 \in T
  BY <1>1
<1>3. PICK x \in T : \A y \in T : x <= y
  <2> HIDE DEF T
  <2> QED
    BY <1>2, Least
<1>4. ASSUME NEW s \in i .. x - 1 PROVE pat[s] = "*"
  <2>1. s = i \/ (s \in i + 1 .. Len(pat) + 1 /\ s < x)
    BY <1>1, <1>3
  <2>2. CASE s \in i + 1 .. Len(pat) + 1 /\ s < x
    <3>1. s \notin T
      BY <1>1, <1>3, <2>2
    <3> QED
      BY <2>2, <3>1
  <2> QED
    BY <2>1, <2>2
<1>5. \E k \in i + 1 .. Len(pat) + 1 :
        (k > Len(pat) \/ pat[k] # "*") /\ \A s \in i .. k - 1 : pat[s] = "*"
  BY <1>3, <1>4
<1> QED
  BY <1>5 DEF AfterStars

LEMMA CutStars ==
  ASSUME NEW S, NEW pat \in Seq(S), NEW str \in Seq(S),
         NEW i \in 1 .. Len(pat), NEW j \in 1 .. Len(str) + 1,
         NEW next \in i + 1 .. Len(pat) + 1, \A s \in i .. next - 1 : pat[s] = "*"
  PROVE  CutFrom(pat, str, i, j)
           <=> next > Len(pat) \/ \E n \in j .. Len(str) + 1 : CutFrom(pat, str, next, n)
<1>1. /\ Len(pat) \in Nat /\ Len(str) \in Nat /\ i - 1 \in 0 .. Len(pat) /\ next - 1 \in i .. Len(pat)
      /\ i \in Nat /\ j \in Nat /\ next \in Nat
  OBVIOUS
<1>2. ASSUME CutFrom(pat, str, i, j), ~(next > Len(pat))
      PROVE  \E n \in j .. Len(str) + 1 : CutFrom(pat, str, next, n)
  <2> PICK cut \in Cutting(pat, str) : Cuts(cut, pat, str, i, j)
    BY <1>2 DEF CutFrom
  <2> DEFINE Up == {k \in i - 1 .. next - 1 : cut[k] >= j - 1}
  <2>0. \A k \in 0 .. Len(pat) : cut[k] \in 0 .. Len(str)
    BY DEF Cutting
  <2>1. i - 1 \in Up
    BY <1>1 DEF Cuts
  <2>2. ASSUME NEW k \in i - 1 .. next - 1 - 1, k \in Up PROVE k + 1 \in Up
    <3>1. k + 1 \in i .. next - 1 /\ k + 1 \in i .. Len(pat) /\ k + 1 - 1 = k
      BY <1>1
    <3>2. cut[k + 1] >= cut[k]
      BY <3>1 DEF Cuts, Piece
    <3>3. cut[k + 1] \in Nat /\ cut[k] \in Nat /\ k + 1 \in i - 1 .. next - 1
      BY <1>1, <2>0, <3>1
    <3> QED
      BY <1>1, <2>2, <3>2, <3>3
  <2>3. next - 1 \in Up
    <3> HIDE DEF Up
    <3>1. i - 1 \in Nat /\ next - 1 \in Nat /\ next - 1 \in i - 1 .. next - 1
      BY <1>1
    <3>2. i - 1 .. next - 1 \subseteq Up
      BY <2>1, <2>2, <3>1, Upward
    <3> QED
      BY <3>1, <3>2
  <2> DEFINE n == cut[next - 1] + 1
  <2>4. n \in j .. Len(str) + 1 /\ cut[next - 1] = n - 1
    BY <1>1, <2>0, <2>3
  <2>5. \A k \in next .. Len(pat) : Piece(cut, pat, str, k)
    BY <1>1 DEF Cuts
  <2>6. Cuts(cut, pat, str, next, n)
    BY <2>4, <2>5 DEF Cuts
  <2> QED
    BY <2>4, <2>6 DEF CutFrom
<1>3. ASSUME next > Len(pat) PROVE CutFrom(pat, str, i, j)
  <2> DEFINE cut == [k \in 0 .. Len(pat) |-> IF k < i THEN j - 1 ELSE Len(str)]
  <2>1. cut \in Cutting(pat, str)
    BY <1>1 DEF Cutting
  <2>2. cut[i - 1] = j - 1 /\ cut[Len(pat)] = Len(str)
    BY <1>1
  <2>3. ASSUME NEW k \in i .. Len(pat) PROVE Piece(cut, pat, str, k)
    <3>1. pat[k] = "*"
      BY <1>1, <1>3
    <3>2. cut[k] = Len(str) /\ cut[k - 1] <= Len(str)
      BY <1>1
    <3> QED
      BY <1>1, <3>1, <3>2 DEF Piece
  <2> QED
    BY <2>1, <2>2, <2>3 DEF CutFrom, Cuts
<1>4. ASSUME NEW n \in j .. Len(str) + 1, CutFrom(pat, str, next, n), ~(next > Len(pat))
      PROVE  CutFrom(pat, str, i, j)
  <2> PICK old \in Cutting(pat, str) : Cuts(old, pat, str, next, n)
    BY <1>4 DEF CutFrom
  <2> DEFINE cut == [k \in 0 .. Len(pat) |-> IF k < i THEN j - 1 ELSE IF k < next THEN n - 1 ELSE old[k]]
  <2>1. cut \in Cutting(pat, str)
    BY <1>1 DEF Cutting
  <2>2. /\ cut[i - 1] = j - 1 /\ \A k \in next .. Len(pat) : cut[k] = old[k]
        /\ \A k \in i .. next - 1 : cut[k] = n - 1
    BY <1>1
  <2> HIDE DEF cut
  <2>3. old[next - 1] = n - 1 /\ old[Len(pat)] = Len(str)
    BY DEF Cuts
  <2>4. cut[Len(pat)] = Len(str)
    BY <1>1, <1>4, <2>2, <2>3
  <2>5. ASSUME NEW k \in i .. Len(pat) PROVE Piece(cut, pat, str, k)
    <3>1. CASE k = i
      BY <1>1, <2>2, <3>1 DEF Piece
    <3>2. CASE k \in i + 1 .. next - 1
      <4>1. cut[k] = n - 1 /\ cut[k - 1] = n - 1 /\ pat[k] = "*"
        BY <1>1, <2>2, <3>2
      <4> QED
        BY <4>1 DEF Piece
    <3>3. CASE k \in next .. Len(pat)
      <4>1. Piece(old, pat, str, k) /\ cut[k] = old[k]
        BY <2>2, <3>3 DEF Cuts
      <4>2. cut[k - 1] = old[k - 1]
        <5>1. CASE k = next
          BY <1>1, <2>2, <2>3, <5>1
        <5>2. CASE k # next
          BY <1>1, <2>2, <3>3, <5>2
        <5> QED
          BY <5>1, <5>2
      <4> QED
        BY <4>1, <4>2 DEF Piece
    <3>4. k = i \/ k \in i + 1 .. next - 1 \/ k \in next .. Len(pat)
      BY <1>1
    <3> QED
      BY <3>1, <3>2, <3>3, <3>4
  <2> QED
    BY <2>1, <2>2, <2>4, <2>5 DEF CutFrom, Cuts
<1> QED
  BY <1>2, <1>3, <1>4

Places(pat, str) == (1 .. Len(pat) + 1) \X (1 .. Len(str) + 1)
IsMatchTable(f, pat, str) == f = [p \in Places(pat, str) |-> MatchFrom(f, pat, str, p[1], p[2])]
CutTable(pat, str) == [p \in Places(pat, str) |-> CutFrom(pat, str, p[1], p[2])]

\* What MatchFrom says of a place, given a table of the places further on that cuts agree with.
LEMMA MatchFromCuts ==
  ASSUME NEW S, NEW pat \in Seq(S), NEW str \in Seq(S),
         NEW i \in 1 .. Len(pat) + 1, NEW j \in 1 .. Len(str) + 1, NEW f,
         \A k \in i + 1 .. Len(pat) + 1 : \A n \in 1 .. Len(str) + 1 :
           f[<<k, n>>] = CutFrom(pat, str, k, n)
  PROVE  MatchFrom(f, pat, str, i, j) = CutFrom(pat, str, i, j)
<1>1. Len(pat) \in Nat /\ Len(str) \in Nat /\ i \in Nat /\ j \in Nat
  OBVIOUS
<1> DEFINE Cf == CutFrom(pat, str, i, j)
<1>2. Cf \in BOOLEAN
  BY DEF CutFrom
<1>3. CASE i > Len(pat)
  <2>1. i = Len(pat) + 1
    BY <1>1, <1>3
  <2>2. CutFrom(pat, str, i, j) <=> j > Len(str)
    BY <2>1, CutEmpty
  <2>3. MatchFrom(f, pat, str, i, j) = (j > Len(str))
    BY <1>3 DEF MatchFrom
  <2> QED
    BY <1>2, <2>2, <2>3
<1>4. CASE i \in 1 .. Len(pat) /\ pat[i] # "*"
  <2>1. CutFrom(pat, str, i, j)
          <=> j <= Len(str) /\ pat[i] \in {"?", str[j]} /\ CutFrom(pat, str, i + 1, j + 1)
    BY <1>4, CutOne
  <2>2. MatchFrom(f, pat, str, i, j)
          = (j <= Len(str) /\ pat[i] \in {"?", str[j]} /\ f[<<i + 1, j + 1>>])
    BY <1>1, <1>4 DEF MatchFrom
  <2>3. j <= Len(str) => f[<<i + 1, j + 1>>] = CutFrom(pat, str, i + 1, j + 1)
    <3>1. i + 1 \in i + 1 .. Len(pat) + 1 /\ (j <= Len(str) => j + 1 \in 1 .. Len(str) + 1)
      BY <1>1, <1>4
    <3> QED
      BY <3>1
  <2> QED
    BY <1>2, <2>1, <2>2, <2>3
<1>5. CASE i \in 1 .. Len(pat) /\ pat[i] = "*"
  <2> DEFINE next == AfterStars(pat, i)
  <2>1. next \in i + 1 .. Len(pat) + 1 /\ \A s \in i .. next - 1 : pat[s] = "*"
    BY <1>5, AfterStarsIs
  <2>2. MatchFrom(f, pat, str, i, j)
          = (next > Len(pat) \/ \E n \in j .. Len(str) + 1 : f[<<next, n>>])
    BY <1>1, <1>5 DEF MatchFrom
  <2> HIDE DEF next
  <2>3. CutFrom(pat, str, i, j)
          <=> next > Len(pat) \/ \E n \in j .. Len(str) + 1 : CutFrom(pat, str, next, n)
    BY <1>5, <2>1, CutStars
  <2>4. ASSUME NEW n \in j .. Len(str) + 1 PROVE f[<<next, n>>] = CutFrom(pat, str, next, n)
    <3>1. n \in 1 .. Len(str) + 1
      BY <1>1
    <3> QED
      BY <2>1, <3>1
  <2> QED
    BY <1>2, <2>2, <2>3, <2>4
<1>6. i > Len(pat) \/ i \in 1 .. Len(pat)
  BY <1>1
<1> QED
  BY <1>3, <1>4, <1>5, <1>6

LEMMA CutsAreTable ==
  ASSUME NEW S, NEW pat \in Seq(S), NEW str \in Seq(S)
  PROVE  IsMatchTable(CutTable(pat, str), pat, str)
<1> DEFINE t == CutTable(pat, str)
<1>1. ASSUME NEW k \in 1 .. Len(pat) + 1, NEW n \in 1 .. Len(str) + 1
      PROVE  t[<<k, n>>] = CutFrom(pat, str, k, n)
  <2>1. <<k, n>> \in Places(pat, str)
    BY DEF Places
  <2> QED
    BY <2>1 DEF CutTable
<1> HIDE DEF t
<1>2. ASSUME NEW p \in Places(pat, str)
      PROVE  MatchFrom(t, pat, str, p[1], p[2]) = CutFrom(pat, str, p[1], p[2])
  <2>1. p[1] \in 1 .. Len(pat) + 1 /\ p[2] \in 1 .. Len(str) + 1
    BY DEF Places
  <2>2. \A k \in p[1] + 1 .. Len(pat) + 1 : \A n \in 1 .. Len(str) + 1 :
          t[<<k, n>>] = CutFrom(pat, str, k, n)
    <3>1. \A k \in p[1] + 1 .. Len(pat) + 1 : k \in 1 .. Len(pat) + 1
      BY <2>1
    <3> QED
      BY <1>1, <3>1
  <2> QED
    BY <2>1, <2>2, MatchFromCuts
<1>3. CutTable(pat, str) = [p \in Places(pat, str) |-> MatchFrom(t, pat, str, p[1], p[2])]
  BY <1>2 DEF CutTable
<1> QED
  BY <1>3 DEF IsMatchTable, t

\* There is no other table.
LEMMA TableIsCuts ==
  ASSUME NEW S, NEW pat \in Seq(S), NEW str \in Seq(S), NEW f, IsMatchTable(f, pat, str)
  PROVE  \A i \in 1 .. Len(pat) + 1 : \A j \in 1 .. Len(str) + 1 :
           f[<<i, j>>] = CutFrom(pat, str, i, j)
<1> DEFINE Same == {i \in 1 .. Len(pat) + 1 : \A k \in i .. Len(pat) + 1 : \A j \in 1 .. Len(str) + 1 :
                      f[<<k, j>>] = CutFrom(pat, str, k, j)}
<1>1. Len(pat) \in Nat
  OBVIOUS
<1>2. ASSUME NEW i \in 1 .. Len(pat) + 1,
             \A k \in i + 1 .. Len(pat) + 1 : \A j \in 1 .. Len(str) + 1 :
               f[<<k, j>>] = CutFrom(pat, str, k, j)
      PROVE  i \in Same
  <2>1. ASSUME NEW j \in 1 .. Len(str) + 1 PROVE f[<<i, j>>] = CutFrom(pat, str, i, j)
    <3>1. <<i, j>> \in Places(pat, str) /\ <<i, j>>[1] = i /\ <<i, j>>[2] = j
      BY DEF Places
    <3>2. f[<<i, j>>] = MatchFrom(f, pat, str, <<i, j>>[1], <<i, j>>[2])
      BY <3>1 DEF IsMatchTable
    <3>3. MatchFrom(f, pat, str, i, j) = CutFrom(pat, str, i, j)
      BY <1>2, MatchFromCuts
    <3> QED
      BY <3>1, <3>2, <3>3
  <2>2. \A k \in i .. Len(pat) + 1 : k = i \/ k \in i + 1 .. Len(pat) + 1
    BY <1>1
  <2> QED
    BY <1>2, <2>1, <2>2
<1>3. Len(pat) + 1 \in Same
  <2>1. Len(pat) + 1 \in 1 .. Len(pat) + 1 /\ Len(pat) + 1 + 1 .. Len(pat) + 1 = {}
    BY <1>1
  <2> HIDE DEF Same
  <2> QED
    BY <1>2, <2>1
<1>4. ASSUME NEW i \in 1 .. Len(pat) + 1 - 1, i + 1 \in Same PROVE i \in Same
  BY <1>1, <1>2, <1>4
<1>5. 1 .. Len(pat) + 1 \subseteq Same
  <2> HIDE DEF Same
  <2> PICK last \in Nat : last = Len(pat) + 1
    BY <1>1
  <2>1. last \in Same /\ \A i \in 1 .. last - 1 : i + 1 \in Same => i \in Same
    BY <1>3, <1>4
  <2>2. 1 .. last \subseteq Same
    BY <2>1, Downward
  <2> QED
    BY <2>2
<1>6. ASSUME NEW i \in 1 .. Len(pat) + 1, NEW j \in 1 .. Len(str) + 1
      PROVE  f[<<i, j>>] = CutFrom(pat, str, i, j)
  <2>1. i \in Same
    BY <1>5
  <2>2. i \in i .. Len(pat) + 1
    BY <1>1
  <2> QED
    BY <2>1, <2>2
<1> QED
  BY <1>6

\* A pattern matches exactly the strings that can be cut along it, for every pattern and string
\* (wildcardMatch).
THEOREM MatchIsCut ==
  ASSUME NEW S, NEW pat \in Seq(S), NEW str \in Seq(S)
  PROVE  WildcardMatch(pat, str) = MatchesByCut(pat, str)
<1>1. WildcardMatch(pat, str) = (CHOOSE f : IsMatchTable(f, pat, str))[<<1, 1>>]
  BY DEF WildcardMatch, IsMatchTable, Places
<1>2. \E f : IsMatchTable(f, pat, str) /\ WildcardMatch(pat, str) = f[<<1, 1>>]
  BY <1>1, CutsAreTable
<1>3. 1 \in 1 .. Len(pat) + 1 /\ 1 \in 1 .. Len(str) + 1
  OBVIOUS
<1>4. WildcardMatch(pat, str) = CutFrom(pat, str, 1, 1)
  BY <1>2, <1>3, TableIsCuts
<1>5. CutFrom(pat, str, 1, 1) <=> MatchesByCut(pat, str)
  BY DEF CutFrom, Cuts, Cutting, Piece, MatchesByCut, IsCut
<1>6. CutFrom(pat, str, 1, 1) \in BOOLEAN /\ MatchesByCut(pat, str) \in BOOLEAN
  BY DEF CutFrom, MatchesByCut
<1> QED
  BY <1>4, <1>5, <1>6

-----------------------------------------------------------------------------
(* What Add writes of an address and what loadFromFile reads of it.        *)

LEMMA AddressIs ==
  ASSUME NEW a \in Addresses
  PROVE  /\ a = [host |-> a.host, port |-> a.port]
         /\ a.host \in Seq(STRING) /\ IsHostName(a.host) /\ a.port \in STRING \ {":", ","}
<1>1. PICK t \in HostTexts : a = ParseAddr(t)
  BY DEF Addresses
<1>2. a.host \in Seq(STRING) /\ IsHostName(a.host) /\ a.port \in STRING \ {":", ","}
  BY <1>1, HostAssumption
<1>3. a = [host |-> a.host, port |-> a.port]
  BY <1>1 DEF ParseAddr, SplitHostPort
<1> QED
  BY <1>2, <1>3

\* The characters of a text, as the provers know them.
Chars == STRING \cup {"[", "]", ":"}
LEMMA TextChars == ASSUME NEW h \in Seq(STRING) PROVE h \in Seq(Chars)
BY DEF Chars

\* The characters of a host in brackets with a tail.
LEMMA InBrackets ==
  ASSUME NEW h \in Seq(Chars), NEW tail \in Seq(Chars)
  PROVE  LET text == <<"[">> \o h \o tail IN
         /\ text \in Seq(Chars) /\ Len(text) = Len(h) + 1 + Len(tail)
         /\ text[1] = "[" /\ \A k \in 1 .. Len(h) : text[k + 1] = h[k]
         /\ \A k \in 1 .. Len(tail) : text[Len(h) + 1 + k] = tail[k]
<1> DEFINE b == <<"[">> \o h
<1>0. <<"[">> \in Seq(Chars) /\ Len(<<"[">>) = 1 /\ <<"[">>[1] = "["
  BY DEF Chars
<1>1. b \in Seq(Chars) /\ Len(b) = Len(h) + 1 /\ b[1] = "[" /\ \A k \in 1 .. Len(h) : b[k + 1] = h[k]
  BY <1>0, ConcatProperties
<1> HIDE DEF b
<1>2. /\ b \o tail \in Seq(Chars) /\ Len(b \o tail) = Len(b) + Len(tail)
      /\ \A k \in 1 .. Len(b) : (b \o tail)[k] = b[k]
      /\ \A k \in 1 .. Len(tail) : (b \o tail)[Len(b) + k] = tail[k]
  <2>1. b \o tail \in Seq(Chars) /\ Len(b \o tail) = Len(b) + Len(tail)
    BY <1>1, ConcatProperties
  <2>2. \A k \in 1 .. Len(b) : (b \o tail)[k] = b[k]
    BY <1>1, ConcatProperties
  <2>3. ASSUME NEW k \in 1 .. Len(tail) PROVE (b \o tail)[Len(b) + k] = tail[k]
    BY <1>1
  <2> QED
    BY <2>1, <2>2, <2>3
<1>3. Len(h) \in Nat /\ 1 \in 1 .. Len(b) /\ \A k \in 1 .. Len(h) : k + 1 \in 1 .. Len(b)
  BY <1>1
<1>4. b \o tail = <<"[">> \o h \o tail
  BY DEF b
<1>5. /\ b \o tail \in Seq(Chars) /\ Len(b \o tail) = Len(h) + 1 + Len(tail)
      /\ (b \o tail)[1] = "[" /\ \A k \in 1 .. Len(h) : (b \o tail)[k + 1] = h[k]
      /\ \A k \in 1 .. Len(tail) : (b \o tail)[Len(h) + 1 + k] = tail[k]
  BY <1>1, <1>2, <1>3
<1> QED
  BY <1>4, <1>5

\* A text without some characters.
Lacks(text, chars) == \A i \in 1 .. Len(text) : text[i] \notin chars

LEMMA LacksInBrackets ==
  ASSUME NEW h \in Seq(Chars), NEW tail \in Seq(Chars), NEW chars,
         Lacks(h, chars), Lacks(tail, chars), "[" \notin chars
  PROVE  Lacks(<<"[">> \o h \o tail, chars)
<1> PICK text : text = <<"[">> \o h \o tail
  OBVIOUS
<1>1. /\ Len(text) = Len(h) + 1 + Len(tail)
      /\ text[1] = "[" /\ \A k \in 1 .. Len(h) : text[k + 1] = h[k]
      /\ \A k \in 1 .. Len(tail) : text[Len(h) + 1 + k] = tail[k]
  BY InBrackets
<1>2. Len(h) \in Nat /\ Len(tail) \in Nat
  OBVIOUS
<1>3. ASSUME NEW i \in 1 .. Len(text) PROVE text[i] \notin chars
  <2>1. CASE i = 1
    BY <1>1, <2>1
  <2>2. CASE i \in 2 .. Len(h) + 1
    <3>1. i - 1 \in 1 .. Len(h) /\ i - 1 + 1 = i
      BY <1>2, <2>2
    <3>2. text[i] = h[i - 1]
      BY <1>1, <3>1
    <3> QED
      BY <3>1, <3>2 DEF Lacks
  <2>3. CASE i \in Len(h) + 2 .. Len(h) + 1 + Len(tail)
    <3>1. i - (Len(h) + 1) \in 1 .. Len(tail) /\ Len(h) + 1 + (i - (Len(h) + 1)) = i
      BY <1>2, <2>3
    <3>2. text[i] = tail[i - (Len(h) + 1)]
      BY <1>1, <3>1
    <3> QED
      BY <3>1, <3>2 DEF Lacks
  <2>4. i = 1 \/ i \in 2 .. Len(h) + 1 \/ i \in Len(h) + 2 .. Len(h) + 1 + Len(tail)
    BY <1>1, <1>2
  <2> QED
    BY <2>1, <2>2, <2>3, <2>4
<1> QED
  BY <1>3 DEF Lacks

LEMMA LastColonIs ==
  ASSUME NEW text \in Seq(Chars), NEW i \in 1 .. Len(text), text[i] = ":",
         \A j \in i + 1 .. Len(text) : text[j] # ":"
  PROVE  LastColon(text) = i /\ Has(text, ":")
<1>1. DOMAIN text = 1 .. Len(text) /\ Len(text) \in Nat
  OBVIOUS
<1>2. ASSUME NEW k \in DOMAIN text, text[k] = ":", \A j \in k + 1 .. Len(text) : text[j] # ":"
      PROVE  k = i
  <2>1. ~(k \in i + 1 .. Len(text)) /\ ~(i \in k + 1 .. Len(text))
    BY <1>2
  <2> QED
    BY <1>1, <2>1
<1> QED
  BY <1>1, <1>2 DEF LastColon, Has

LEMMA ReadWithPort ==
  ASSUME NEW h \in Seq(STRING), IsHostName(h), NEW p \in STRING \ {":"}
  PROVE  ParseAddr(<<"[">> \o h \o <<"]", ":", p>>) = [host |-> h, port |-> p]
<1> DEFINE tail == <<"]", ":", p>>
           text == <<"[">> \o h \o tail
<1>1. tail \in Seq(Chars) /\ Len(tail) = 3 /\ tail[1] = "]" /\ tail[2] = ":" /\ tail[3] = p
  BY DEF Chars
<1>2. Len(h) \in Nat /\ h \in Seq(Chars)
  BY TextChars
<1> HIDE DEF tail
<1>3. /\ text \in Seq(Chars) /\ Len(text) = Len(h) + 1 + Len(tail)
      /\ text[1] = "[" /\ \A k \in 1 .. Len(h) : text[k + 1] = h[k]
      /\ \A k \in 1 .. Len(tail) : text[Len(h) + 1 + k] = tail[k]
  BY <1>1, <1>2, InBrackets
<1> HIDE DEF text
<1>4. Len(text) = Len(h) + 4 /\ text[Len(h) + 2] = "]" /\ text[Len(h) + 3] = ":" /\ text[Len(h) + 4] = p
  <2>1. 1 \in 1 .. 3 /\ 2 \in 1 .. 3 /\ 3 \in 1 .. 3
    OBVIOUS
  <2>2. /\ Len(h) + 1 + 3 = Len(h) + 4 /\ Len(h) + 1 + 1 = Len(h) + 2
        /\ Len(h) + 1 + 2 = Len(h) + 3
    BY <1>2
  <2> QED
    BY <1>1, <1>3, <2>1, <2>2
<1>5. LastColon(text) = Len(h) + 3 /\ Has(text, ":")
  <2>1. /\ Len(h) + 3 \in 1 .. Len(text)
        /\ \A j \in Len(h) + 3 + 1 .. Len(text) : j = Len(h) + 4
    BY <1>2, <1>4
  <2>2. p # ":"
    OBVIOUS
  <2> QED
    BY <1>3, <1>4, <2>1, <2>2, LastColonIs
<1>6. Len(h) + 3 - 1 = Len(h) + 2 /\ Len(h) + 3 > 1 /\ Len(text) > 0 /\ Len(h) + 3 < Len(text)
  BY <1>2, <1>4
<1>7. Bracketed(text) /\ HostPart(text) = SubSeq(text, 1, Len(h) + 2)
  BY <1>3, <1>4, <1>5, <1>6 DEF Bracketed, HostPart
<1> DEFINE part == SubSeq(text, 1, Len(h) + 2)
           front == SubSeq(part, 1, Len(part) - 1)
<1>8. part \in Seq(Chars) /\ Len(part) = Len(h) + 2 /\ \A k \in 1 .. Len(h) + 2 : part[k] = text[k]
  BY <1>2, <1>3, <1>4
<1> HIDE DEF part
<1>9. front \in Seq(Chars) /\ Len(front) = Len(h) + 1 /\ \A k \in 1 .. Len(h) + 1 : front[k] = text[k]
  BY <1>2, <1>8
<1> HIDE DEF front
<1>10. Tail(front) \in Seq(Chars) /\ Len(Tail(front)) = Len(h) /\ \A k \in 1 .. Len(h) : Tail(front)[k] = text[k + 1]
  BY <1>2, <1>9
<1>11. Tail(front) = h
  BY <1>3, <1>10
<1>12. Tail(Front(HostPart(text))) = h /\ Last(text) = p
  BY <1>4, <1>7, <1>11 DEF Front, Last, part, front
<1>13. ~Has(h, "[") /\ ~Has(h, "]")
  BY DEF IsHostName, Has
<1>14. Splits(text)
  BY <1>5, <1>6, <1>7, <1>12, <1>13 DEF Splits
<1>15. ParseAddr(text) = [host |-> h, port |-> p]
  BY <1>7, <1>12, <1>14 DEF ParseAddr, SplitHostPort
<1> QED
  BY <1>15 DEF text, tail

LEMMA ReadBracketed ==
  ASSUME NEW h \in Seq(STRING), IsHostName(h), Has(h, ":")
  PROVE  ParseAddr(<<"[">> \o h \o <<"]">>) = [host |-> <<"[">> \o h \o <<"]">>, port |-> DefaultPort]
<1> DEFINE tail == <<"]">>
           text == <<"[">> \o h \o tail
<1>1. tail \in Seq(Chars) /\ Len(tail) = 1 /\ tail[1] = "]"
  BY DEF Chars
<1>2. Len(h) \in Nat /\ DOMAIN h = 1 .. Len(h) /\ h \in Seq(Chars)
  BY TextChars
<1> HIDE DEF tail
<1>3. /\ text \in Seq(Chars) /\ Len(text) = Len(h) + 1 + Len(tail)
      /\ text[1] = "[" /\ \A k \in 1 .. Len(h) : text[k + 1] = h[k]
      /\ \A k \in 1 .. Len(tail) : text[Len(h) + 1 + k] = tail[k]
  BY <1>1, <1>2, InBrackets
<1> HIDE DEF text
<1>4. Len(text) = Len(h) + 2 /\ text[Len(h) + 2] = "]"
  <2>1. 1 \in 1 .. 1 /\ Len(h) + 1 + 1 = Len(h) + 2
    BY <1>2
  <2> QED
    BY <1>1, <1>3, <2>1
<1> DEFINE Colons == {k \in 1 .. Len(h) : h[k] = ":"}
<1>5. PICK x \in Colons : \A y \in Colons : y <= x
  <2>1. Colons \subseteq 0 .. Len(h) /\ Colons # {}
    BY <1>2 DEF Has
  <2> HIDE DEF Colons
  <2> QED
    BY <1>2, <2>1, Greatest
<1>6. ASSUME NEW j \in x + 1 + 1 .. Len(text) PROVE text[j] # ":"
  <2>1. CASE j = Len(h) + 2
    BY <1>4, <2>1
  <2>2. CASE j # Len(h) + 2
    <3>1. j - 1 \in 1 .. Len(h) /\ j - 1 > x /\ j - 1 + 1 = j
      BY <1>2, <1>4, <1>5, <2>2
    <3>2. text[j] = h[j - 1]
      BY <1>3, <3>1
    <3>3. j - 1 \notin Colons
      BY <1>2, <1>5, <3>1
    <3> QED
      BY <3>1, <3>2, <3>3
  <2> QED
    BY <2>1, <2>2
<1>7. LastColon(text) = x + 1
  <2>1. x + 1 \in 1 .. Len(text) /\ text[x + 1] = ":"
    BY <1>2, <1>3, <1>4, <1>5
  <2> QED
    BY <1>3, <1>6, <2>1, LastColonIs
<1>8. x \in 1 .. Len(h) /\ x + 1 - 1 = x /\ x + 1 > 1
  BY <1>2, <1>5
<1>9. text[x] # "]"
  <2>1. CASE x = 1
    BY <1>3, <2>1
  <2>2. CASE x # 1
    <3>1. x - 1 \in 1 .. Len(h) /\ x - 1 + 1 = x
      BY <1>2, <1>8, <2>2
    <3>2. text[x] = h[x - 1]
      BY <1>3, <3>1
    <3> QED
      BY <1>2, <3>1, <3>2 DEF IsHostName
  <2> QED
    BY <2>1, <2>2
<1>10. ~Bracketed(text)
  BY <1>7, <1>8, <1>9 DEF Bracketed
<1>11. HostPart(text) = SubSeq(text, 1, x)
  BY <1>7, <1>8 DEF HostPart
<1>12. Has(SubSeq(text, 1, x), "[")
  <2>1. 1 \in DOMAIN SubSeq(text, 1, x) /\ SubSeq(text, 1, x)[1] = text[1]
    BY <1>2, <1>3, <1>4, <1>8
  <2> QED
    BY <1>3, <2>1 DEF Has
<1>13. ~Splits(text)
  BY <1>10, <1>11, <1>12 DEF Splits
<1>14. ParseAddr(text) = [host |-> text, port |-> DefaultPort]
  BY <1>13 DEF ParseAddr
<1> QED
  BY <1>14 DEF text, tail

\* A pattern without wildcards matches itself and nothing else.
LEMMA MatchesItself == ASSUME NEW h \in Seq(Chars) PROVE WildcardMatch(h, h)
<1> DEFINE cut == [k \in 0 .. Len(h) |-> k]
<1>1. cut \in [0 .. Len(h) -> 0 .. Len(h)] /\ cut[0] = 0 /\ cut[Len(h)] = Len(h)
  OBVIOUS
<1>2. ASSUME NEW i \in 1 .. Len(h)
      PROVE  cut[i] >= cut[i - 1] /\ cut[i] = cut[i - 1] + 1 /\ cut[i] = i
  OBVIOUS
<1> HIDE DEF cut
<1>3. IsCut(cut, h, h)
  BY <1>1, <1>2 DEF IsCut
<1>4. MatchesByCut(h, h)
  BY <1>1, <1>3 DEF MatchesByCut
<1> QED
  BY <1>4, MatchIsCut

LEMMA MatchesOnlyItself ==
  ASSUME NEW h \in Seq(Chars), NEW str \in Seq(Chars), WildcardMatch(h, str), Lacks(h, {"*", "?"})
  PROVE  str = h
<1>1. MatchesByCut(h, str)
  BY MatchIsCut
<1>2. PICK cut \in [0 .. Len(h) -> 0 .. Len(str)] : IsCut(cut, h, str)
  BY <1>1 DEF MatchesByCut
<1>3. cut[0] = 0 /\ cut[Len(h)] = Len(str)
  BY <1>2 DEF IsCut
<1>4. \A i \in 1 .. Len(h) : cut[i] = cut[i - 1] + 1 /\ h[i] = str[cut[i]]
  BY <1>2 DEF IsCut, Lacks
<1>5. Len(h) \in Nat /\ Len(str) \in Nat
  OBVIOUS
<1> DEFINE Equal == {i \in 0 .. Len(h) : cut[i] = i}
<1>6. 0 \in Equal
  BY <1>3, <1>5
<1>7. ASSUME NEW i \in 0 .. Len(h) - 1, i \in Equal PROVE i + 1 \in Equal
  <2>1. i + 1 \in 1 .. Len(h) /\ i + 1 - 1 = i
    BY <1>5
  <2>2. cut[i + 1] = cut[i] + 1
    BY <1>4, <2>1
  <2> QED
    BY <1>7, <2>1, <2>2
<1>8. 0 .. Len(h) \subseteq Equal
  <2> HIDE DEF Equal
  <2> QED
    BY <1>5, <1>6, <1>7, Upward
<1>9. Len(str) = Len(h) /\ \A i \in 1 .. Len(h) : cut[i] = i
  BY <1>3, <1>5, <1>8
<1>10. \A i \in 1 .. Len(h) : str[i] = h[i]
  BY <1>4, <1>9
<1> QED
  BY <1>9, <1>10

LEMMA HostChars ==
  ASSUME NEW a \in Addresses
  PROVE  /\ a.host \in Seq(Chars) /\ a.host # <<>>
         /\ Lacks(a.host, {"*", "?"}) /\ Lacks(a.host, {","}) /\ Lacks(a.host, {"["})
<1>1. a.host \in Seq(STRING) /\ IsHostName(a.host)
  BY AddressIs
<1>2. DOMAIN a.host = 1 .. Len(a.host)
  BY <1>1
<1> QED
  BY <1>1, <1>2, TextChars DEF IsHostName, Lacks

\* An address is a pattern that matches this address only.
LEMMA AddressMatches ==
  ASSUME NEW a \in Addresses, NEW b \in Addresses
  PROVE  PatternMatches(a, b) <=> a = b
<1>1. a.host \in Seq(Chars) /\ b.host \in Seq(Chars)
  BY HostChars
<1>2. WildcardMatch(a.host, b.host) => b.host = a.host
  BY <1>1, HostChars, MatchesOnlyItself
<1>3. WildcardMatch(a.host, a.host)
  BY <1>1, MatchesItself
<1>4. a = [host |-> a.host, port |-> a.port] /\ b = [host |-> b.host, port |-> b.port]
  BY AddressIs
<1> QED
  BY <1>2, <1>3, <1>4 DEF PatternMatches

\* An IPv6 address on the default port is written in a form that is read as another pattern,
\* which matches no address; every other address is read back.
Unread(a) == Has(a.host, ":") /\ a.port = DefaultPort
Brackets == {<<"[">> \o a.host \o <<"]">> : a \in Addresses}

LEMMA BracketsMatchNothing ==
  ASSUME NEW p, p.host \in Brackets, NEW a \in Addresses
  PROVE  ~PatternMatches(p, a)
<1> SUFFICES ASSUME WildcardMatch(p.host, a.host) PROVE FALSE
  BY DEF PatternMatches
<1>1. PICK b \in Addresses : p.host = <<"[">> \o b.host \o <<"]">>
  BY DEF Brackets
<1>2. PICK h, str, tail : h = b.host /\ str = a.host /\ tail = <<"]">>
  OBVIOUS
<1>3. /\ h \in Seq(Chars) /\ Lacks(h, {"*", "?"}) /\ str \in Seq(Chars) /\ Lacks(str, {"["})
      /\ WildcardMatch(<<"[">> \o h \o tail, str)
  BY <1>1, <1>2, HostChars
<1>4. tail \in Seq(Chars) /\ Lacks(tail, {"*", "?"})
  BY <1>2 DEF Chars, Lacks
<1>5. PICK text : text = <<"[">> \o h \o tail
  OBVIOUS
<1>6. Lacks(text, {"*", "?"})
  BY <1>3, <1>4, <1>5, LacksInBrackets
<1>7. text \in Seq(Chars) /\ Len(text) = Len(h) + 1 + Len(tail) /\ text[1] = "["
  BY <1>3, <1>4, <1>5, InBrackets
<1>8. str = text
  BY <1>3, <1>5, <1>6, <1>7, MatchesOnlyItself
<1>9. 1 \in 1 .. Len(text)
  <2>1. Len(h) \in Nat /\ Len(tail) \in Nat
    BY <1>3, <1>4
  <2> QED
    BY <1>7, <2>1
<1> QED
  BY <1>3, <1>7, <1>8, <1>9 DEF Lacks

LEMMA TextShape == ASSUME NEW S, NEW text \in Seq(S) PROVE DOMAIN text = 1 .. Len(text) /\ Len(text) \in Nat
OBVIOUS

LEMMA PortTail ==
  ASSUME NEW port \in Chars, NEW tail, tail = <<"]", ":", port>>
  PROVE  tail \in Seq(Chars) /\ Len(tail) = 3 /\ tail[1] = "]" /\ tail[2] = ":" /\ tail[3] = port
BY DEF Chars

\* A pattern text that is not empty, has no comma and starts with no special character.
LEMMA LineParses ==
  ASSUME NEW text \in Seq(Chars), text # <<>>, Lacks(text, {","}), text[1] \notin {"#", "@", "|"},
         ParseAddr(text).host # <<>>, NEW k
  PROVE  Parses([hosts |-> {text}, key |-> k])
<1>1. DOMAIN text = 1 .. Len(text)
  BY TextShape
<1>2. ~Has(text, ",")
  BY <1>1 DEF Lacks, Has
<1>3. IsPattern(text)
  BY <1>2 DEF IsPattern
<1> QED
  BY <1>3 DEF Parses

\* What a line that Add writes for an address is read as.
LEMMA LineRead ==
  ASSUME NEW a \in Addresses
  PROVE  /\ Unread(a) => ParseAddr(FormatPattern(a)).host \in Brackets
         /\ ~Unread(a) => /\ ParseAddr(FormatPattern(a)) = a
                          /\ \A k : Parses([hosts |-> {FormatPattern(a)}, key |-> k])
<1>1. PICK h, port, text : h = a.host /\ port = a.port /\ text = FormatPattern(a)
  OBVIOUS
<1>2. a = [host |-> h, port |-> port] /\ port \in STRING \ {":", ","}
  BY <1>1, AddressIs
<1>3. h \in Seq(STRING) /\ IsHostName(h) /\ h \in Seq(Chars) /\ h # <<>> /\ Lacks(h, {","})
  BY <1>1, AddressIs, HostChars
<1>4. CASE Unread(a)
  <2>1. text = <<"[">> \o h \o <<"]">> /\ Has(h, ":")
    BY <1>1, <1>4 DEF Unread, FormatPattern
  <2>2. ParseAddr(text) = [host |-> text, port |-> DefaultPort]
    BY <1>3, <2>1, ReadBracketed
  <2> QED
    BY <1>1, <1>4, <2>1, <2>2 DEF Brackets
<1>5. CASE ~Unread(a) /\ port # DefaultPort
  <2>1. PICK tail : tail = <<"]", ":", port>>
    OBVIOUS
  <2>2. text = <<"[">> \o h \o <<"]", ":", port>>
    BY <1>1, <1>5 DEF FormatPattern
  <2>3. ParseAddr(text) = a
    BY <1>2, <1>3, <2>2, ReadWithPort
  <2>4. tail \in Seq(Chars) /\ Lacks(tail, {","})
    <3>0. port \in Chars
      BY <1>2 DEF Chars
    <3>1. tail \in Seq(Chars) /\ Len(tail) = 3 /\ tail[1] = "]" /\ tail[2] = ":" /\ tail[3] = port
      BY <2>1, <3>0, PortTail
    <3>2. tail[1] \notin {","} /\ tail[2] \notin {","} /\ tail[3] \notin {","}
      BY <1>2, <3>1
    <3>3. \A k \in 1 .. 3 : k = 1 \/ k = 2 \/ k = 3
      OBVIOUS
    <3>4. \A k \in 1 .. Len(tail) : tail[k] \notin {","}
      BY <3>1, <3>2, <3>3
    <3> QED
      BY <3>1, <3>4 DEF Lacks
  <2>5. Lacks(text, {","})
    BY <1>3, <2>1, <2>2, <2>4, LacksInBrackets
  <2>6. text \in Seq(Chars) /\ text[1] = "[" /\ Len(text) = Len(h) + 1 + Len(tail)
    BY <1>3, <2>1, <2>2, <2>4, InBrackets
  <2>7. text # <<>>
    <3>1. h \in Seq(Chars) /\ tail \in Seq(Chars)
      BY <1>3, <2>4
    <3>2. Len(h) \in Nat /\ Len(tail) \in Nat
      BY <3>1
    <3> QED
      BY <2>6, <3>2
  <2>8. ParseAddr(text).host # <<>>
    BY <1>1, <1>3, <2>3
  <2>9. \A k : Parses([hosts |-> {text}, key |-> k])
    BY <2>5, <2>6, <2>7, <2>8, LineParses
  <2> QED
    BY <1>1, <1>5, <2>3, <2>9
<1>6. CASE ~Unread(a) /\ port = DefaultPort
  <2>1. ~Has(h, ":") /\ text = h
    BY <1>1, <1>6 DEF Unread, FormatPattern
  <2>2. ParseAddr(h) = a
    BY <1>2, <1>6, <2>1 DEF ParseAddr, Splits
  <2>3. h[1] \notin {"#", "@", "|"} /\ ParseAddr(h).host # <<>>
    BY <1>1, <1>3, <2>2 DEF IsHostName
  <2>4. \A k : Parses([hosts |-> {h}, key |-> k])
    BY <1>3, <2>3, LineParses
  <2> QED
    BY <1>1, <1>6, <2>1, <2>2, <2>4
<1> QED
  BY <1>4, <1>5, <1>6

-----------------------------------------------------------------------------
(* What is shown to hold of every state.                                   *)

CallPlaces == {"new", "asking", "waiting", "adding", "leaving", "done"}
Results == {"none", "accepted", "mismatch", "refused", "failed", "lost"}
Ended == {"leaving", "done"}

HostShape ==
  /\ calls \in [HostCalls -> [at : CallPlaces, addr : Addresses, key : HostKeys, result : Results]]
  /\ waiters \subseteq {c \in HostCalls : calls[c].at \in {"waiting", "adding", "leaving"}}
  /\ replyBuf \in [HostCalls -> {"empty", "trust", "reject"}]
  /\ answers \in [Answers -> [at : {"idle", "sending", "sent", "error"}, id : Nat, action : {"trust", "reject"}]]
  /\ ragged \subseteq hostFile

\* A callback has its result at its end, and none before.
Lasting == \A c \in HostCalls : calls[c].result # "none" => calls[c].at \in Ended

\* Only a request that was made is answered.
Answered ==
  /\ \A c \in HostCalls : replyBuf[c] # "empty" => calls[c].at # "new"
  /\ \A r \in Answers : answers[r].at = "sending" => answers[r].id \in HostCalls /\ calls[answers[r].id].at # "new"

\* The user's trust in the key of a callback, wherever it is on its way, and in every record
\* but those that match no address.
TrustedCall(c) == <<calls[c].addr, calls[c].key>> \in trusted
TrustedEntry(e) == \A p \in e.patterns : <<p, e.key>> \in trusted \/ p.host \in Brackets
TrustOnItsWay ==
  /\ \A c \in HostCalls : calls[c].at = "adding" \/ replyBuf[c] = "trust" => TrustedCall(c)
  /\ \A r \in Answers : answers[r].at = "sending" /\ answers[r].action = "trust" => TrustedCall(answers[r].id)
TrustedEntries == \A e \in entries \cup LoadFromFile(hostFile) : TrustedEntry(e)
AcceptedVouched == \A c \in HostCalls : calls[c].result = "accepted" => Vouched(calls[c].addr, calls[c].key)

\* The records of the file, and those of the lines that were run together.
HeldRecords == LoadFromFile(hostFile) \cup {EntryOf(l) : l \in glued}

\* Why a record is in memory: the file has or had it, or its writing failed, or it was written
\* in a form that is not read back.
FailedRecord(e, d) == calls[d].result = "failed" /\ e = [patterns |-> {calls[d].addr}, key |-> calls[d].key]
Accounted(e) ==
  \/ e \in HeldRecords
  \/ \E d \in HostCalls : FailedRecord(e, d)
  \/ \E b \in Addresses : Unread(b) /\ e.patterns = {b}
HeldFor(c) == \E e \in HeldRecords : e.key = calls[c].key /\ EntryMatches(e, calls[c].addr)
Kept(c) == HeldFor(c) \/ WriteFailed(c)
AcceptedKept == \A c \in HostCalls : calls[c].result = "accepted" /\ ~Unread(calls[c].addr) => Kept(c)

Asked == TrustOnItsWay /\ TrustedEntries /\ AcceptedVouched /\ (\A e \in entries : Accounted(e)) /\ AcceptedKept
HostInv == HostShape /\ Lasting /\ Answered /\ (emitter => Asked)

\* What no step undoes, not even a start.
Grows ==
  /\ emitter' = emitter /\ trusted \subseteq trusted'
  /\ HeldRecords \subseteq HeldRecords'
  /\ \A c \in HostCalls : calls[c].at # "new" =>
       calls'[c].at # "new" /\ calls'[c].addr = calls[c].addr /\ calls'[c].key = calls[c].key
  /\ \A c \in HostCalls : calls[c].result # "none" => calls'[c].result = calls[c].result

LEMMA LoadMore ==
  ASSUME NEW f, NEW l
  PROVE  /\ LoadFromFile(f) \subseteq LoadFromFile(f \cup {l})
         /\ LoadFromFile(f \cup {l}) \subseteq LoadFromFile(f) \cup {EntryOf(l)}
         /\ Parses(l) => EntryOf(l) \in LoadFromFile(f \cup {l})
BY DEF LoadFromFile

\* Adding a line keeps the others, but for the one it is run together with.
LEMMA HeldMore ==
  ASSUME NEW c \in HostCalls, AddOk(c), ragged \subseteq hostFile
  PROVE  /\ HeldRecords \subseteq HeldRecords' /\ ragged' \subseteq hostFile'
         /\ LoadFromFile(hostFile') \subseteq LoadFromFile(hostFile) \cup {EntryOf(LineOf(c))}
         /\ Parses(LineOf(c)) => EntryOf(LineOf(c)) \in HeldRecords'
<1>1. CASE ragged = {}
  <2>1. hostFile' = hostFile \cup {LineOf(c)} /\ ragged' = ragged /\ glued' = glued
    BY <1>1 DEF AddOk
  <2> QED
    BY <1>1, <2>1, LoadMore DEF HeldRecords
<1>2. CASE ragged # {}
  <2>1. hostFile' \in {hostFile, hostFile \ ragged} /\ ragged' = {} /\ glued' = glued \cup ragged \cup {LineOf(c)}
    BY <1>2 DEF AddOk
  <2>2. LoadFromFile(hostFile') \subseteq LoadFromFile(hostFile)
    BY <2>1 DEF LoadFromFile
  <2>3. ASSUME NEW e \in LoadFromFile(hostFile) PROVE e \in HeldRecords'
    <3>1. PICK l \in hostFile : Parses(l) /\ e = EntryOf(l)
      BY <2>3 DEF LoadFromFile
    <3>2. l \in hostFile' \/ l \in glued'
      BY <2>1, <3>1
    <3> QED
      BY <3>1, <3>2 DEF HeldRecords, LoadFromFile
  <2> QED
    BY <2>1, <2>2, <2>3 DEF HeldRecords
<1> QED
  BY <1>1, <1>2

LEMMA LineEntry ==
  ASSUME NEW a, NEW k
  PROVE  EntryOf([hosts |-> {FormatPattern(a)}, key |-> k])
           = [patterns |-> {ParseAddr(FormatPattern(a))}, key |-> k]
BY DEF EntryOf

CallShape == [at : CallPlaces, addr : Addresses, key : HostKeys, result : Results]

LEMMA SetBoth ==
  ASSUME NEW old \in CallShape, NEW at, NEW result
  PROVE  [[old EXCEPT !.at = at] EXCEPT !.result = result]
           = [at |-> at, addr |-> old.addr, key |-> old.key, result |-> result]
<1>1. [old EXCEPT !.at = at] = [at |-> at, addr |-> old.addr, key |-> old.key, result |-> old.result]
  BY DEF CallShape
<1>2. PICK mid : mid = [old EXCEPT !.at = at]
  OBVIOUS
<1>3. mid \in [at : {at}, addr : Addresses, key : HostKeys, result : Results]
  BY <1>1, <1>2 DEF CallShape
<1>4. [mid EXCEPT !.result = result] = [at |-> at, addr |-> mid.addr, key |-> mid.key, result |-> result]
  BY <1>3
<1> QED
  BY <1>1, <1>2, <1>4

\* A callback goes on, and nothing else of the callbacks changes.
LEMMA CallGone ==
  ASSUME HostShape, NEW c \in HostCalls, NEW at \in CallPlaces, NEW result \in Results,
         CallGo(c, at, result)
  PROVE  /\ calls' \in [HostCalls -> CallShape]
         /\ calls'[c].at = at /\ calls'[c].result = result
         /\ \A d \in HostCalls : calls'[d].addr = calls[d].addr /\ calls'[d].key = calls[d].key
         /\ \A d \in HostCalls \ {c} : calls'[d] = calls[d]
<1>1. calls \in [HostCalls -> CallShape]
  BY DEF HostShape, CallShape
<1>2. calls' = [calls EXCEPT ![c] = [[calls[c] EXCEPT !.at = at] EXCEPT !.result = result]]
  BY <1>1 DEF CallGo
<1>3. calls[c] \in CallShape
  BY <1>1
<1>4. [[calls[c] EXCEPT !.at = at] EXCEPT !.result = result]
        = [at |-> at, addr |-> calls[c].addr, key |-> calls[c].key, result |-> result]
  BY <1>3, SetBoth
<1>5. [at |-> at, addr |-> calls[c].addr, key |-> calls[c].key, result |-> result] \in CallShape
  BY <1>3 DEF CallShape
<1> QED
  BY <1>1, <1>2, <1>4, <1>5

\* What the lookup does to the callbacks.
LookedUp(c, a, k, at, result) ==
  /\ calls[c].at = "new"
  /\ calls' \in [HostCalls -> CallShape]
  /\ calls'[c] = [addr |-> a, key |-> k, result |-> result, at |-> at]
  /\ \A d \in HostCalls \ {c} : calls'[d] = calls[d]
  /\ \/ at = "done" /\ result = "accepted" /\ \E e \in Matching(a) : e.key = k
     \/ at = "done" /\ result = "mismatch"
     \/ at = "asking" /\ result = "none"
     \/ at = "adding" /\ result = "none" /\ ~emitter
LEMMA LookupGone ==
  ASSUME HostShape, NEW c \in HostCalls, HostLookup(c)
  PROVE  \E a \in Addresses, k \in HostKeys, at \in CallPlaces, result \in Results :
           LookedUp(c, a, k, at, result)
<1>1. calls \in [HostCalls -> CallShape]
  BY DEF HostShape, CallShape
<1>2. PICK a \in Addresses, k \in HostKeys :
        /\ calls[c].at = "new"
        /\ calls' = [calls EXCEPT ![c] =
             [addr |-> a, key |-> k,
              result |-> IF Verdict(a, k) \in {"ask", "record"} THEN "none" ELSE Verdict(a, k),
              at |-> CASE Verdict(a, k) = "ask" -> "asking" [] Verdict(a, k) = "record" -> "adding" [] OTHER -> "done"]]
  BY DEF HostLookup
<1>3. \E at \in CallPlaces, result \in Results :
        /\ calls' = [calls EXCEPT ![c] = [addr |-> a, key |-> k, result |-> result, at |-> at]]
        /\ \/ at = "done" /\ result = "accepted" /\ \E e \in Matching(a) : e.key = k
           \/ at = "done" /\ result = "mismatch"
           \/ at = "asking" /\ result = "none"
           \/ at = "adding" /\ result = "none" /\ ~emitter
  <2>1. CASE Verdict(a, k) = "accepted" /\ \E e \in Matching(a) : e.key = k
    BY <1>2, <2>1 DEF CallPlaces, Results
  <2>2. CASE Verdict(a, k) = "mismatch"
    BY <1>2, <2>2 DEF CallPlaces, Results
  <2>3. CASE Verdict(a, k) = "ask"
    BY <1>2, <2>3 DEF CallPlaces, Results
  <2>4. CASE Verdict(a, k) = "record" /\ ~emitter
    BY <1>2, <2>4 DEF CallPlaces, Results
  <2> QED
    BY <2>1, <2>2, <2>3, <2>4 DEF Verdict
<1> QED
  BY <1>1, <1>2, <1>3 DEF CallShape, LookedUp

LEMMA ShapeStart == ASSUME HostInit PROVE HostShape /\ Lasting /\ Answered
<1>1. Addresses # {} /\ HostKeys # {}
  BY HostAssumption DEF Addresses
<1>2. AnyKey \in HostKeys /\ (CHOOSE a \in Addresses : TRUE) \in Addresses
  BY <1>1 DEF AnyKey
<1>3. Nowhere \in CallShape /\ Nowhere.at = "new" /\ Nowhere.result = "none"
  BY <1>2 DEF Nowhere, CallShape, CallPlaces, Results
<1>4. calls \in [HostCalls -> CallShape] /\ \A c \in HostCalls : calls[c].result = "none"
  BY <1>3 DEF HostInit
<1>5. answers \in [Answers -> [at : {"idle", "sending", "sent", "error"}, id : Nat, action : {"trust", "reject"}]]
  BY DEF HostInit, Unsaid
<1>6. \A r \in Answers : answers[r].at = "idle"
  BY DEF HostInit, Unsaid
<1>7. waiters = {} /\ replyBuf = [c \in HostCalls |-> "empty"] /\ ragged \subseteq hostFile
  BY DEF HostInit
<1>8. replyBuf \in [HostCalls -> {"empty", "trust", "reject"}] /\ \A c \in HostCalls : replyBuf[c] = "empty"
  BY <1>7
<1> QED
  BY <1>4, <1>5, <1>6, <1>7, <1>8 DEF HostShape, CallShape, Lasting, Answered

\* A step of a callback, as far as the shape of the state goes.
LEMMA CallMoved ==
  ASSUME HostShape, Lasting, Answered,
         NEW c \in HostCalls, NEW at \in CallPlaces \ {"new"}, NEW result \in Results,
         CallGo(c, at, result), calls[c].at # "new",
         result # "none" => at \in Ended, calls[c].result # "none" => result = calls[c].result,
         answers' = answers, replyBuf' \in [HostCalls -> {"empty", "trust", "reject"}],
         \A d \in HostCalls : replyBuf'[d] # "empty" => replyBuf[d] # "empty",
         waiters' \subseteq {d \in HostCalls : calls'[d].at \in {"waiting", "adding", "leaving"}},
         emitter' = emitter, trusted' = trusted, ragged' \subseteq hostFile', HeldRecords \subseteq HeldRecords'
  PROVE  HostShape' /\ Lasting' /\ Answered' /\ Grows
<1>1. /\ calls' \in [HostCalls -> CallShape]
      /\ calls'[c].at = at /\ calls'[c].result = result
      /\ \A d \in HostCalls : calls'[d].addr = calls[d].addr /\ calls'[d].key = calls[d].key
      /\ \A d \in HostCalls \ {c} : calls'[d] = calls[d]
  BY CallGone
<1>2. HostShape'
  BY <1>1 DEF HostShape, CallShape
<1>3. Lasting'
  BY <1>1 DEF Lasting
<1>4. \A d \in HostCalls : calls[d].at # "new" => calls'[d].at # "new"
  BY <1>1
<1>5. Answered'
  BY <1>4 DEF Answered
<1>6. Grows
  BY <1>1, <1>4 DEF Grows
<1> QED
  BY <1>2, <1>3, <1>5, <1>6

LEMMA CallStepShape ==
  ASSUME HostShape, Lasting, Answered, NEW c \in HostCalls, CallStep(c)
  PROVE  HostShape' /\ Lasting' /\ Answered' /\ Grows
<1>0. calls[c].at \notin Ended => calls[c].result = "none"
  BY DEF Lasting
<1>1. replyBuf \in [HostCalls -> {"empty", "trust", "reject"}] /\ calls[c] \in CallShape
  BY DEF HostShape, CallShape
<1>2. ragged \subseteq hostFile /\ (UNCHANGED fileVars => ragged' \subseteq hostFile' /\ HeldRecords \subseteq HeldRecords')
  BY DEF HostShape, fileVars, HeldRecords
<1>3. ASSUME NEW at \in CallPlaces \ {"new"}, NEW result \in Results, CallGo(c, at, result)
      PROVE  /\ \A d \in HostCalls \ {c} : calls'[d] = calls[d]
             /\ calls'[c].at = at
  BY <1>3, CallGone
<1>4. waiters \subseteq {d \in HostCalls : calls[d].at \in {"waiting", "adding", "leaving"}}
  BY DEF HostShape
<1>5. {"waiting", "adding", "leaving", "done"} \subseteq CallPlaces \ {"new"}
      /\ {"none", "accepted", "refused", "failed"} \subseteq Results /\ {"leaving", "done"} \subseteq Ended
      /\ "asking" \notin Ended /\ "waiting" \notin Ended /\ "adding" \notin Ended
  BY DEF CallPlaces, Results, Ended
<1>6. CASE Ask(c)
  <2>1. CallGo(c, "waiting", "none") /\ calls[c].at = "asking" /\ waiters' = waiters \cup {c}
        /\ UNCHANGED <<fileVars, emitter, replyBuf, answers, trusted>>
    BY <1>6 DEF Ask
  <2>2. waiters' \subseteq {d \in HostCalls : calls'[d].at \in {"waiting", "adding", "leaving"}}
    BY <1>3, <1>4, <1>5, <2>1
  <2> QED
    BY <1>0, <1>1, <1>2, <1>5, <2>1, <2>2, CallMoved
<1>7. CASE TakeReply(c)
  <2>1. /\ calls[c].at = "waiting" /\ waiters' = waiters
        /\ replyBuf' = [replyBuf EXCEPT ![c] = "empty"]
        /\ CallGo(c, "adding", "none") \/ CallGo(c, "leaving", "refused")
        /\ UNCHANGED <<fileVars, emitter, answers, trusted>>
    BY <1>7 DEF TakeReply
  <2>2. waiters' \subseteq {d \in HostCalls : calls'[d].at \in {"waiting", "adding", "leaving"}}
    BY <1>3, <1>4, <1>5, <2>1
  <2>3. /\ replyBuf' \in [HostCalls -> {"empty", "trust", "reject"}]
        /\ \A d \in HostCalls : replyBuf'[d] # "empty" => replyBuf[d] # "empty"
    BY <1>1, <2>1
  <2>4. CASE CallGo(c, "adding", "none")
    BY <1>0, <1>1, <1>2, <1>5, <2>1, <2>2, <2>3, <2>4, CallMoved
  <2>5. CASE CallGo(c, "leaving", "refused")
    BY <1>0, <1>1, <1>2, <1>5, <2>1, <2>2, <2>3, <2>5, CallMoved
  <2> QED
    BY <2>1, <2>4, <2>5
<1>8. CASE TrustTimeout(c)
  <2>1. CallGo(c, "leaving", "refused") /\ calls[c].at = "waiting" /\ waiters' = waiters
        /\ UNCHANGED <<fileVars, emitter, replyBuf, answers, trusted>>
    BY <1>8 DEF TrustTimeout
  <2>2. waiters' \subseteq {d \in HostCalls : calls'[d].at \in {"waiting", "adding", "leaving"}}
    BY <1>3, <1>4, <1>5, <2>1
  <2> QED
    BY <1>0, <1>1, <1>2, <1>5, <2>1, <2>2, CallMoved
<1>9. CASE AddOk(c)
  <2>1. CallGo(c, "leaving", "accepted") /\ calls[c].at = "adding" /\ waiters' = waiters
        /\ UNCHANGED <<emitter, replyBuf, answers, trusted>>
    BY <1>9 DEF AddOk
  <2>2. waiters' \subseteq {d \in HostCalls : calls'[d].at \in {"waiting", "adding", "leaving"}}
    BY <1>3, <1>4, <1>5, <2>1
  <2>3. ragged' \subseteq hostFile' /\ HeldRecords \subseteq HeldRecords'
    BY <1>2, <1>9, HeldMore
  <2> QED
    BY <1>0, <1>1, <1>2, <1>5, <2>1, <2>2, <2>3, CallMoved
<1>10. CASE AddFails(c)
  <2>1. CallGo(c, "leaving", "failed") \/ CallGo(c, "leaving", "accepted")
    BY <1>10 DEF AddFails
  <2>2. calls[c].at = "adding" /\ waiters' = waiters
        /\ UNCHANGED <<fileVars, emitter, replyBuf, answers, trusted>>
    BY <1>10 DEF AddFails
  <2>3. waiters' \subseteq {d \in HostCalls : calls'[d].at \in {"waiting", "adding", "leaving"}}
    BY <1>3, <1>4, <1>5, <2>1, <2>2
  <2>4. CASE CallGo(c, "leaving", "failed")
    BY <1>0, <1>1, <1>2, <1>5, <2>2, <2>3, <2>4, CallMoved
  <2>5. CASE CallGo(c, "leaving", "accepted")
    BY <1>0, <1>1, <1>2, <1>5, <2>2, <2>3, <2>5, CallMoved
  <2> QED
    BY <2>1, <2>4, <2>5
<1>11. CASE Leave(c)
  <2>1. CallGo(c, "done", calls[c].result) /\ calls[c].at = "leaving" /\ waiters' = waiters \ {c}
        /\ UNCHANGED <<fileVars, emitter, replyBuf, answers, trusted>>
    BY <1>11 DEF Leave
  <2>2. calls[c].result \in Results
    BY <1>1 DEF CallShape
  <2>3. waiters' \subseteq {d \in HostCalls : calls'[d].at \in {"waiting", "adding", "leaving"}}
    BY <1>3, <1>4, <1>5, <2>1, <2>2
  <2> QED
    BY <1>0, <1>1, <1>2, <1>5, <2>1, <2>2, <2>3, CallMoved
<1> QED
  BY <1>6, <1>7, <1>8, <1>9, <1>10, <1>11 DEF CallStep

LEMMA LookupShape ==
  ASSUME HostShape, Lasting, Answered, NEW c \in HostCalls, HostLookup(c)
  PROVE  HostShape' /\ Lasting' /\ Answered' /\ Grows
<1>1. PICK a \in Addresses, k \in HostKeys, at \in CallPlaces, result \in Results :
        LookedUp(c, a, k, at, result)
  BY LookupGone
<1>2. UNCHANGED <<fileVars, entries, emitter, waiters, replyBuf, answers, trusted>>
  BY DEF HostLookup
<1>f. UNCHANGED <<hostFile, ragged, glued>> /\ HeldRecords' = HeldRecords
  BY <1>2 DEF fileVars, HeldRecords
<1>3. c \notin waiters /\ calls[c].result = "none"
  BY <1>1 DEF HostShape, Lasting, Ended, LookedUp
<1>4. HostShape'
  BY <1>1, <1>2, <1>f, <1>3 DEF HostShape, CallShape, LookedUp
<1>5. calls'[c].at = at /\ calls'[c].result = result /\ at # "new" /\ (result # "none" => at \in Ended)
  BY <1>1 DEF Ended, LookedUp
<1>6. Lasting'
  BY <1>1, <1>5 DEF Lasting, LookedUp
<1>7. \A d \in HostCalls : calls[d].at # "new" => calls'[d] = calls[d] /\ d # c
  BY <1>1 DEF LookedUp
<1>8. Answered'
  BY <1>2, <1>7 DEF Answered
<1>9. \A d \in HostCalls : calls[d].result # "none" => calls'[d] = calls[d]
  BY <1>1, <1>3 DEF LookedUp
<1>10. Grows
  BY <1>2, <1>f, <1>7, <1>9 DEF Grows
<1> QED
  BY <1>4, <1>6, <1>8, <1>10

AnswerShape == [at : {"idle", "sending", "sent", "error"}, id : Nat, action : {"trust", "reject"}]

LEMMA ReplyShape ==
  ASSUME HostShape, Lasting, Answered, NEW r \in Answers, Reply(r) \/ AnswerStep(r)
  PROVE  HostShape' /\ Lasting' /\ Answered' /\ Grows
<1>1. answers \in [Answers -> AnswerShape] /\ answers[r] \in AnswerShape
      /\ replyBuf \in [HostCalls -> {"empty", "trust", "reject"}]
  BY DEF HostShape, AnswerShape
<1>2. UNCHANGED <<fileVars, emitter, calls, waiters>> /\ trusted \subseteq trusted'
  BY DEF Reply, AnswerStep, ReplySend, ReplyGivesUp
<1>f. UNCHANGED <<hostFile, ragged, glued>> /\ HeldRecords' = HeldRecords
  BY <1>2 DEF fileVars, HeldRecords
<1>3. Lasting' /\ Grows
  BY <1>2, <1>f DEF Lasting, Grows
<1>4. CASE Reply(r)
  <2>1. PICK c \in HostCalls, action \in {"trust", "reject"} :
          /\ Shown(c)
          /\ answers' = [answers EXCEPT ![r] = [at |-> IF c \in waiters THEN "sending" ELSE "error", id |-> c, action |-> action]]
    BY <1>4 DEF Reply
  <2>2. calls[c].at # "new" /\ c \in Nat
    BY <2>1 DEF Shown, HostCalls
  <2>3. PICK new \in AnswerShape : new.id = c /\ answers' = [answers EXCEPT ![r] = new]
    <3>1. PICK to \in {"sending", "error"} : to = IF c \in waiters THEN "sending" ELSE "error"
      OBVIOUS
    <3>2. [at |-> to, id |-> c, action |-> action] \in AnswerShape
      BY <2>2 DEF AnswerShape
    <3>3. [at |-> to, id |-> c, action |-> action].id = c
      OBVIOUS
    <3> QED
      BY <2>1, <3>1, <3>2, <3>3
  <2>4. answers' \in [Answers -> AnswerShape] /\ replyBuf' = replyBuf
    BY <1>1, <1>4, <2>3 DEF Reply
  <2>5. HostShape'
    BY <1>2, <1>f, <2>4 DEF HostShape, AnswerShape
  <2>6. \A q \in Answers : answers'[q].at = "sending" =>
          answers'[q].id = c \/ (answers'[q] = answers[q])
    BY <1>1, <2>3
  <2>7. Answered'
    BY <1>2, <2>2, <2>4, <2>6 DEF Answered
  <2> QED
    BY <1>3, <2>5, <2>7
<1>5. CASE AnswerStep(r)
  <2>1. PICK to \in {"sent", "error"} : answers' = [answers EXCEPT ![r].at = to]
    BY <1>5 DEF AnswerStep, ReplySend, ReplyGivesUp
  <2>2. answers' \in [Answers -> AnswerShape] /\ \A q \in Answers : answers'[q].at = "sending" => answers'[q] = answers[q]
    <3>1. [answers[r] EXCEPT !.at = to] \in AnswerShape /\ [answers[r] EXCEPT !.at = to].at = to
      BY <1>1 DEF AnswerShape
    <3> QED
      BY <1>1, <2>1, <3>1
  <2>3. answers[r].at = "sending" /\ answers[r].id \in HostCalls
    BY <1>5 DEF AnswerStep, ReplySend, ReplyGivesUp, Answered
  <2>4. /\ replyBuf' \in [HostCalls -> {"empty", "trust", "reject"}]
        /\ \A d \in HostCalls : replyBuf'[d] # "empty" => replyBuf[d] # "empty" \/ d = answers[r].id
    BY <1>1, <1>5, <2>3 DEF AnswerStep, ReplySend, ReplyGivesUp, AnswerShape
  <2>5. HostShape'
    BY <1>2, <1>f, <2>2, <2>4 DEF HostShape, AnswerShape
  <2>6. Answered'
    BY <1>2, <2>2, <2>3, <2>4 DEF Answered
  <2> QED
    BY <1>3, <2>5, <2>6
<1> QED
  BY <1>4, <1>5

LEMMA RestartIs ==
  ASSUME HostShape, Answered, HostRestart
  PROVE  /\ UNCHANGED <<fileVars, emitter, trusted>> /\ entries' = LoadFromFile(hostFile)
         /\ waiters' = {} /\ replyBuf' = [c \in HostCalls |-> "empty"]
         /\ calls' \in [HostCalls -> CallShape] /\ answers' \in [Answers -> AnswerShape]
         /\ \A r \in Answers : answers'[r].at # "sending"
         /\ \A c \in HostCalls : calls'[c].addr = calls[c].addr /\ calls'[c].key = calls[c].key
         /\ \A c \in HostCalls : IF calls[c].at = "new" THEN calls'[c] = calls[c]
              ELSE calls'[c].at = "done" /\ calls'[c].result = IF calls[c].result = "none" THEN "lost" ELSE calls[c].result
<1>1. calls \in [HostCalls -> CallShape] /\ answers \in [Answers -> AnswerShape]
  BY DEF HostShape, CallShape, AnswerShape
<1>2. ASSUME NEW c \in HostCalls
      PROVE  /\ calls'[c] \in CallShape /\ calls'[c].addr = calls[c].addr /\ calls'[c].key = calls[c].key
             /\ IF calls[c].at = "new" THEN calls'[c] = calls[c]
                ELSE calls'[c].at = "done" /\ calls'[c].result = IF calls[c].result = "none" THEN "lost" ELSE calls[c].result
  <2>1. calls'[c] = IF calls[c].at = "new" THEN calls[c] ELSE
          [[calls[c] EXCEPT !.at = "done"] EXCEPT !.result = IF calls[c].result = "none" THEN "lost" ELSE calls[c].result]
    <3>1. calls[c] \in CallShape
      BY <1>1
    <3>2. [calls[c] EXCEPT !.at = "done"].result = calls[c].result
      BY <3>1 DEF CallShape
    <3> QED
      BY <3>2 DEF HostRestart
  <2>2. PICK last : last = IF calls[c].result = "none" THEN "lost" ELSE calls[c].result
    OBVIOUS
  <2>3. calls[c] \in CallShape /\ last \in Results
    BY <1>1, <2>2 DEF CallShape, Results
  <2>4. [[calls[c] EXCEPT !.at = "done"] EXCEPT !.result = last]
          = [at |-> "done", addr |-> calls[c].addr, key |-> calls[c].key, result |-> last]
    BY <2>3, SetBoth
  <2>5. calls'[c] = IF calls[c].at = "new" THEN calls[c] ELSE
          [at |-> "done", addr |-> calls[c].addr, key |-> calls[c].key, result |-> last]
    BY <2>1, <2>2, <2>4
  <2>6. [at |-> "done", addr |-> calls[c].addr, key |-> calls[c].key, result |-> last] \in CallShape
    BY <2>3 DEF CallShape, CallPlaces
  <2> QED
    BY <2>2, <2>3, <2>5, <2>6
<1>3. ASSUME NEW r \in Answers PROVE answers'[r] \in AnswerShape /\ answers'[r].at # "sending"
  <2>1. answers'[r] = IF answers[r].at = "sending" THEN [answers[r] EXCEPT !.at = "error"] ELSE answers[r]
    BY DEF HostRestart
  <2> QED
    BY <1>1, <2>1 DEF AnswerShape
<1>4. /\ UNCHANGED <<fileVars, emitter, trusted>> /\ entries' = LoadFromFile(hostFile)
      /\ waiters' = {} /\ replyBuf' = [c \in HostCalls |-> "empty"]
      /\ DOMAIN calls' = HostCalls /\ DOMAIN answers' = Answers
  BY DEF HostRestart
<1>5. calls' = [c \in HostCalls |-> calls'[c]] /\ answers' = [r \in Answers |-> answers'[r]]
  BY DEF HostRestart
<1>6. calls' \in [HostCalls -> CallShape] /\ answers' \in [Answers -> AnswerShape]
  BY <1>2, <1>3, <1>5
<1> QED
  BY <1>2, <1>3, <1>4, <1>6

LEMMA RestartShape ==
  ASSUME HostShape, Lasting, Answered, HostRestart
  PROVE  HostShape' /\ Lasting' /\ Answered' /\ Grows
<1>1. \A c \in HostCalls : calls[c].result # "none" => calls[c].at # "new" /\ calls'[c].result = calls[c].result
  BY RestartIs DEF Lasting, Ended
<1>2. \A c \in HostCalls : calls[c].at # "new" => calls'[c].at = "done"
  BY RestartIs
<1>3. replyBuf' \in [HostCalls -> {"empty", "trust", "reject"}] /\ \A c \in HostCalls : replyBuf'[c] = "empty"
  BY RestartIs
<1>f. UNCHANGED <<hostFile, ragged, glued>> /\ HeldRecords' = HeldRecords
  BY RestartIs DEF fileVars, HeldRecords
<1>4. HostShape'
  BY <1>3, <1>f, RestartIs DEF HostShape, CallShape, AnswerShape
<1>5. Lasting'
  BY RestartIs DEF Lasting, Ended
<1>6. Answered'
  BY <1>3, RestartIs DEF Answered
<1>7. Grows
  BY <1>1, <1>2, <1>f, RestartIs DEF Grows
<1> QED
  BY <1>4, <1>5, <1>6, <1>7

LEMMA ShapeStep ==
  ASSUME HostShape, Lasting, Answered, [HostNext]_hostVars
  PROVE  HostShape' /\ Lasting' /\ Answered' /\ Grows
<1>1. CASE UNCHANGED hostVars
  BY <1>1 DEF hostVars, fileVars, HeldRecords, HostShape, Lasting, Answered, Grows
<1> QED
  BY <1>1, CallStepShape, LookupShape, ReplyShape, RestartShape DEF HostNext

\* Where the trust of a step comes from.
TrustMoves ==
  /\ \A c \in HostCalls : calls'[c].at = "adding" => calls[c].at = "adding" \/ replyBuf[c] = "trust"
  /\ \A c \in HostCalls : replyBuf'[c] = "trust" => replyBuf[c] = "trust"
       \/ \E r \in Answers : answers[r].at = "sending" /\ answers[r].action = "trust" /\ answers[r].id = c
  /\ \A r \in Answers : answers'[r].at = "sending" /\ answers'[r].action = "trust" =>
       answers'[r] = answers[r] \/ <<calls'[answers'[r].id].addr, calls'[answers'[r].id].key>> \in trusted'

LEMMA CallTrustMoves ==
  ASSUME HostShape, NEW c \in HostCalls, CallStep(c)
  PROVE  TrustMoves
<1>1. replyBuf \in [HostCalls -> {"empty", "trust", "reject"}]
  BY DEF HostShape
<1>2. answers' = answers /\ \A d \in HostCalls : replyBuf'[d] = "trust" => replyBuf[d] = "trust"
  BY <1>1 DEF CallStep, Ask, TakeReply, TrustTimeout, AddOk, AddFails, Leave
<1>3. calls[c].result \in Results
  BY DEF HostShape
<1>4. PICK at \in CallPlaces, result \in Results :
        CallGo(c, at, result) /\ (at = "adding" => replyBuf[c] = "trust")
  <2>1. {"waiting", "adding", "leaving", "done"} \subseteq CallPlaces
        /\ {"none", "accepted", "refused", "failed"} \subseteq Results
    BY DEF CallPlaces, Results
  <2>2. CASE Ask(c)
    BY <2>1, <2>2 DEF Ask
  <2>3. CASE TakeReply(c)
    <3>1. CASE replyBuf[c] = "trust" /\ CallGo(c, "adding", "none")
      BY <2>1, <3>1
    <3>2. CASE CallGo(c, "leaving", "refused")
      BY <2>1, <3>2
    <3> QED
      BY <2>3, <3>1, <3>2 DEF TakeReply
  <2>4. CASE CallGo(c, "leaving", "refused") \/ CallGo(c, "leaving", "accepted") \/ CallGo(c, "leaving", "failed")
    BY <2>1, <2>4
  <2>5. CASE CallGo(c, "done", calls[c].result)
    BY <1>3, <2>1, <2>5
  <2>6. TrustTimeout(c) \/ AddOk(c) \/ AddFails(c) =>
          CallGo(c, "leaving", "refused") \/ CallGo(c, "leaving", "accepted") \/ CallGo(c, "leaving", "failed")
    BY DEF TrustTimeout, AddOk, AddFails
  <2>7. Leave(c) => CallGo(c, "done", calls[c].result)
    BY DEF Leave
  <2> QED
    BY <2>2, <2>3, <2>4, <2>5, <2>6, <2>7 DEF CallStep
<1>5. calls'[c].at = at /\ \A d \in HostCalls \ {c} : calls'[d] = calls[d]
  BY <1>4, CallGone
<1>6. \A d \in HostCalls : calls'[d].at = "adding" => calls[d].at = "adding" \/ replyBuf[d] = "trust"
  BY <1>4, <1>5
<1> QED
  BY <1>2, <1>6 DEF TrustMoves

LEMMA ReplyTrustMoves ==
  ASSUME HostShape, Answered, NEW r \in Answers, Reply(r) \/ AnswerStep(r)
  PROVE  TrustMoves
<1>1. answers \in [Answers -> AnswerShape] /\ answers[r] \in AnswerShape
      /\ replyBuf \in [HostCalls -> {"empty", "trust", "reject"}]
  BY DEF HostShape, AnswerShape
<1>2. calls' = calls
  BY DEF Reply, AnswerStep, ReplySend, ReplyGivesUp
<1>3. CASE Reply(r)
  <2>1. PICK c \in HostCalls, action \in {"trust", "reject"} :
          /\ answers' = [answers EXCEPT ![r] = [at |-> IF c \in waiters THEN "sending" ELSE "error", id |-> c, action |-> action]]
          /\ trusted' = IF action = "trust" THEN trusted \cup {<<calls[c].addr, calls[c].key>>} ELSE trusted
    BY <1>3 DEF Reply
  <2>2. replyBuf' = replyBuf
    BY <1>3 DEF Reply
  <2>3. answers'[r].id = c /\ answers'[r].action = action /\ \A q \in Answers \ {r} : answers'[q] = answers[q]
    BY <1>1, <2>1
  <2>4. action = "trust" => <<calls'[c].addr, calls'[c].key>> \in trusted'
    BY <1>2, <2>1
  <2> QED
    BY <1>2, <2>2, <2>3, <2>4 DEF TrustMoves
<1>4. CASE AnswerStep(r)
  <2>1. PICK to \in {"sent", "error"} : answers' = [answers EXCEPT ![r].at = to]
    BY <1>4 DEF AnswerStep, ReplySend, ReplyGivesUp
  <2>2. \A q \in Answers : answers'[q].at = "sending" => answers'[q] = answers[q]
    <3>1. [answers[r] EXCEPT !.at = to].at = to
      BY <1>1 DEF AnswerShape
    <3> QED
      BY <1>1, <2>1, <3>1
  <2>3. \A d \in HostCalls : replyBuf'[d] = "trust" => replyBuf[d] = "trust"
          \/ (answers[r].at = "sending" /\ answers[r].action = "trust" /\ answers[r].id = d)
    <3>1. CASE ReplySend(r)
      BY <1>1, <3>1 DEF ReplySend
    <3>2. CASE ReplyGivesUp(r)
      BY <1>1, <3>2 DEF ReplyGivesUp
    <3> QED
      BY <1>4, <3>1, <3>2 DEF AnswerStep
  <2> QED
    BY <1>2, <2>2, <2>3 DEF TrustMoves
<1> QED
  BY <1>3, <1>4

LEMMA StepTrustMoves ==
  ASSUME HostShape, Answered, emitter, [HostNext]_hostVars
  PROVE  TrustMoves
<1>1. CASE UNCHANGED hostVars
  BY <1>1 DEF hostVars, TrustMoves
<1>2. ASSUME NEW c \in HostCalls, HostLookup(c) PROVE TrustMoves
  <2>1. \A d \in HostCalls : calls'[d].at = "adding" => calls[d].at = "adding"
    <3>1. PICK a \in Addresses, k \in HostKeys, at \in CallPlaces, result \in Results :
            LookedUp(c, a, k, at, result)
      BY <1>2, LookupGone
    <3>2. calls'[c].at # "adding"
      BY <3>1 DEF LookedUp
    <3> QED
      BY <3>1, <3>2 DEF LookedUp
  <2>2. answers' = answers /\ replyBuf' = replyBuf
    BY <1>2 DEF HostLookup
  <2> QED
    BY <2>1, <2>2 DEF TrustMoves
<1>3. CASE HostRestart
  <2>1. /\ \A c \in HostCalls : calls'[c].at = "adding" => calls[c].at = "adding"
        /\ (\A c \in HostCalls : replyBuf'[c] = "empty") /\ \A r \in Answers : answers'[r].at # "sending"
    BY <1>3, RestartIs
  <2> QED
    BY <2>1 DEF TrustMoves
<1> QED
  BY <1>1, <1>2, <1>3, CallTrustMoves, ReplyTrustMoves DEF HostNext

LEMMA TrustOnItsWayStep ==
  ASSUME HostShape, Lasting, Answered, TrustOnItsWay, emitter, [HostNext]_hostVars
  PROVE  TrustOnItsWay'
<1>1. Grows /\ TrustMoves /\ HostShape'
  BY ShapeStep, StepTrustMoves
<1>2. ASSUME NEW c \in HostCalls, calls[c].at # "new", TrustedCall(c)
      PROVE  <<calls'[c].addr, calls'[c].key>> \in trusted'
  BY <1>1, <1>2 DEF Grows, TrustedCall
<1>3. ASSUME NEW c \in HostCalls, calls'[c].at = "adding" \/ replyBuf'[c] = "trust"
      PROVE  <<calls'[c].addr, calls'[c].key>> \in trusted'
  <2>1. TrustedCall(c) /\ calls[c].at # "new"
    <3>1. CASE calls[c].at = "adding" \/ replyBuf[c] = "trust"
      BY <3>1 DEF TrustOnItsWay, Answered
    <3>2. CASE \E r \in Answers : answers[r].at = "sending" /\ answers[r].action = "trust" /\ answers[r].id = c
      BY <3>2 DEF TrustOnItsWay, Answered
    <3> QED
      BY <1>1, <1>3, <3>1, <3>2 DEF TrustMoves
  <2> QED
    BY <1>2, <2>1
<1>4. ASSUME NEW r \in Answers, answers'[r].at = "sending", answers'[r].action = "trust"
      PROVE  <<calls'[answers'[r].id].addr, calls'[answers'[r].id].key>> \in trusted'
  <2>1. CASE answers'[r] = answers[r]
    <3>1. answers[r].id \in HostCalls /\ calls[answers[r].id].at # "new" /\ TrustedCall(answers[r].id)
      BY <1>4, <2>1 DEF Answered, TrustOnItsWay
    <3> QED
      BY <1>2, <2>1, <3>1
  <2> QED
    BY <1>1, <1>4, <2>1 DEF TrustMoves
<1> QED
  BY <1>3, <1>4 DEF TrustOnItsWay, TrustedCall

-----------------------------------------------------------------------------
(* The records, and why a callback accepts.                                *)

\* The record that Add makes of a callback, and what the line for it is read as.
Record(c) == [patterns |-> {calls[c].addr}, key |-> calls[c].key]
LineRecord(c) == [patterns |-> {ParseAddr(FormatPattern(calls[c].addr))}, key |-> calls[c].key]

\* Every step by what becomes of the records and of the results.
Added(c) ==
  /\ calls[c].at = "adding" /\ calls[c].result = "none" /\ entries' = entries \cup {Record(c)}
  /\ \A d \in HostCalls \ {c} : calls'[d] = calls[d]
  /\ \/ calls'[c].result = "accepted" /\ (~Unread(calls[c].addr) => LineRecord(c) \in HeldRecords')
        /\ LoadFromFile(hostFile') \subseteq LoadFromFile(hostFile) \cup {LineRecord(c)}
     \/ calls'[c].result = "failed" /\ hostFile' = hostFile
Accepts(c) ==
  /\ entries' = entries /\ hostFile' = hostFile /\ calls'[c].addr \in Addresses
  /\ \A d \in HostCalls \ {c} : calls'[d] = calls[d]
  /\ \E e \in entries : EntryMatches(e, calls'[c].addr) /\ e.key = calls'[c].key
NoneAccepted ==
  /\ hostFile' = hostFile /\ entries' \in {entries, LoadFromFile(hostFile)}
  /\ \A c \in HostCalls : calls'[c].result = "accepted" => calls[c].result = "accepted"

LEMMA AddedIs ==
  ASSUME HostShape, Lasting, emitter, NEW c \in HostCalls, AddOk(c) \/ AddFails(c)
  PROVE  Added(c)
<1>1. calls[c].at = "adding" /\ entries' = entries \cup {Record(c)} /\ calls[c].result = "none"
  BY DEF AddOk, AddFails, Remember, Record, Lasting, Ended
<1>2. "leaving" \in CallPlaces /\ "accepted" \in Results /\ "failed" \in Results /\ calls[c].addr \in Addresses
  BY DEF CallPlaces, Results, HostShape
<1>3. CASE AddOk(c)
  <2>1. CallGo(c, "leaving", "accepted")
    BY <1>3 DEF AddOk
  <2>2. EntryOf(LineOf(c)) = LineRecord(c) /\ (~Unread(calls[c].addr) => Parses(LineOf(c)))
    BY <1>2, LineEntry, LineRead DEF LineRecord, LineOf
  <2>3. /\ LoadFromFile(hostFile') \subseteq LoadFromFile(hostFile) \cup {LineRecord(c)}
        /\ ~Unread(calls[c].addr) => LineRecord(c) \in HeldRecords'
    BY <1>3, <2>2, HeldMore DEF HostShape
  <2>4. calls'[c].result = "accepted" /\ \A d \in HostCalls \ {c} : calls'[d] = calls[d]
    BY <1>2, <2>1, CallGone
  <2> QED
    BY <1>1, <2>3, <2>4 DEF Added
<1>4. CASE AddFails(c)
  <2>1. CallGo(c, "leaving", "failed") /\ hostFile' = hostFile
    BY <1>4 DEF AddFails, fileVars
  <2>2. calls'[c].result = "failed" /\ \A d \in HostCalls \ {c} : calls'[d] = calls[d]
    BY <1>2, <2>1, CallGone
  <2> QED
    BY <1>1, <2>1, <2>2 DEF Added
<1> QED
  BY <1>3, <1>4

LEMMA NoneAcceptedBy ==
  ASSUME HostShape, Lasting, NEW c \in HostCalls, Ask(c) \/ TakeReply(c) \/ TrustTimeout(c) \/ Leave(c)
  PROVE  NoneAccepted
<1>1. hostFile' = hostFile /\ entries' = entries /\ calls[c].result \in Results
  BY DEF Ask, TakeReply, TrustTimeout, Leave, HostShape, fileVars
<1>2. {"waiting", "adding", "leaving", "done"} \subseteq CallPlaces /\ {"none", "refused"} \subseteq Results
  BY DEF CallPlaces, Results
<1>3. PICK at \in CallPlaces, result \in Results : CallGo(c, at, result) /\ result \in {"none", "refused", calls[c].result}
  BY <1>1, <1>2 DEF Ask, TakeReply, TrustTimeout, Leave
<1>4. calls'[c].result = result /\ \A d \in HostCalls \ {c} : calls'[d] = calls[d]
  BY <1>3, CallGone
<1>5. \A d \in HostCalls : calls'[d].result = "accepted" => calls[d].result = "accepted"
  BY <1>3, <1>4
<1> QED
  BY <1>1, <1>5 DEF NoneAccepted

LEMMA StepIs ==
  ASSUME HostShape, Lasting, Answered, emitter, [HostNext]_hostVars
  PROVE  NoneAccepted \/ \E c \in HostCalls : Added(c) \/ Accepts(c)
<1>1. CASE UNCHANGED hostVars
  BY <1>1 DEF hostVars, fileVars, NoneAccepted
<1>2. ASSUME NEW r \in Answers, Reply(r) \/ AnswerStep(r) PROVE NoneAccepted
  BY <1>2 DEF Reply, AnswerStep, ReplySend, ReplyGivesUp, NoneAccepted, fileVars
<1>3. CASE HostRestart
  <2>1. \A c \in HostCalls : calls'[c].result = "accepted" => calls[c].result = "accepted"
    BY <1>3, RestartIs
  <2>2. hostFile' = hostFile /\ entries' = LoadFromFile(hostFile)
    BY <1>3, RestartIs DEF fileVars
  <2> QED
    BY <2>1, <2>2 DEF NoneAccepted
<1>4. ASSUME NEW c \in HostCalls, HostLookup(c) PROVE NoneAccepted \/ Accepts(c)
  <2>1. PICK a \in Addresses, k \in HostKeys, at \in CallPlaces, result \in Results : LookedUp(c, a, k, at, result)
    BY <1>4, LookupGone
  <2>2. hostFile' = hostFile /\ entries' = entries
    BY <1>4 DEF HostLookup, fileVars
  <2>3. calls'[c].addr = a /\ calls'[c].key = k /\ calls'[c].result = result
        /\ \A d \in HostCalls \ {c} : calls'[d] = calls[d]
    BY <2>1 DEF LookedUp
  <2>4. CASE result = "accepted"
    <3>1. \E e \in Matching(a) : e.key = k
      BY <2>1, <2>4 DEF LookedUp
    <3> QED
      BY <2>2, <2>3, <3>1 DEF Matching, Accepts
  <2>5. CASE result # "accepted"
    <3>1. \A d \in HostCalls : calls'[d].result = "accepted" => calls[d].result = "accepted"
      BY <2>3, <2>5
    <3> QED
      BY <2>2, <3>1 DEF NoneAccepted
  <2> QED
    BY <2>4, <2>5
<1> QED
  BY <1>1, <1>2, <1>3, <1>4, AddedIs, NoneAcceptedBy DEF HostNext, CallStep

\* The records are trusted, and so is what is accepted by them.
LEMMA EntriesStep ==
  ASSUME HostShape, Lasting, Answered, Asked, emitter, [HostNext]_hostVars
  PROVE  TrustedEntries'
<1>1. trusted \subseteq trusted'
  BY ShapeStep DEF Grows
<1>2. ASSUME NEW e \in entries \cup LoadFromFile(hostFile), NEW p \in e.patterns
      PROVE  <<p, e.key>> \in trusted' \/ p.host \in Brackets
  BY <1>1 DEF Asked, TrustedEntries, TrustedEntry
<1>3. ASSUME NEW e \in entries' \cup LoadFromFile(hostFile'), NEW p \in e.patterns
      PROVE  <<p, e.key>> \in trusted' \/ p.host \in Brackets
  <2>1. CASE e \in entries \cup LoadFromFile(hostFile)
    BY <1>2, <2>1
  <2>2. CASE e \notin entries \cup LoadFromFile(hostFile)
    <3>1. PICK c \in HostCalls : Added(c)
      BY <1>3, <2>2, StepIs DEF NoneAccepted, Accepts
    <3>2. e = Record(c) \/ e = LineRecord(c)
      BY <1>3, <2>2, <3>1 DEF Added
    <3>3. calls[c].addr \in Addresses /\ TrustedCall(c)
      BY <3>1 DEF Added, HostShape, Asked, TrustOnItsWay
    <3>4. <<calls[c].addr, calls[c].key>> \in trusted'
      BY <1>1, <3>3 DEF TrustedCall
    <3>5. CASE e = Record(c)
      BY <1>3, <3>4, <3>5 DEF Record
    <3>6. CASE e = LineRecord(c)
      <4>1. p = ParseAddr(FormatPattern(calls[c].addr)) /\ e.key = calls[c].key
        BY <1>3, <3>6 DEF LineRecord
      <4> QED
        BY <3>3, <3>4, <4>1, LineRead
    <3> QED
      BY <3>2, <3>5, <3>6
  <2> QED
    BY <2>1, <2>2
<1> QED
  BY <1>3 DEF TrustedEntries, TrustedEntry

LEMMA VouchedStep ==
  ASSUME HostShape, Lasting, Answered, Asked, emitter, [HostNext]_hostVars
  PROVE  AcceptedVouched'
<1>1. Grows
  BY ShapeStep
<1>2. ASSUME NEW c \in HostCalls, calls[c].result = "accepted"
      PROVE  \E v \in trusted' : PatternMatches(v[1], calls'[c].addr) /\ v[2] = calls'[c].key
  <2>1. calls[c].at # "new" /\ Vouched(calls[c].addr, calls[c].key)
    BY <1>2 DEF Lasting, Ended, Asked, AcceptedVouched
  <2>2. calls'[c].addr = calls[c].addr /\ calls'[c].key = calls[c].key /\ trusted \subseteq trusted'
    BY <1>1, <2>1 DEF Grows
  <2> QED
    BY <2>1, <2>2 DEF Vouched
<1>3. ASSUME NEW c \in HostCalls, Added(c)
      PROVE  \E v \in trusted' : PatternMatches(v[1], calls'[c].addr) /\ v[2] = calls'[c].key
  <2>1. calls[c].at = "adding"
    BY <1>3 DEF Added
  <2>2. <<calls[c].addr, calls[c].key>> \in trusted' /\ calls'[c].addr = calls[c].addr /\ calls'[c].key = calls[c].key
    BY <1>1, <2>1 DEF Grows, Asked, TrustOnItsWay, TrustedCall
  <2>3. PatternMatches(calls[c].addr, calls[c].addr)
    BY AddressMatches DEF HostShape
  <2> QED
    BY <2>2, <2>3
<1>4. ASSUME NEW c \in HostCalls, Accepts(c)
      PROVE  \E v \in trusted' : PatternMatches(v[1], calls'[c].addr) /\ v[2] = calls'[c].key
  <2>1. PICK e \in entries : EntryMatches(e, calls'[c].addr) /\ e.key = calls'[c].key
    BY <1>4 DEF Accepts
  <2>0. PICK p \in e.patterns : PatternMatches(p, calls'[c].addr)
    BY <2>1 DEF EntryMatches
  <2>2. calls'[c].addr \in Addresses
    BY <1>4 DEF Accepts
  <2>3. <<p, e.key>> \in trusted
    BY <2>0, <2>2, BracketsMatchNothing DEF Asked, TrustedEntries, TrustedEntry
  <2> QED
    BY <1>1, <2>0, <2>1, <2>3 DEF Grows
<1>5. ASSUME NEW c \in HostCalls, calls'[c].result = "accepted"
      PROVE  \E v \in trusted' : PatternMatches(v[1], calls'[c].addr) /\ v[2] = calls'[c].key
  <2>1. calls[c].result = "accepted" \/ Added(c) \/ Accepts(c)
    <3>1. CASE NoneAccepted
      BY <1>5, <3>1 DEF NoneAccepted
    <3>2. ASSUME NEW d \in HostCalls, Added(d) \/ Accepts(d) PROVE calls[c].result = "accepted" \/ c = d
      BY <1>5, <3>2 DEF Added, Accepts
    <3> QED
      BY <3>1, <3>2, StepIs
  <2> QED
    BY <1>2, <1>3, <1>4, <2>1
<1> QED
  BY <1>5 DEF AcceptedVouched, Vouched

LEMMA AccountedStep ==
  ASSUME HostShape, Lasting, Answered, Asked, emitter, [HostNext]_hostVars
  PROVE  \A e \in entries' : Accounted(e)'
<1>1. Grows
  BY ShapeStep
<1>2. ASSUME NEW e \in entries PROVE Accounted(e)'
  <2>1. CASE e \in HeldRecords
    BY <1>1, <2>1 DEF Grows, Accounted
  <2>2. ASSUME NEW d \in HostCalls, FailedRecord(e, d) PROVE Accounted(e)'
    <3>1. calls[d].at # "new" /\ calls[d].result # "none"
      BY <2>2 DEF FailedRecord, Lasting, Ended
    <3>2. FailedRecord(e, d)'
      BY <1>1, <2>2, <3>1 DEF FailedRecord, Grows
    <3> QED
      BY <3>2 DEF Accounted
  <2>3. CASE \E b \in Addresses : Unread(b) /\ e.patterns = {b}
    BY <2>3 DEF Accounted
  <2> QED
    BY <2>1, <2>2, <2>3 DEF Asked, Accounted
<1>3. ASSUME NEW c \in HostCalls, Added(c), NEW e, e = Record(c) PROVE Accounted(e)'
  <2>1. calls[c].addr \in Addresses /\ e.patterns = {calls[c].addr}
    BY <1>3 DEF HostShape, Record
  <2>2. calls'[c].addr = calls[c].addr /\ calls'[c].key = calls[c].key
    BY <1>1, <1>3 DEF Grows, Added
  <2>3. CASE Unread(calls[c].addr)
    BY <2>1, <2>3 DEF Accounted
  <2>4. CASE ~Unread(calls[c].addr) /\ calls'[c].result = "accepted"
    <3>1. LineRecord(c) = e
      BY <1>3, <2>1, <2>4, LineRead DEF LineRecord, Record
    <3>2. e \in HeldRecords'
      BY <1>3, <2>4, <3>1 DEF Added
    <3> QED
      BY <3>2 DEF Accounted
  <2>5. CASE calls'[c].result = "failed"
    <3>1. FailedRecord(e, c)'
      BY <1>3, <2>2, <2>5 DEF FailedRecord, Record
    <3> QED
      BY <3>1 DEF Accounted
  <2> QED
    BY <1>3, <2>3, <2>4, <2>5 DEF Added
<1>4. ASSUME NEW e \in entries' PROVE e \in entries \/ e \in LoadFromFile(hostFile') \/ \E c \in HostCalls : Added(c) /\ e = Record(c)
  BY <1>4, StepIs DEF NoneAccepted, Accepts, Added
<1> QED
  <2>1. ASSUME NEW e \in entries' PROVE Accounted(e)'
    <3>1. CASE e \in LoadFromFile(hostFile')
      BY <3>1 DEF Accounted, HeldRecords
    <3> QED
      BY <1>2, <1>3, <1>4, <2>1, <3>1
  <2> QED
    BY <2>1

\* What accepts a callback is found again.
LEMMA KeptStep ==
  ASSUME HostShape, Lasting, Answered, Asked, emitter, [HostNext]_hostVars
  PROVE  AcceptedKept'
<1>1. Grows
  BY ShapeStep
<1>2. ASSUME NEW c \in HostCalls, calls[c].result = "accepted", ~Unread(calls'[c].addr) PROVE Kept(c)'
  <2>1. calls[c].at # "new"
    BY <1>2 DEF Lasting, Ended
  <2>2. calls'[c].addr = calls[c].addr /\ calls'[c].key = calls[c].key
    BY <1>1, <2>1 DEF Grows
  <2>3. Kept(c)
    BY <1>2, <2>2 DEF Asked, AcceptedKept
  <2>4. CASE HeldFor(c)
    BY <1>1, <2>2, <2>4 DEF Kept, HeldFor, Grows
  <2>5. CASE WriteFailed(c)
    <3>1. PICK d \in HostCalls :
            calls[d].result = "failed" /\ calls[d].addr = calls[c].addr /\ calls[d].key = calls[c].key
      BY <2>5 DEF WriteFailed
    <3>2. calls'[d].result = "failed" /\ calls'[d].addr = calls[d].addr /\ calls'[d].key = calls[d].key
      BY <1>1, <3>1 DEF Grows, Lasting, Ended
    <3> QED
      BY <2>2, <3>1, <3>2 DEF Kept, WriteFailed
  <2> QED
    BY <2>3, <2>4, <2>5 DEF Kept
<1>3. ASSUME NEW c \in HostCalls, Added(c), calls'[c].result = "accepted", ~Unread(calls'[c].addr) PROVE Kept(c)'
  <2>1. calls'[c].addr = calls[c].addr /\ calls'[c].key = calls[c].key /\ calls[c].addr \in Addresses
    BY <1>1, <1>3 DEF Grows, Added, HostShape
  <2>2. PICK e : e = LineRecord(c)
    OBVIOUS
  <2>3. e \in HeldRecords'
    BY <1>3, <2>1, <2>2 DEF Added
  <2>4. e.patterns = {calls[c].addr} /\ e.key = calls[c].key
    BY <1>3, <2>1, <2>2, LineRead DEF LineRecord
  <2>5. EntryMatches(e, calls'[c].addr) /\ e.key = calls'[c].key
    BY <2>1, <2>4, AddressMatches DEF EntryMatches
  <2> QED
    BY <2>3, <2>5 DEF Kept, HeldFor
<1>4. ASSUME NEW c \in HostCalls, Accepts(c), ~Unread(calls'[c].addr) PROVE Kept(c)'
  <2>1. PICK e \in entries : EntryMatches(e, calls'[c].addr) /\ e.key = calls'[c].key
    BY <1>4 DEF Accepts
  <2>2. calls'[c].addr \in Addresses /\ entries' = entries
    BY <1>4 DEF Accepts
  <2>3. Accounted(e)'
    BY <2>1, <2>2, AccountedStep
  <2>4. CASE e \in HeldRecords'
    BY <2>1, <2>4 DEF Kept, HeldFor
  <2>5. ASSUME NEW d \in HostCalls, FailedRecord(e, d)' PROVE Kept(c)'
    <3>1. calls'[d].result = "failed" /\ e.patterns = {calls'[d].addr} /\ e.key = calls'[d].key
      BY <2>5 DEF FailedRecord
    <3>2. calls'[d].addr \in Addresses
      BY ShapeStep DEF HostShape
    <3>3. calls'[d].addr = calls'[c].addr
      BY <2>1, <2>2, <3>1, <3>2, AddressMatches DEF EntryMatches
    <3> QED
      BY <2>1, <3>1, <3>3 DEF Kept, WriteFailed
  <2>6. ASSUME NEW b \in Addresses, Unread(b), e.patterns = {b} PROVE FALSE
    BY <1>4, <2>1, <2>2, <2>6, AddressMatches DEF EntryMatches
  <2> QED
    BY <2>3, <2>4, <2>5, <2>6 DEF Accounted
<1>5. ASSUME NEW c \in HostCalls, calls'[c].result = "accepted", ~Unread(calls'[c].addr) PROVE Kept(c)'
  <2>1. calls[c].result = "accepted" \/ Added(c) \/ Accepts(c)
    <3>1. CASE NoneAccepted
      BY <1>5, <3>1 DEF NoneAccepted
    <3>2. ASSUME NEW d \in HostCalls, Added(d) \/ Accepts(d) PROVE calls[c].result = "accepted" \/ c = d
      BY <1>5, <3>2 DEF Added, Accepts
    <3> QED
      BY <3>1, <3>2, StepIs
  <2> QED
    BY <1>2, <1>3, <1>4, <1>5, <2>1
<1> QED
  BY <1>5 DEF AcceptedKept

LEMMA AskedStart == ASSUME HostInit, emitter PROVE Asked
<1>1. /\ \A c \in HostCalls : calls[c].at = "new" /\ calls[c].result = "none" /\ replyBuf[c] = "empty"
      /\ \A r \in Answers : answers[r].at = "idle"
  BY DEF HostInit, Nowhere, Unsaid
<1>2. entries = LoadFromFile(hostFile)
  BY DEF HostInit
<1>3. TrustOnItsWay /\ AcceptedVouched /\ AcceptedKept
  BY <1>1 DEF TrustOnItsWay, AcceptedVouched, AcceptedKept
<1>4. trusted = UNION {{<<p, e.key>> : p \in e.patterns} : e \in entries}
  BY DEF HostInit
<1>5. TrustedEntries
  BY <1>2, <1>4 DEF TrustedEntries, TrustedEntry
<1> QED
  BY <1>2, <1>3, <1>5 DEF Asked, Accounted, HeldRecords

LEMMA HostInvHolds == HostSpec => []HostInv
<1>1. HostInit => HostInv
  BY ShapeStart, AskedStart DEF HostInv
<1>2. ASSUME HostInv, [HostNext]_hostVars PROVE HostInv'
  <2>1. HostShape' /\ Lasting' /\ Answered' /\ Grows
    BY <1>2, ShapeStep DEF HostInv
  <2>2. CASE emitter
    <3>1. HostShape /\ Lasting /\ Answered /\ Asked
      BY <1>2, <2>2 DEF HostInv
    <3>2. TrustOnItsWay /\ Asked
      BY <3>1 DEF Asked
    <3>3. TrustOnItsWay'
      BY <1>2, <2>2, <3>1, <3>2, TrustOnItsWayStep
    <3>4. TrustedEntries' /\ AcceptedVouched' /\ (\A e \in entries' : Accounted(e)') /\ AcceptedKept'
      BY <1>2, <2>2, <3>1, EntriesStep, VouchedStep, AccountedStep, KeptStep
    <3>5. Asked'
      BY <3>3, <3>4 DEF Asked
    <3> QED
      BY <2>1, <3>5 DEF HostInv
  <2>3. CASE ~emitter
    BY <2>1, <2>3 DEF HostInv, Grows
  <2> QED
    BY <2>2, <2>3
<1> QED
  BY <1>1, <1>2, PTL DEF HostSpec

\* With a user interface, a key is accepted for an address only if the file held it at the first
\* start or the user trusted this key for this address, for any number of callbacks and answers
\* (HostKeyCallback, ReplyTrust).
THEOREM OnlyTrusted == HostSpec => []OnlyTrustedKeys
<1>1. HostInv => OnlyTrustedKeys
  BY DEF HostInv, Asked, AcceptedVouched, OnlyTrustedKeys
<1> QED
  BY <1>1, HostInvHolds, PTL

\* A key that was accepted with a user interface is found again by the next start, unless the
\* writing of its line failed, its line was run together with one that no line feed ended, or
\* the line of an IPv6 address has no port (Add, loadFromFile).
THEOREM FoundAgain == HostSpec => []Remembered
<1>1. ASSUME NEW c \in HostCalls, HeldFor(c) PROVE Reloads(c) \/ RunTogether(c)
  <2>1. PICK e \in HeldRecords : e.key = calls[c].key /\ EntryMatches(e, calls[c].addr)
    BY <1>1 DEF HeldFor
  <2>2. CASE e \in LoadFromFile(hostFile)
    BY <2>1, <2>2 DEF Reloads
  <2>3. ASSUME NEW l \in glued, e = EntryOf(l) PROVE RunTogether(c)
    <3>1. e.key = l.key
      BY <2>3 DEF EntryOf
    <3> QED
      BY <2>1, <2>3, <3>1 DEF RunTogether
  <2> QED
    BY <2>2, <2>3 DEF HeldRecords
<1>2. HostInv => Remembered
  <2>1. ASSUME HostInv, emitter, NEW c \in HostCalls, calls[c].result = "accepted",
               Has(calls[c].addr.host, ":") => calls[c].addr.port # DefaultPort
        PROVE  HeldFor(c) \/ WriteFailed(c)
    BY <2>1 DEF HostInv, Asked, AcceptedKept, Unread, Kept
  <2> QED
    BY <1>1, <2>1 DEF Remembered, AcceptedReload
<1> QED
  BY <1>2, HostInvHolds, PTL
=============================================================================
