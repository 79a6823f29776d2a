--------------------------- MODULE BpeMergeProofs ---------------------------
(***************************************************************************)
(* The merge loop computes byte pair encoding as it is defined, whatever   *)
(* the merge list and however long the word.                               *)
(***************************************************************************)
EXTENDS BpeMerge, WellFoundedInduction, SequenceTheorems, TLAPS

\* Of n cells with links nx and pv, s are those in use, from left to right,
\* linked both ways; a cell merged away is not linked.
Links(n, nx, pv, s) ==
  /\ s \in Seq(0 .. n - 1)
  /\ n > 0 => Len(s) > 0 /\ s[1] = 0 /\ pv[0] = -1 /\ nx[s[Len(s)]] = -1
  /\ \A k \in 1 .. Len(s) - 1 : nx[s[k]] = s[k + 1] /\ pv[s[k + 1]] = s[k]
  /\ \A k, m \in 1 .. Len(s) : k < m => s[k] < s[m]
  /\ \A i \in 0 .. n - 1 : (\A k \in 1 .. Len(s) : s[k] # i) => nx[i] = -1

\* Every two neighbours with a rank are in the heap under that rank.
Complete(s) ==
  \A k \in 1 .. Len(s) - 1 :
    LET r == Definition!Rank(merges, cells[s[k]], cells[s[k + 1]])
    IN  r # 0 => <<r, s[k]>> \in DOMAIN heap

Positive(bag) == \A c \in DOMAIN bag : bag[c] \in Nat \ {0}

HeapInv ==
  /\ Positive(heap)
  /\ \A c \in DOMAIN heap : c[1] # 0 /\ c[2] \in Indices

IInv ==
  /\ word \in Words /\ merges \in MergeTables
  /\ cells = [i \in Indices |-> cells[i]]
  /\ next \in [Indices -> Indices \cup {-1}]
  /\ prev \in [Indices -> Indices \cup {-1}]
  /\ HeapInv
  /\ done \in BOOLEAN /\ (done => heap = EmptyBag)
  /\ \E s : Links(Len(word), next, prev, s) /\ Complete(s)

-----------------------------------------------------------------------------
(* Sequences and bags.                                                     *)

\* A set of naturals has a smallest element.
LEMMA SmallestExists ==
  ASSUME NEW T \in SUBSET Nat, T # {}
  PROVE  \E m \in T : \A n \in T : m <= n
<1>1. \E R : IsWellFoundedOn(R, Nat) /\ \A n, m \in Nat : n < m => <<n, m>> \in R
  BY NatLessThanWellFounded DEF OpToRel
<1>2. PICK R : IsWellFoundedOn(R, Nat) /\ \A n, m \in Nat : n < m => <<n, m>> \in R
  BY <1>1
<1>3. PICK m \in T : \A n \in T : ~(<<n, m>> \in R)
  <2>1. IsWellFoundedOn(R, Nat) /\ T \subseteq Nat /\ T # {}
    BY <1>2
  <2>2. QED
    BY <2>1, WFMin, Zenon
<1>4. \A n \in T : ~(n < m)
  BY <1>2, <1>3
<1>5. QED
  BY <1>4

LEMMA FunctionIsSeq ==
  ASSUME NEW S, NEW m \in Nat, NEW f \in [1 .. m -> S]
  PROVE  f \in Seq(S) /\ Len(f) = m
OBVIOUS

\* Neighbours i and i + 1 replaced by u, place by place.
Replaced(t, i, u) == SubSeq(t, 1, i - 1) \o <<u>> \o SubSeq(t, i + 2, Len(t))

LEMMA MergedPlaces ==
  ASSUME NEW S, NEW t \in Seq(S), NEW i \in 1 .. Len(t) - 1, NEW u \in S
  PROVE  /\ Replaced(t, i, u) \in Seq(S) /\ Len(Replaced(t, i, u)) = Len(t) - 1
         /\ \A k \in 1 .. Len(t) - 1 :
              Replaced(t, i, u)[k] = IF k < i THEN t[k] ELSE IF k = i THEN u ELSE t[k + 1]
<1> DEFINE n == Len(t)
           a == SubSeq(t, 1, i - 1)
           b == SubSeq(t, i + 2, n)
           m(k) == IF k < i THEN t[k] ELSE IF k = i THEN u ELSE t[k + 1]
<1>1. n \in Nat /\ i \in 1 .. n - 1 /\ \A k \in 1 .. n : t[k] \in S
  BY LenProperties, ElementOfSeq
<1> HIDE DEF n
<1>2. a \in Seq(S) /\ Len(a) = i - 1 /\ \A k \in 1 .. i - 1 : a[k] = t[k]
  <2>1. \A k \in 1 .. i - 1 : t[k] \in S
    BY <1>1
  <2>2. /\ a \in Seq(S) /\ Len(a) = (IF 1 <= i - 1 THEN i - 1 - 1 + 1 ELSE 0)
        /\ \A k \in 1 .. i - 1 - 1 + 1 : a[k] = t[1 + k - 1]
    BY <1>1, <2>1, SubSeqProperties
  <2>3. QED
    BY <1>1, <2>2
<1>3. b \in Seq(S) /\ Len(b) = n - i - 1 /\ \A k \in 1 .. n - i - 1 : b[k] = t[k + i + 1]
  <2>1. \A k \in i + 2 .. n : t[k] \in S
    BY <1>1
  <2>2. /\ b \in Seq(S) /\ Len(b) = (IF i + 2 <= n THEN n - (i + 2) + 1 ELSE 0)
        /\ \A k \in 1 .. n - (i + 2) + 1 : b[k] = t[i + 2 + k - 1]
    BY <1>1, <2>1, SubSeqProperties
  <2>3. QED
    BY <1>1, <2>2
<1> HIDE DEF a, b
<1>4. <<u>> \in Seq(S) /\ Len(<<u>>) = 1 /\ <<u>>[1] = u
  OBVIOUS
<1>5. /\ a \o <<u>> \in Seq(S) /\ Len(a \o <<u>>) = i
      /\ \A k \in 1 .. i : (a \o <<u>>)[k] = IF k < i THEN t[k] ELSE u
  BY <1>1, <1>2, <1>4, ConcatProperties
<1> DEFINE c == a \o <<u>>
<1> HIDE DEF c
<1>6. c \in Seq(S) /\ Len(c) = i /\ \A k \in 1 .. i : c[k] = IF k < i THEN t[k] ELSE u
  BY <1>5 DEF c
<1>7. /\ c \o b \in Seq(S) /\ Len(c \o b) = n - 1
      /\ \A k \in 1 .. n - 1 : (c \o b)[k] = IF k <= i THEN c[k] ELSE b[k - i]
  <2>1. Len(c) + Len(b) = n - 1
    BY <1>1, <1>3, <1>6
  <2>2. /\ c \o b \in Seq(S) /\ Len(c \o b) = Len(c) + Len(b)
        /\ \A k \in 1 .. Len(c) + Len(b) : (c \o b)[k] = IF k <= Len(c) THEN c[k] ELSE b[k - Len(c)]
    <3>1. b \in Seq(S) /\ c \in Seq(S)
      BY <1>3, <1>6
    <3>2. QED
      BY <3>1, ConcatProperties
  <2>3. QED
    BY <1>6, <2>1, <2>2
<1>8. \A k \in 1 .. n - 1 : (c \o b)[k] = m(k)
  <2> SUFFICES ASSUME NEW k \in 1 .. n - 1 PROVE (c \o b)[k] = m(k)
    OBVIOUS
  <2>1. CASE k <= i
    BY <1>1, <1>6, <1>7, <2>1
  <2>2. CASE ~(k <= i)
    <3>1. k - i \in 1 .. n - i - 1 /\ k - i + i + 1 = k + 1
      BY <1>1, <2>2
    <3>2. b[k - i] = t[k + 1]
      BY <1>3, <3>1
    <3>3. QED
      BY <1>1, <1>7, <2>2, <3>2
  <2>3. QED
    BY <2>1, <2>2
<1>9. QED
  BY <1>7, <1>8, Zenon DEF c, b, a, n, Replaced

\* One copy of c taken out.
LEMMA TakenOut ==
  ASSUME NEW bag, Positive(bag), NEW c
  PROVE  /\ Positive(bag (-) SetToBag({c}))
         /\ DOMAIN (bag (-) SetToBag({c})) \subseteq DOMAIN bag
         /\ DOMAIN bag \ {c} \subseteq DOMAIN (bag (-) SetToBag({c}))
<1> DEFINE left == [e \in DOMAIN bag |-> IF e \in {c} THEN bag[e] - 1 ELSE bag[e]]
<1>1. SetToBag({c}) = [e \in {c} |-> 1]
  BY DEF SetToBag
<1>2. bag (-) SetToBag({c}) = [e \in {d \in DOMAIN left : left[d] > 0} |-> left[e]]
  BY <1>1 DEF (-)
<1>3. \A e \in DOMAIN bag : left[e] \in Int /\ (e # c => left[e] > 0)
  BY DEF Positive
<1> HIDE DEF left
<1>4. DOMAIN left = DOMAIN bag
  BY DEF left
<1> DEFINE rest == bag (-) SetToBag({c})
<1>5. rest = [e \in {d \in DOMAIN left : left[d] > 0} |-> left[e]]
  BY <1>2
<1> HIDE DEF rest
<1>6. /\ Positive(rest)
      /\ DOMAIN rest \subseteq DOMAIN bag
      /\ DOMAIN bag \ {c} \subseteq DOMAIN rest
  BY <1>3, <1>4, <1>5 DEF Positive
<1>7. QED
  BY <1>6, Zenon DEF rest

LEMMA PutTogether ==
  ASSUME NEW a, NEW b, Positive(a), Positive(b)
  PROVE  /\ Positive(a (+) b)
         /\ DOMAIN (a (+) b) = DOMAIN a \cup DOMAIN b
BY DEF Positive, (+)

LEMMA CandidateHolds ==
  ASSUME NEW a, NEW b, NEW i
  PROVE  /\ Positive(Candidate(a, b, i))
         /\ \A c \in DOMAIN Candidate(a, b, i) : c = <<Rank(a, b), i>> /\ Rank(a, b) # 0
         /\ Rank(a, b) # 0 => <<Rank(a, b), i>> \in DOMAIN Candidate(a, b, i)
BY DEF Positive, Candidate, EmptyBag, SetToBag

LEMMA NothingInEmpty ==
  DOMAIN EmptyBag = {} /\ Positive(EmptyBag)
BY DEF Positive, EmptyBag, SetToBag
-----------------------------------------------------------------------------
(* The chain of cells.                                                     *)

\* The result loop visits the cells in use, in order.
LEMMA VisitedIs ==
  ASSUME NEW n \in Nat, NEW nx, NEW pv, NEW s, Links(n, nx, pv, s)
  PROVE  Visited(n, nx) = s
<1> DEFINE l == Len(s)
           Cells == 0 .. n - 1
           Step(f) == f = [i \in Cells |-> <<i>> \o (IF nx[i] > i THEN f[nx[i]] ELSE <<>>)]
           at(i) == CHOOSE k \in 1 .. l : s[k] = i
           w == [i \in Cells |-> IF \E k \in 1 .. l : s[k] = i THEN SubSeq(s, at(i), l) ELSE <<i>>]
<1>1. /\ l \in Nat /\ s \in Seq(Cells) /\ DOMAIN s = 1 .. l /\ \A k \in 1 .. l : s[k] \in Cells
  BY LenProperties, ElementOfSeq DEF Links
<1>2. \A k \in 1 .. l - 1 : nx[s[k]] = s[k + 1] /\ nx[s[k]] > s[k]
  BY <1>1 DEF Links
<1>3. l > 0 => ~(nx[s[l]] > s[l])
  <2>1. l > 0 => n > 0 /\ s[l] \in 0 .. n - 1
    BY <1>1
  <2>2. QED
    BY <2>1 DEF Links
<1>4. \A i \in Cells : (\A k \in 1 .. l : s[k] # i) => ~(nx[i] > i)
  BY DEF Links
<1>5. \A k, m \in 1 .. l : s[k] = s[m] => k = m
  BY <1>1 DEF Links
<1> HIDE DEF l
<1>6. \A k \in 1 .. l : SubSeq(s, k, l) = <<s[k]>> \o (IF k < l THEN SubSeq(s, k + 1, l) ELSE <<>>)
  <2> SUFFICES ASSUME NEW k \in 1 .. l
               PROVE  SubSeq(s, k, l) = <<s[k]>> \o (IF k < l THEN SubSeq(s, k + 1, l) ELSE <<>>)
    OBVIOUS
  <2>1. k \in 1 .. Len(s) /\ l \in k .. Len(s)
    BY <1>1 DEF l
  <2>2. SubSeq(s, k, l) = <<s[k]>> \o SubSeq(s, k + 1, l)
    BY <1>1, <2>1, SubSeqRecursiveFirst
  <2>3. ~(k < l) => SubSeq(s, k + 1, l) = <<>>
    <3> SUFFICES ASSUME ~(k < l) PROVE SubSeq(s, k + 1, l) = <<>>
      OBVIOUS
    <3>1. k + 1 \in Int /\ l \in Int /\ l < k + 1
      BY <1>1
    <3>2. QED
      BY <3>1, SubSeqEmpty
  <2>4. QED
    BY <2>2, <2>3
<1>7. \A k \in 1 .. l : at(s[k]) = k
  BY <1>5
<1>8. \A k \in 1 .. l : w[s[k]] = SubSeq(s, k, l)
  BY <1>1, <1>7
<1>9. Step(w)
  <2> SUFFICES ASSUME NEW i \in Cells
               PROVE  w[i] = <<i>> \o (IF nx[i] > i THEN w[nx[i]] ELSE <<>>)
    OBVIOUS
  <2>1. CASE \E k \in 1 .. l : s[k] = i
    <3>1. PICK k \in 1 .. l : s[k] = i
      BY <2>1
    <3>2. w[i] = SubSeq(s, k, l)
      BY <1>8, <3>1
    <3> HIDE DEF w
    <3>3. CASE k < l
      <4>1. k \in 1 .. l - 1 /\ k + 1 \in 1 .. l
        BY <1>1, <3>3
      <4>2. nx[i] = s[k + 1] /\ nx[i] > i
        BY <1>2, <3>1, <4>1
      <4>3. w[nx[i]] = SubSeq(s, k + 1, l)
        BY <1>8, <4>1, <4>2
      <4>4. QED
        BY <1>6, <3>1, <3>2, <3>3, <4>2, <4>3
    <3>4. CASE ~(k < l)
      <4>1. k = l /\ l > 0
        BY <1>1, <3>4
      <4>2. ~(nx[i] > i)
        BY <1>3, <3>1, <4>1
      <4>3. QED
        BY <1>6, <3>1, <3>2, <3>4, <4>2
    <3>5. QED
      BY <3>3, <3>4
  <2>2. CASE ~ \E k \in 1 .. l : s[k] = i
    <3>1. w[i] = <<i>> /\ ~(nx[i] > i)
      BY <1>4, <2>2
    <3>2. <<i>> \o <<>> = <<i>>
      OBVIOUS
    <3>3. QED
      BY <3>1, <3>2
  <2>3. QED
    BY <2>1, <2>2
<1> DEFINE r == CHOOSE f : Step(f)
<1> HIDE DEF w
<1>10. Step(r)
  BY <1>9, Zenon
<1>11. Visited(n, nx) = IF n = 0 THEN <<>> ELSE r[0]
  BY Zenon DEF Visited
<1> HIDE DEF r
<1>12. \A k \in 1 .. l : r[s[k]] = SubSeq(s, k, l)
  <2> DEFINE Lost == {d \in 0 .. l - 1 : r[s[l - d]] # SubSeq(s, l - d, l)}
  <2>1. Lost = {}
    <3>1. SUFFICES ASSUME Lost # {} PROVE FALSE
      OBVIOUS
    <3>2. Lost \in SUBSET Nat
      BY <1>1
    <3>3. PICK d \in Lost : \A e \in Lost : d <= e
      BY <3>1, <3>2, SmallestExists
    <3> DEFINE k == l - d
    <3>4. d \in 0 .. l - 1 /\ r[s[k]] # SubSeq(s, k, l)
      OBVIOUS
    <3>5. d # 0 => r[s[k + 1]] = SubSeq(s, k + 1, l)
      <4> SUFFICES ASSUME d # 0 PROVE r[s[k + 1]] = SubSeq(s, k + 1, l)
        OBVIOUS
      <4>1. d - 1 \in 0 .. l - 1 /\ l - (d - 1) = k + 1 /\ ~(d <= d - 1)
        BY <1>1, <3>4
      <4>2. d - 1 \notin Lost
        <5> HIDE DEF Lost
        <5>1. QED
          BY <3>3, <4>1
      <4>3. QED
        BY <4>1, <4>2
    <3>6. k \in 1 .. l /\ (d = 0 <=> ~(k < l))
      BY <1>1, <3>4
    <3> HIDE DEF k, Lost
    <3>7. r[s[k]] = <<s[k]>> \o (IF nx[s[k]] > s[k] THEN r[nx[s[k]]] ELSE <<>>)
      BY <1>1, <1>10, <3>6
    <3>8. CASE k < l
      <4>1. k \in 1 .. l - 1
        BY <1>1, <3>6, <3>8
      <4>2. nx[s[k]] = s[k + 1] /\ nx[s[k]] > s[k]
        BY <1>2, <4>1
      <4>3. QED
        BY <1>6, <3>4, <3>5, <3>6, <3>7, <3>8, <4>2 DEF k
    <3>9. CASE ~(k < l)
      <4>1. k = l /\ l > 0
        BY <1>1, <3>6, <3>9
      <4>2. ~(nx[s[k]] > s[k])
        BY <1>3, <4>1
      <4>3. QED
        BY <1>6, <3>4, <3>6, <3>7, <3>9, <4>2 DEF k
    <3>10. QED
      BY <3>8, <3>9
  <2> SUFFICES ASSUME NEW k \in 1 .. l PROVE r[s[k]] = SubSeq(s, k, l)
    OBVIOUS
  <2>2. l - k \in 0 .. l - 1 /\ l - (l - k) = k
    BY <1>1
  <2>3. QED
    BY <2>1, <2>2
<1>13. CASE n = 0
  <2>1. 0 .. n - 1 = {}
    BY <1>13
  <2>2. l = 0
    BY <1>1, <2>1
  <2>3. s = <<>>
    BY <1>1, <2>2, EmptySeq DEF l
  <2>4. QED
    BY <1>11, <1>13, <2>3
<1>14. CASE n # 0
  <2>1. l > 0 /\ s[1] = 0
    BY <1>14 DEF Links, l
  <2>2. 1 \in 1 .. l /\ r[0] = SubSeq(s, 1, l)
    BY <1>1, <1>12, <2>1
  <2>3. QED
    BY <1>1, <1>11, <1>14, <2>2, SubSeqFull DEF l
<1>15. QED
  BY <1>13, <1>14
-----------------------------------------------------------------------------
(* The loop.                                                               *)

LEMMA TokensOfChain ==
  ASSUME Len(word) \in Nat, NEW s, Links(Len(word), next, prev, s)
  PROVE  Tokens = [k \in 1 .. Len(s) |-> cells[s[k]]]
<1>1. Chain = s
  BY VisitedIs DEF Chain
<1>2. DOMAIN s = 1 .. Len(s)
  BY LenProperties DEF Links
<1>3. QED
  BY <1>1, <1>2 DEF Tokens

LEMMA RankIs ==
  \A a, b : Rank(a, b) = Definition!Rank(merges, a, b)
BY DEF Definition!Rank, Rank

\* Before the loop every cell is in use, and every pair with a rank is in the heap.
LEMMA InitHolds ==
  ASSUME Init, Len(word) \in Nat, DOMAIN word = 1 .. Len(word)
  PROVE  IInv /\ Definition!Init
<1> DEFINE n == Len(word)
           s == [k \in 1 .. n |-> k - 1]
           ranked == {k \in 0 .. n - 2 : Rank(cells[k], cells[k + 1]) # 0}
<1>1. n \in Nat
  OBVIOUS
<1>2. /\ cells = [i \in 0 .. n - 1 |-> <<word[i + 1]>>]
      /\ prev = [i \in 0 .. n - 1 |-> i - 1]
      /\ next = [i \in 0 .. n - 1 |-> IF i = n - 1 THEN -1 ELSE i + 1]
      /\ heap = SetToBag({<<Rank(cells[i], cells[i + 1]), i>> : i \in ranked})
      /\ done = FALSE /\ word \in Words /\ merges \in MergeTables
  BY DEF Init, Indices, Linked
<1>3. /\ DOMAIN heap = {<<Rank(cells[i], cells[i + 1]), i>> : i \in ranked}
      /\ Positive(heap)
  <2> DEFINE pairs == {<<Rank(cells[i], cells[i + 1]), i>> : i \in ranked}
  <2>1. heap = SetToBag(pairs)
    BY <1>2
  <2> HIDE DEF pairs
  <2>2. heap = [c \in pairs |-> 1]
    BY <2>1 DEF SetToBag
  <2>3. DOMAIN heap = pairs /\ Positive(heap)
    BY <2>2 DEF Positive
  <2>4. QED
    BY <2>3 DEF pairs
<1> HIDE DEF n, ranked
<1>4. s \in Seq(0 .. n - 1) /\ Len(s) = n
  BY <1>1
<1>5. Links(n, next, prev, s)
  <2>1. n > 0 => Len(s) > 0 /\ s[1] = 0 /\ prev[0] = -1 /\ next[s[Len(s)]] = -1
    BY <1>1, <1>2, <1>4
  <2>2. \A k \in 1 .. Len(s) - 1 : next[s[k]] = s[k + 1] /\ prev[s[k + 1]] = s[k]
    BY <1>1, <1>2, <1>4
  <2>3. \A k, m \in 1 .. Len(s) : k < m => s[k] < s[m]
    BY <1>1, <1>4
  <2>4. \A i \in 0 .. n - 1 : \E k \in 1 .. Len(s) : s[k] = i
    <3> SUFFICES ASSUME NEW i \in 0 .. n - 1 PROVE \E k \in 1 .. n : s[k] = i
      BY <1>4
    <3>1. i + 1 \in 1 .. n /\ s[i + 1] = i
      BY <1>1
    <3>2. QED
      BY <3>1
  <2>5. QED
    BY <1>4, <2>1, <2>2, <2>3, <2>4 DEF Links
<1>6. Complete(s)
  <2> SUFFICES ASSUME NEW k \in 1 .. n - 1, Rank(cells[s[k]], cells[s[k + 1]]) # 0
               PROVE  <<Rank(cells[s[k]], cells[s[k + 1]]), s[k]>> \in DOMAIN heap
    BY <1>4, RankIs DEF Complete
  <2>1. s[k] = k - 1 /\ s[k + 1] = (k - 1) + 1 /\ k - 1 \in 0 .. n - 2
    BY <1>1
  <2> HIDE DEF s
  <2>2. k - 1 \in ranked
    BY <2>1 DEF ranked
  <2>3. QED
    BY <1>3, <2>1, <2>2
<1>7. HeapInv
  <2>1. \A k \in ranked : k \in Indices /\ Rank(cells[k], cells[k + 1]) # 0
    BY <1>1 DEF ranked, Indices, n
  <2>2. QED
    BY <1>3, <2>1 DEF HeapInv
<1>8. IInv
  <2>1. next \in [Indices -> Indices \cup {-1}] /\ prev \in [Indices -> Indices \cup {-1}]
    <3>1. Indices = 0 .. n - 1
      BY DEF Indices, n
    <3>2. \A i \in 0 .. n - 1 : /\ i - 1 \in 0 .. n - 1 \cup {-1}
                               /\ i # n - 1 => i + 1 \in 0 .. n - 1 \cup {-1}
      BY <1>1
    <3> HIDE DEF s
    <3>3. next \in [0 .. n - 1 -> 0 .. n - 1 \cup {-1}]
      <4>1. DOMAIN next = 0 .. n - 1 /\ next = [i \in 0 .. n - 1 |-> next[i]]
        BY <1>2
      <4>2. \A i \in 0 .. n - 1 : next[i] = IF i = n - 1 THEN -1 ELSE i + 1
        BY <1>2
      <4>3. \A i \in 0 .. n - 1 : next[i] \in 0 .. n - 1 \cup {-1}
        BY <1>1, <3>2, <4>2
      <4>4. QED
        BY <4>1, <4>3
    <3>4. prev \in [0 .. n - 1 -> 0 .. n - 1 \cup {-1}]
      <4>1. DOMAIN prev = 0 .. n - 1 /\ prev = [i \in 0 .. n - 1 |-> prev[i]]
        BY <1>2
      <4>2. \A i \in 0 .. n - 1 : prev[i] = i - 1
        BY <1>2
      <4>3. \A i \in 0 .. n - 1 : prev[i] \in 0 .. n - 1 \cup {-1}
        BY <1>1, <3>2, <4>2
      <4>4. QED
        BY <4>1, <4>3
    <3>5. QED
      BY <3>1, <3>3, <3>4
  <2>2. cells = [i \in Indices |-> cells[i]]
    BY <1>2 DEF Indices, n
  <2>3. \E q : Links(Len(word), next, prev, q) /\ Complete(q)
    BY <1>5, <1>6 DEF n
  <2>4. QED
    BY <1>2, <1>7, <2>1, <2>2, <2>3 DEF IInv
<1>9. Definition!Init
  <2>1. Tokens = [k \in 1 .. n |-> cells[s[k]]]
    BY <1>1, <1>4, <1>5, TokensOfChain DEF n
  <2>2. \A k \in 1 .. n : cells[s[k]] = <<word[k]>>
    BY <1>1, <1>2
  <2>3. Tokens = [k \in DOMAIN word |-> <<word[k]>>]
    BY <2>1, <2>2 DEF n
  <2>4. QED
    BY <1>2, <2>3 DEF Definition!Init
<1>10. QED
  BY <1>8, <1>9
\* A candidate that no longer stands is none the chain needs.
LEMMA SkipHolds ==
  ASSUME IInv, Skip
  PROVE  IInv' /\ UNCHANGED Definition!bvars
<1>1. PICK c \in DOMAIN heap : ~Current(c) /\ heap' = heap (-) SetToBag({c})
  BY DEF Skip
<1>2. UNCHANGED <<merges, word, cells, prev, next, done>>
  BY DEF Skip
<1>3. PICK s : Links(Len(word), next, prev, s) /\ Complete(s)
  BY DEF IInv
<1>4. /\ Positive(heap') /\ DOMAIN heap' \subseteq DOMAIN heap
      /\ DOMAIN heap \ {c} \subseteq DOMAIN heap'
  <2>1. Positive(heap)
    BY DEF IInv, HeapInv
  <2>2. QED
    BY <1>1, <2>1, TakenOut
<1>5. Complete(s)'
  <2> DEFINE r(k) == Definition!Rank(merges, cells[s[k]], cells[s[k + 1]])
  <2>1. SUFFICES ASSUME NEW k \in 1 .. Len(s) - 1, r(k) # 0
                 PROVE  <<r(k), s[k]>> \in DOMAIN heap'
    BY <1>2 DEF Complete
  <2> DEFINE d == <<r(k), s[k]>>
  <2>2. d \in DOMAIN heap
    BY <1>3, <2>1 DEF Complete
  <2>3. next[s[k]] = s[k + 1] /\ s[k + 1] >= 0
    <3>1. s \in Seq(0 .. Len(word) - 1) /\ next[s[k]] = s[k + 1]
      BY <1>3 DEF Links
    <3>2. k + 1 \in 1 .. Len(s)
      BY <3>1, LenProperties
    <3>3. s[k + 1] \in 0 .. Len(word) - 1
      BY <3>1, <3>2, ElementOfSeq
    <3>4. QED
      BY <3>1, <3>3
  <2>4. d # c
    BY <1>1, <2>3, RankIs DEF Current
  <2>5. QED
    BY <1>4, <2>2, <2>4
<1>6. HeapInv'
  BY <1>2, <1>4 DEF IInv, HeapInv, Indices
<1>7. heap # EmptyBag
  BY <1>1, NothingInEmpty
<1>8. IInv'
  <2>1. Links(Len(word), next, prev, s)'
    BY <1>2, <1>3
  <2>2. QED
    BY <1>2, <1>5, <1>6, <1>7, <2>1 DEF IInv, Indices
<1>9. Tokens' = Tokens
  BY <1>2 DEF Tokens, Chain, Visited
<1>10. QED
  BY <1>2, <1>8, <1>9 DEF Definition!bvars

\* The heap is empty only when no two neighbours have a rank.
LEMMA EmitHolds ==
  ASSUME IInv, Len(word) \in Nat, Emit
  PROVE  IInv' /\ Definition!Finish
<1>1. heap = EmptyBag /\ ~done /\ done' = TRUE /\ UNCHANGED <<merges, word, cells, prev, next, heap>>
  BY DEF Emit
<1>2. PICK s : Links(Len(word), next, prev, s) /\ Complete(s)
  BY DEF IInv
<1>3. Tokens = [k \in 1 .. Len(s) |-> cells[s[k]]]
  BY <1>2, TokensOfChain
<1>4. Len(s) \in Nat
  BY <1>2, LenProperties DEF Links
<1>5. Len(Tokens) = Len(s)
  BY <1>3, <1>4
<1>6. Definition!Mergeable = {}
  <2> SUFFICES ASSUME NEW k \in 1 .. Len(s) - 1 PROVE Definition!RankAt(k) = 0
    BY <1>5 DEF Definition!Mergeable
  <2>1. Tokens[k] = cells[s[k]] /\ Tokens[k + 1] = cells[s[k + 1]]
    BY <1>3, <1>4
  <2>2. Definition!RankAt(k) = Definition!Rank(merges, cells[s[k]], cells[s[k + 1]])
    BY <2>1, RankIs DEF Definition!RankAt
  <2>3. QED
    BY <1>1, <1>2, <2>2, NothingInEmpty DEF Complete
<1>7. Tokens' = Tokens
  BY <1>1 DEF Tokens, Chain, Visited
<1>8. Definition!Finish
  BY <1>1, <1>6, <1>7 DEF Definition!Finish
<1>9. IInv'
  <2>1. Links(Len(word), next, prev, s)'
    BY <1>1, <1>2
  <2>2. Complete(s)'
    BY <1>1, <1>2 DEF Complete
  <2>3. HeapInv'
    BY <1>1 DEF IInv, HeapInv, Positive, Indices
  <2>4. QED
    BY <1>1, <2>1, <2>2, <2>3 DEF IInv, Indices
<1>10. QED
  BY <1>8, <1>9
\* The chain s and its links, and those after the cell at p + 1 is merged into
\* the one at p.
Merged(n, nx, pv, s, p, nx2, pv2, q) ==
  /\ \A x \in 0 .. n - 1 :
       nx2[x] = IF x = s[p + 1] THEN -1 ELSE IF x = s[p] THEN nx[s[p + 1]] ELSE nx[x]
  /\ \A x \in 0 .. n - 1 :
       pv2[x] = IF x = nx[s[p + 1]] THEN s[p] ELSE IF x = s[p + 1] THEN -1 ELSE pv[x]
  /\ q = [k \in 1 .. Len(s) - 1 |-> IF k <= p THEN s[k] ELSE s[k + 1]]

\* A merge takes one cell out of the chain and keeps the rest linked.
LEMMA Unlinked ==
  ASSUME NEW n \in Nat, NEW nx, NEW pv, NEW s, Links(n, nx, pv, s),
         NEW p \in 1 .. Len(s) - 1, NEW nx2, NEW pv2, NEW q,
         Merged(n, nx, pv, s, p, nx2, pv2, q)
  PROVE  Links(n, nx2, pv2, q)
<1> DEFINE l == Len(s)
           i == s[p]
           j == s[p + 1]
<1>1. /\ l \in Nat /\ p \in 1 .. l - 1 /\ \A k \in 1 .. l : s[k] \in 0 .. n - 1
      /\ p \in 1 .. l /\ p + 1 \in 1 .. l
  <2>1. s \in Seq(0 .. n - 1)
    BY DEF Links
  <2>2. l \in Nat /\ \A k \in 1 .. l : s[k] \in 0 .. n - 1
    BY <2>1, LenProperties, ElementOfSeq
  <2>3. p \in 1 .. l /\ p + 1 \in 1 .. l
    BY <2>2
  <2>4. QED
    BY <2>2, <2>3
<1>2. /\ \A k \in 1 .. l - 1 : nx[s[k]] = s[k + 1] /\ pv[s[k + 1]] = s[k]
      /\ \A k, m \in 1 .. l : k < m => s[k] < s[m]
      /\ \A x \in 0 .. n - 1 : (\A k \in 1 .. l : s[k] # x) => nx[x] = -1
  BY DEF Links
<1>3. l > 0 /\ s[1] = 0 /\ pv[0] = -1 /\ nx[s[l]] = -1
  <2>1. n > 0
    BY <1>1
  <2>2. QED
    BY <2>1 DEF Links
<1> HIDE DEF l
<1>4. \A k, m \in 1 .. l : s[k] = s[m] => k = m
  BY <1>1, <1>2
<1>5. nx[j] = IF p + 1 = l THEN -1 ELSE s[p + 2]
  <2>1. CASE p + 1 = l
    BY <1>3, <2>1
  <2>2. CASE p + 1 # l
    <3>1. p + 1 \in 1 .. l - 1 /\ p + 1 + 1 = p + 2
      BY <1>1, <2>2
    <3>2. QED
      BY <1>2, <2>2, <3>1
  <2>3. QED
    BY <2>1, <2>2
<1>6. /\ i \in 0 .. n - 1 /\ j \in 0 .. n - 1 /\ i # j
      /\ \A x \in 0 .. n - 1 : nx2[x] = IF x = j THEN -1 ELSE IF x = i THEN nx[j] ELSE nx[x]
  <2>1. i \in 0 .. n - 1 /\ j \in 0 .. n - 1 /\ i # j
    BY <1>1, <1>4
  <2>2. QED
    BY <2>1 DEF Merged
<1>7. \A x \in 0 .. n - 1 : pv2[x] = IF x = nx[j] THEN i ELSE IF x = j THEN -1 ELSE pv[x]
  BY DEF Merged
<1>8. q \in Seq(0 .. n - 1) /\ Len(q) = l - 1 /\ l - 1 \in Nat
  <2>1. l - 1 \in Nat /\ \A k \in 1 .. l - 1 : k \in 1 .. l /\ k + 1 \in 1 .. l
    BY <1>1
  <2>2. q \in [1 .. l - 1 -> 0 .. n - 1]
    BY <1>1, <2>1 DEF l, Merged
  <2>3. QED
    BY <2>1, <2>2, FunctionIsSeq
<1>9. \A k \in 1 .. l - 1 : q[k] = IF k <= p THEN s[k] ELSE s[k + 1]
  BY DEF l, Merged
<1>10. n > 0 => l - 1 > 0 /\ q[1] = 0 /\ pv2[0] = -1 /\ nx2[q[l - 1]] = -1
  <2>1. l - 1 > 0 /\ q[1] = 0
    BY <1>1, <1>3, <1>9
  <2>2. pv2[0] = -1
    <3>1. 0 \in 0 .. n - 1 /\ 0 # nx[j] /\ 0 # j
      <4>1. 1 \in 1 .. l /\ (p + 1 # l => p + 2 \in 1 .. l)
        BY <1>1, <1>3
      <4>2. 0 # j
        BY <1>1, <1>3, <1>4, <4>1
      <4>3. 0 # nx[j]
        BY <1>1, <1>3, <1>4, <1>5, <4>1
      <4>4. QED
        BY <1>1, <4>2, <4>3
    <3>2. QED
      BY <1>3, <1>7, <3>1
  <2>3. nx2[q[l - 1]] = -1
    <3>1. CASE p + 1 = l
      <4>1. q[l - 1] = i
        BY <1>1, <1>9, <3>1
      <4>2. QED
        BY <1>5, <1>6, <3>1, <4>1
    <3>2. CASE p + 1 # l
      <4>1. l - 1 \in 1 .. l - 1 /\ ~(l - 1 <= p) /\ l - 1 + 1 = l /\ l \in 1 .. l
        BY <1>1, <3>2
      <4>2. q[l - 1] = s[l]
        BY <1>9, <4>1
      <4>3. s[l] # i /\ s[l] # j
        BY <1>1, <1>4, <3>2, <4>1
      <4>4. QED
        BY <1>1, <1>3, <1>6, <4>1, <4>2, <4>3
    <3>3. QED
      BY <3>1, <3>2
  <2>4. QED
    BY <2>1, <2>2, <2>3
<1>11. \A k \in 1 .. l - 2 : nx2[q[k]] = q[k + 1] /\ pv2[q[k + 1]] = q[k]
  <2> SUFFICES ASSUME NEW k \in 1 .. l - 2
               PROVE  nx2[q[k]] = q[k + 1] /\ pv2[q[k + 1]] = q[k]
    OBVIOUS
  <2>1. /\ k \in 1 .. l /\ k + 1 \in 1 .. l /\ k + 2 \in 1 .. l /\ k + 1 + 1 = k + 2
        /\ k \in 1 .. l - 1 /\ k + 1 \in 1 .. l - 1
    BY <1>1
  <2>2. CASE k < p
    <3>1. q[k] = s[k] /\ q[k + 1] = s[k + 1]
      BY <1>1, <1>9, <2>1, <2>2
    <3>2. s[k] # i /\ s[k] # j /\ s[k + 1] # j
      <4>1. k # p /\ k # p + 1 /\ k + 1 # p + 1
        BY <1>1, <2>2
      <4>2. QED
        BY <1>1, <1>4, <2>1, <4>1
    <3>3. s[k + 1] # nx[j]
      <4>1. p + 1 # l => p + 2 \in 1 .. l /\ k + 1 # p + 2
        BY <1>1, <2>2
      <4>2. QED
        BY <1>1, <1>4, <1>5, <2>1, <4>1
    <3>4. nx[s[k]] = s[k + 1] /\ pv[s[k + 1]] = s[k]
      BY <1>2, <2>1
    <3>5. QED
      BY <1>1, <1>6, <1>7, <2>1, <3>1, <3>2, <3>3, <3>4
  <2>3. CASE k = p
    <3>1. q[k] = i /\ q[k + 1] = s[p + 2] /\ p + 1 # l
      BY <1>1, <1>9, <2>1, <2>3
    <3>2. nx[j] = s[p + 2] /\ s[p + 2] \in 0 .. n - 1
      BY <1>1, <1>5, <2>1, <2>3, <3>1
    <3>3. QED
      BY <1>6, <1>7, <3>1, <3>2
  <2>4. CASE k > p
    <3>1. q[k] = s[k + 1] /\ q[k + 1] = s[k + 2]
      BY <1>1, <1>9, <2>1, <2>4
    <3>2. k + 1 # p + 1 /\ k + 1 # p /\ k + 2 # p + 1 /\ k + 2 # p + 2 /\ (p + 1 # l => p + 2 \in 1 .. l)
      BY <1>1, <2>1, <2>4
    <3>3. s[k + 1] # i /\ s[k + 1] # j /\ s[k + 2] # j
      BY <1>1, <1>4, <2>1, <3>2
    <3>4. s[k + 2] # nx[j]
      BY <1>1, <1>4, <1>5, <2>1, <3>2
    <3>5. nx[s[k + 1]] = s[k + 2] /\ pv[s[k + 2]] = s[k + 1]
      BY <1>2, <2>1
    <3>6. QED
      BY <1>1, <1>6, <1>7, <2>1, <3>1, <3>3, <3>4, <3>5
  <2>5. QED
    BY <1>1, <2>2, <2>3, <2>4
<1>12. \A k, m \in 1 .. l - 1 : k < m => q[k] < q[m]
  <2> SUFFICES ASSUME NEW k \in 1 .. l - 1, NEW m \in 1 .. l - 1, k < m PROVE q[k] < q[m]
    OBVIOUS
  <2>1. k \in 1 .. l /\ k + 1 \in 1 .. l /\ m \in 1 .. l /\ m + 1 \in 1 .. l
    BY <1>1
  <2>2. k < m /\ k < m + 1 /\ k + 1 < m + 1
    BY <1>1
  <2>3. QED
    BY <1>1, <1>2, <1>9, <2>1, <2>2
<1>13. \A x \in 0 .. n - 1 : (\A k \in 1 .. l - 1 : q[k] # x) => nx2[x] = -1
  <2> SUFFICES ASSUME NEW x \in 0 .. n - 1, \A k \in 1 .. l - 1 : q[k] # x, x # j
               PROVE  nx2[x] = -1
    BY <1>6
  <2>1. \A k \in 1 .. l : s[k] # x
    <3> SUFFICES ASSUME NEW k \in 1 .. l, k # p + 1 PROVE s[k] # x
      OBVIOUS
    <3>1. CASE k <= p
      <4>1. k \in 1 .. l - 1 /\ q[k] = s[k]
        BY <1>1, <1>9, <3>1
      <4>2. QED
        BY <4>1
    <3>2. CASE ~(k <= p)
      <4>1. k - 1 \in 1 .. l - 1 /\ ~(k - 1 <= p) /\ k - 1 + 1 = k
        BY <1>1, <3>2
      <4>2. q[k - 1] = s[k]
        BY <1>9, <4>1
      <4>3. QED
        BY <4>1, <4>2
    <3>3. QED
      BY <3>1, <3>2
  <2>2. x # i /\ nx[x] = -1
    BY <1>1, <1>2, <2>1
  <2>3. QED
    BY <1>6, <2>2
<1>14. l - 1 - 1 = l - 2
  BY <1>1
<1>15. QED
  BY <1>8, <1>10, <1>11, <1>12, <1>13, <1>14 DEF Links
\* The smallest candidate that stands is the best pair, and the pairs the
\* merge makes are pushed.
LEMMA MergeHolds ==
  ASSUME IInv, Len(word) \in Nat, Merge
  PROVE  IInv' /\ Definition!Merge
<1> DEFINE n == Len(word)
           R(a, b) == Definition!Rank(merges, a, b)
<1>1. PICK c \in DOMAIN heap :
        /\ Smallest(c) /\ Current(c)
        /\ cells' = [cells EXCEPT ![c[2]] = @ \o cells[next[c[2]]]]
        /\ next' = [next EXCEPT ![c[2]] = next[next[c[2]]], ![next[c[2]]] = -1]
        /\ prev' = Relinked(c[2], next[c[2]])
        /\ heap' = Pushed(c, c[2], next[next[c[2]]])
  BY DEF Merge
<1>2. UNCHANGED <<merges, word, done>>
  BY DEF Merge
<1>3. PICK s : Links(n, next, prev, s) /\ Complete(s)
  BY DEF IInv
<1> DEFINE l == Len(s)
<1>4. /\ c[2] \in 0 .. n - 1 /\ c[1] # 0
      /\ next = [x \in 0 .. n - 1 |-> next[x]]
      /\ cells = [x \in 0 .. n - 1 |-> cells[x]]
      /\ Positive(heap)
  BY DEF IInv, HeapInv, Indices
<1>5. s \in Seq(0 .. n - 1) /\ l \in Nat /\ \A k \in 1 .. l : s[k] \in 0 .. n - 1
  <2>1. s \in Seq(0 .. n - 1)
    BY <1>3 DEF Links
  <2>2. QED
    BY <2>1, LenProperties, ElementOfSeq
<1>6. /\ \A k \in 1 .. l - 1 : next[s[k]] = s[k + 1] /\ prev[s[k + 1]] = s[k]
      /\ \A k, m \in 1 .. l : k < m => s[k] < s[m]
      /\ l > 0 => s[1] = 0 /\ prev[0] = -1 /\ next[s[l]] = -1
  <2>1. l > 0 => n > 0
    <3> SUFFICES ASSUME l > 0 PROVE n > 0
      OBVIOUS
    <3>1. s[1] \in 0 .. n - 1
      BY <1>5
    <3>2. QED
      BY <3>1
  <2>2. QED
    BY <1>3, <2>1 DEF Links
<1>7. PICK p \in 1 .. l - 1 : s[p] = c[2]
  <2>1. next[c[2]] # -1
    BY <1>1 DEF Current
  <2>2. PICK p \in 1 .. l : s[p] = c[2]
    BY <1>3, <1>4, <2>1 DEF Links
  <2>3. p # l
    BY <1>5, <1>6, <2>1, <2>2
  <2>4. QED
    BY <1>5, <2>2, <2>3
<1> DEFINE i == s[p]
           j == s[p + 1]
           nj == next[j]
           u == cells[i] \o cells[j]
           q == [k \in 1 .. l - 1 |-> IF k <= p THEN s[k] ELSE s[k + 1]]
<1> HIDE DEF l
<1>8. /\ c[2] = i /\ next[i] = j /\ c[1] = R(cells[i], cells[j])
      /\ i \in 0 .. n - 1 /\ j \in 0 .. n - 1 /\ i < j
  <2>1. c[2] = i /\ next[i] = j
    BY <1>6, <1>7
  <2>2. R(cells[i], cells[j]) = c[1]
    BY <1>1, <2>1, RankIs DEF Current
  <2>3. p \in 1 .. l /\ p + 1 \in 1 .. l /\ p < p + 1
    BY <1>5
  <2>4. QED
    BY <1>5, <1>6, <2>1, <2>2, <2>3
<1>9. Links(n, next', prev', q)
  <2>1. /\ next' = [next EXCEPT ![i] = next[j], ![j] = -1]
        /\ prev' = [x \in 0 .. n - 1 |-> IF x = next[j] THEN i ELSE IF x = j THEN -1 ELSE prev[x]]
    BY <1>1, <1>8 DEF Relinked, Indices
  <2>2. n \in Nat /\ p \in 1 .. Len(s) - 1
    BY DEF l
  <2>3. \A x \in 0 .. n - 1 :
          next'[x] = IF x = j THEN -1 ELSE IF x = i THEN next[j] ELSE next[x]
    BY <1>4, <1>8, <2>1
  <2>4. \A x \in 0 .. n - 1 :
          prev'[x] = IF x = next[j] THEN i ELSE IF x = j THEN -1 ELSE prev[x]
    BY <2>1
  <2>5. q = [k \in 1 .. Len(s) - 1 |-> IF k <= p THEN s[k] ELSE s[k + 1]]
    BY DEF l
  <2>6. Merged(n, next, prev, s, p, next', prev', q)
    BY <2>3, <2>4, <2>5 DEF Merged
  <2>7. Links(n, next, prev, s)
    BY <1>3
  <2> HIDE DEF n, q
  <2>8. QED
    BY <2>2, <2>6, <2>7, Unlinked
<1>10. cells' = [x \in 0 .. n - 1 |-> IF x = i THEN u ELSE cells[x]]
  BY <1>1, <1>4, <1>8
<1>11. \A k \in 1 .. l - 1 : q[k] = IF k <= p THEN s[k] ELSE s[k + 1]
  OBVIOUS
<1>12. \A k, m \in 1 .. l : s[k] = s[m] => k = m
  BY <1>5, <1>6
<1>13. nj = IF p + 1 = l THEN -1 ELSE s[p + 2]
  <2>1. CASE p + 1 = l
    BY <1>5, <1>6, <2>1
  <2>2. CASE p + 1 # l
    <3>1. p + 1 \in 1 .. l - 1 /\ p + 1 + 1 = p + 2
      BY <1>5, <2>2
    <3>2. QED
      BY <1>6, <2>2, <3>1
  <2>3. QED
    BY <2>1, <2>2
<1>14. prev[i] = IF p = 1 THEN -1 ELSE s[p - 1]
  <2>1. CASE p = 1
    BY <1>5, <1>6, <2>1
  <2>2. CASE p # 1
    <3>1. p - 1 \in 1 .. l - 1 /\ p - 1 + 1 = p
      BY <1>5, <2>2
    <3>2. QED
      BY <1>6, <2>2, <3>1
  <2>3. QED
    BY <2>1, <2>2
<1> DEFINE toLeft == IF prev[i] >= 0 THEN Candidate(cells[prev[i]], cells'[i], prev[i]) ELSE EmptyBag
           toRight == IF nj >= 0 THEN Candidate(cells'[i], cells[nj], i) ELSE EmptyBag
           popped == heap (-) SetToBag({c})
<1>15. heap' = popped (+) toLeft (+) toRight
  BY <1>1, <1>8 DEF Pushed
<1>16. /\ Positive(popped) /\ DOMAIN popped \subseteq DOMAIN heap
       /\ DOMAIN heap \ {c} \subseteq DOMAIN popped
  BY <1>4, TakenOut
<1>17. /\ Positive(toLeft)
       /\ \A d \in DOMAIN toLeft : d[1] # 0 /\ d[2] = prev[i] /\ prev[i] >= 0
       /\ p # 1 => LET r == R(cells[s[p - 1]], u) IN r # 0 => <<r, s[p - 1]>> \in DOMAIN toLeft
  <2>1. cells'[i] = u
    BY <1>8, <1>10
  <2>2. CASE prev[i] >= 0
    <3>1. toLeft = Candidate(cells[prev[i]], u, prev[i])
      BY <2>1, <2>2
    <3> HIDE DEF toLeft
    <3>2. QED
      BY <1>14, <2>2, <3>1, CandidateHolds, RankIs
  <2>3. CASE ~(prev[i] >= 0)
    <3>1. p # 1 => p - 1 \in 1 .. l
      BY <1>5
    <3>2. p = 1
      BY <1>5, <1>14, <2>3, <3>1
    <3>3. toLeft = EmptyBag
      BY <2>3
    <3> HIDE DEF toLeft
    <3>4. QED
      BY <3>2, <3>3, NothingInEmpty
  <2>4. QED
    BY <2>2, <2>3
<1>18. /\ Positive(toRight)
       /\ \A d \in DOMAIN toRight : d[1] # 0 /\ d[2] = i
       /\ p + 1 # l => LET r == R(u, cells[s[p + 2]]) IN r # 0 => <<r, i>> \in DOMAIN toRight
  <2>1. cells'[i] = u
    BY <1>8, <1>10
  <2>2. CASE nj >= 0
    <3>1. toRight = Candidate(u, cells[nj], i)
      BY <2>1, <2>2
    <3> HIDE DEF toRight
    <3>2. QED
      BY <1>13, <2>2, <3>1, CandidateHolds, RankIs
  <2>3. CASE ~(nj >= 0)
    <3>1. p + 1 # l => p + 2 \in 1 .. l
      BY <1>5
    <3>2. p + 1 = l
      BY <1>5, <1>13, <2>3, <3>1
    <3>3. toRight = EmptyBag
      BY <2>3
    <3> HIDE DEF toRight
    <3>4. QED
      BY <3>2, <3>3, NothingInEmpty
  <2>4. QED
    BY <2>2, <2>3
<1> HIDE DEF popped, toLeft, toRight, q, u, nj
<1>19. Positive(heap') /\ DOMAIN heap' = DOMAIN popped \cup DOMAIN toLeft \cup DOMAIN toRight
  <2>1. Positive(popped (+) toLeft) /\ DOMAIN (popped (+) toLeft) = DOMAIN popped \cup DOMAIN toLeft
    BY <1>16, <1>17, PutTogether
  <2>2. QED
    BY <1>15, <1>18, <2>1, PutTogether
<1>20. HeapInv'
  <2>1. \A d \in DOMAIN heap : d[1] # 0 /\ d[2] \in 0 .. n - 1
    BY DEF IInv, HeapInv, Indices
  <2>2. prev[i] >= 0 => prev[i] \in 0 .. n - 1
    BY <1>5, <1>14
  <2>3. \A d \in DOMAIN heap' : d[1] # 0 /\ d[2] \in 0 .. n - 1
    BY <1>8, <1>16, <1>17, <1>18, <1>19, <2>1, <2>2
  <2>4. QED
    BY <1>2, <1>19, <2>3 DEF HeapInv, Indices
<1>21. Complete(q)'
  <2>1. Len(q) = l - 1
    BY <1>5 DEF q
  <2> DEFINE r(k) == R(cells'[q[k]], cells'[q[k + 1]])
  <2>2. SUFFICES ASSUME NEW k \in 1 .. l - 2, r(k) # 0
                 PROVE  <<r(k), q[k]>> \in DOMAIN heap'
    <3>1. l - 1 - 1 = l - 2
      BY <1>5
    <3>2. QED
      BY <1>2, <2>1, <3>1 DEF Complete
  <2>3. /\ k \in 1 .. l /\ k + 1 \in 1 .. l /\ k + 2 \in 1 .. l /\ k + 1 + 1 = k + 2
        /\ k \in 1 .. l - 1 /\ k + 1 \in 1 .. l - 1
    BY <1>5
  <2>4. \A m \in 1 .. l : m # p => cells'[s[m]] = cells[s[m]]
    <3> SUFFICES ASSUME NEW m \in 1 .. l, m # p PROVE cells'[s[m]] = cells[s[m]]
      OBVIOUS
    <3>1. p \in 1 .. l
      BY <1>5
    <3>2. s[m] # i /\ s[m] \in 0 .. n - 1
      BY <1>5, <1>12, <3>1
    <3>3. QED
      BY <1>10, <3>2
  <2>5. cells'[i] = u
    BY <1>8, <1>10
  <2>6. \A m \in 1 .. l - 1 : m # p =>
          LET x == R(cells[s[m]], cells[s[m + 1]]) IN x # 0 => <<x, s[m]>> \in DOMAIN popped
    <3> SUFFICES ASSUME NEW m \in 1 .. l - 1, m # p, R(cells[s[m]], cells[s[m + 1]]) # 0
                 PROVE  <<R(cells[s[m]], cells[s[m + 1]]), s[m]>> \in DOMAIN popped
      OBVIOUS
    <3> DEFINE d == <<R(cells[s[m]], cells[s[m + 1]]), s[m]>>
    <3>1. d \in DOMAIN heap
      BY <1>3 DEF Complete, l
    <3>2. m \in 1 .. l /\ p \in 1 .. l
      BY <1>5
    <3>3. d[2] # c[2]
      BY <1>7, <1>12, <3>2
    <3>4. d # c
      BY <3>3
    <3>5. QED
      BY <1>16, <3>1, <3>4
  <2>7. CASE k < p - 1
    <3>1. q[k] = s[k] /\ q[k + 1] = s[k + 1] /\ k # p /\ k + 1 # p
      BY <1>5, <1>11, <2>3, <2>7
    <3>2. r(k) = R(cells[s[k]], cells[s[k + 1]])
      BY <2>3, <2>4, <3>1
    <3>3. QED
      BY <1>19, <2>2, <2>3, <2>6, <3>1, <3>2
  <2>8. CASE k = p - 1
    <3>1. q[k] = s[k] /\ q[k + 1] = i /\ k # p /\ p # 1 /\ k + 1 = p
      BY <1>5, <1>11, <2>3, <2>8
    <3>2. r(k) = R(cells[s[p - 1]], u)
      BY <2>3, <2>4, <2>5, <2>8, <3>1
    <3>3. QED
      BY <1>17, <1>19, <2>2, <2>8, <3>1, <3>2
  <2>9. CASE k = p
    <3>1. q[k] = i /\ q[k + 1] = s[p + 2] /\ p + 2 # p /\ p + 1 # l /\ p + 2 \in 1 .. l
      BY <1>5, <1>11, <2>3, <2>9
    <3>2. r(k) = R(u, cells[s[p + 2]])
      BY <2>4, <2>5, <2>9, <3>1
    <3>3. QED
      BY <1>18, <1>19, <2>2, <3>1, <3>2
  <2>10. CASE k > p
    <3>1. q[k] = s[k + 1] /\ q[k + 1] = s[k + 1 + 1] /\ k + 1 # p /\ k + 1 + 1 # p
      BY <1>5, <1>11, <2>3, <2>10
    <3>2. r(k) = R(cells[s[k + 1]], cells[s[k + 1 + 1]])
      BY <2>3, <2>4, <3>1
    <3>3. QED
      BY <1>19, <2>2, <2>3, <2>6, <3>1, <3>2
  <2>11. k < p - 1 \/ k = p - 1 \/ k = p \/ k > p
    BY <1>5
  <2>12. QED
    BY <2>7, <2>8, <2>9, <2>10, <2>11
<1>22. IInv'
  <2>1. next' \in [0 .. n - 1 -> 0 .. n - 1 \cup {-1}] /\ prev' \in [0 .. n - 1 -> 0 .. n - 1 \cup {-1}]
    <3>1. nj \in 0 .. n - 1 \cup {-1}
      <4>1. p + 1 # l => p + 2 \in 1 .. l
        BY <1>5
      <4>2. QED
        BY <1>5, <1>13, <4>1
    <3>2. next \in [0 .. n - 1 -> 0 .. n - 1 \cup {-1}] /\ prev \in [0 .. n - 1 -> 0 .. n - 1 \cup {-1}]
      BY DEF IInv, Indices
    <3>3. /\ next' = [next EXCEPT ![i] = nj, ![j] = -1]
          /\ prev' = [x \in 0 .. n - 1 |-> IF x = nj THEN i ELSE IF x = j THEN -1 ELSE prev[x]]
      BY <1>1, <1>8 DEF Relinked, Indices, nj
    <3>4. QED
      BY <1>8, <3>1, <3>2, <3>3
  <2>2. cells' = [x \in 0 .. n - 1 |-> cells'[x]]
    BY <1>10
  <2>3. heap # EmptyBag
    BY <1>1, NothingInEmpty
  <2>4. \E t : Links(Len(word)', next', prev', t) /\ Complete(t)'
    BY <1>2, <1>9, <1>21
  <2>5. QED
    BY <1>2, <1>20, <2>1, <2>2, <2>3, <2>4 DEF IInv, Indices
<1> DEFINE t == Tokens
<1>23. t = [k \in 1 .. l |-> cells[s[k]]]
  BY <1>3, TokensOfChain DEF l
<1>24. Tokens' = [k \in 1 .. l - 1 |-> cells'[q[k]]]
  <2>1. Chain' = q
    BY <1>2, <1>9, VisitedIs DEF Chain
  <2>2. DOMAIN q = 1 .. l - 1
    BY DEF q
  <2>3. QED
    BY <2>1, <2>2 DEF Tokens
<1> DEFINE S == {cells[x] : x \in 0 .. n - 1} \cup {u}
<1>25. t \in Seq(S) /\ Len(t) = l /\ u \in S
  <2>1. t \in [1 .. l -> S]
    BY <1>5, <1>23
  <2> HIDE DEF t, S
  <2>2. t \in Seq(S) /\ Len(t) = l
    BY <1>5, <2>1, FunctionIsSeq
  <2>3. QED
    BY <2>2 DEF S
<1>26. \A k \in 1 .. l - 1 : Definition!RankAt(k) = R(cells[s[k]], cells[s[k + 1]])
  <2> SUFFICES ASSUME NEW k \in 1 .. l - 1
               PROVE  Definition!RankAt(k) = R(cells[s[k]], cells[s[k + 1]])
    OBVIOUS
  <2>1. k \in 1 .. l /\ k + 1 \in 1 .. l
    BY <1>5
  <2>2. t[k] = cells[s[k]] /\ t[k + 1] = cells[s[k + 1]]
    BY <1>23, <2>1
  <2>3. QED
    BY <2>2 DEF Definition!RankAt
<1> HIDE DEF R
<1>27. Definition!Best(p)
  <2>1. Definition!Mergeable = {k \in 1 .. l - 1 : R(cells[s[k]], cells[s[k + 1]]) # 0}
    BY <1>25, <1>26 DEF Definition!Mergeable
  <2>2. Definition!RankAt(p) = c[1] /\ p \in Definition!Mergeable
    BY <1>4, <1>8, <1>26, <2>1
  <2>3. ASSUME NEW k \in Definition!Mergeable
        PROVE  \/ Definition!RankAt(p) < Definition!RankAt(k)
               \/ Definition!RankAt(p) = Definition!RankAt(k) /\ p <= k
    <3> DEFINE d == <<R(cells[s[k]], cells[s[k + 1]]), s[k]>>
    <3>1. k \in 1 .. l - 1 /\ Definition!RankAt(k) = d[1] /\ d[1] # 0
      BY <1>26, <2>1
    <3>2. d \in DOMAIN heap
      BY <1>3, <3>1 DEF Complete, l, R
    <3>3. c[1] < d[1] \/ (c[1] = d[1] /\ c[2] <= d[2])
      BY <1>1, <3>2 DEF Smallest
    <3>4. s[p] <= s[k] => p <= k
      <4>1. k \in 1 .. l /\ p \in 1 .. l
        BY <1>5, <3>1
      <4>2. k < p => s[k] < s[p]
        BY <1>6, <4>1
      <4>3. QED
        BY <1>5, <4>1, <4>2
    <3>5. QED
      BY <1>7, <2>2, <3>1, <3>3, <3>4
  <2>4. QED
    BY <2>2, <2>3 DEF Definition!Best
<1>28. Tokens' = SubSeq(t, 1, p - 1) \o <<t[p] \o t[p + 1]>> \o SubSeq(t, p + 2, Len(t))
  <2>1. t[p] \o t[p + 1] = u
    <3>1. p \in 1 .. l /\ p + 1 \in 1 .. l
      BY <1>5
    <3>2. t[p] = cells[i] /\ t[p + 1] = cells[j]
      BY <1>23, <3>1
    <3>3. QED
      BY <3>2 DEF u
  <2> HIDE DEF t, S
  <2>2. p \in 1 .. Len(t) - 1
    BY <1>25
  <2> DEFINE out == Replaced(t, p, u)
  <2>3. /\ out \in Seq(S) /\ Len(out) = Len(t) - 1
        /\ \A k \in 1 .. Len(t) - 1 :
             out[k] = IF k < p THEN t[k] ELSE IF k = p THEN u ELSE t[k + 1]
    <3>1. t \in Seq(S) /\ u \in S
      BY <1>25
    <3>2. QED
      BY <2>2, <3>1, MergedPlaces
  <2> HIDE DEF out
  <2>4. \A k \in 1 .. l - 1 :
          cells'[q[k]] = IF k < p THEN t[k] ELSE IF k = p THEN u ELSE t[k + 1]
    <3> SUFFICES ASSUME NEW k \in 1 .. l - 1
                 PROVE  cells'[q[k]] = IF k < p THEN t[k] ELSE IF k = p THEN u ELSE t[k + 1]
      OBVIOUS
    <3>1. k \in 1 .. l /\ k + 1 \in 1 .. l /\ p \in 1 .. l
      BY <1>5
    <3>2. \A m \in 1 .. l : m # p => cells'[s[m]] = t[m]
      <4> SUFFICES ASSUME NEW m \in 1 .. l, m # p PROVE cells'[s[m]] = t[m]
        OBVIOUS
      <4>1. s[m] # i /\ s[m] \in 0 .. n - 1
        BY <1>5, <1>12, <3>1
      <4>2. QED
        BY <1>10, <1>23, <4>1 DEF t
    <3>3. CASE k < p
      <4>1. q[k] = s[k] /\ k # p
        BY <1>5, <1>11, <3>1, <3>3
      <4>2. QED
        BY <3>1, <3>2, <3>3, <4>1
    <3>4. CASE k = p
      <4>1. q[k] = i /\ ~(k < p)
        BY <1>5, <1>11, <3>1, <3>4
      <4>2. QED
        BY <1>8, <1>10, <3>4, <4>1
    <3>5. CASE k > p
      <4>1. q[k] = s[k + 1] /\ k + 1 # p /\ ~(k < p) /\ k # p
        BY <1>5, <1>11, <3>1, <3>5
      <4>2. QED
        BY <3>1, <3>2, <4>1
    <3>6. QED
      BY <1>5, <3>1, <3>3, <3>4, <3>5
  <2>5. Tokens' = out
    <3>1. out \in [1 .. l - 1 -> S]
      BY <1>25, <2>3, LenProperties
    <3>2. QED
      BY <1>24, <1>25, <2>3, <2>4, <3>1
  <2>6. QED
    BY <2>1, <2>5 DEF out, Replaced
<1>29. ~done
  BY <1>1, NothingInEmpty DEF IInv
<1>30. p \in Definition!Mergeable
  BY <1>27 DEF Definition!Best
<1>31. Definition!Merge
  BY <1>2, <1>27, <1>28, <1>29, <1>30 DEF Definition!Merge
<1>32. QED
  BY <1>22, <1>31

-----------------------------------------------------------------------------
(* The theorem.                                                            *)

WordsAreTexts == \E Chars : Words \subseteq Seq(Chars)

LEMMA WordIsSeq ==
  ASSUME WordsAreTexts, word \in Words
  PROVE  Len(word) \in Nat /\ DOMAIN word = 1 .. Len(word)
BY LenProperties DEF WordsAreTexts

LEMMA StepHolds ==
  ASSUME WordsAreTexts, IInv, [Next]_vars
  PROVE  IInv' /\ [Definition!Next]_Definition!bvars
<1>1. Len(word) \in Nat
  BY WordIsSeq DEF IInv
<1>2. CASE Skip
  BY <1>2, SkipHolds
<1>3. CASE Merge
  BY <1>1, <1>3, MergeHolds DEF Definition!Next
<1>4. CASE Emit
  BY <1>1, <1>4, EmitHolds DEF Definition!Next
<1>5. CASE UNCHANGED vars
  <2>1. UNCHANGED <<merges, word, cells, prev, next, heap, done>>
    BY <1>5 DEF vars
  <2>2. Tokens' = Tokens
    BY <2>1 DEF Tokens, Chain, Visited
  <2>3. IInv'
    <3>1. PICK s : Links(Len(word), next, prev, s) /\ Complete(s)
      BY DEF IInv
    <3>2. Links(Len(word), next, prev, s)' /\ Complete(s)'
      BY <2>1, <3>1 DEF Complete
    <3>3. QED
      BY <2>1, <3>2 DEF IInv, HeapInv, Positive, Indices
  <2>4. QED
    BY <2>1, <2>2, <2>3 DEF Definition!bvars
<1>6. QED
  BY <1>2, <1>3, <1>4, <1>5 DEF Next

\* The loop of bpe_merge, with its heap that keeps outdated candidates and its
\* cells linked both ways, takes only steps that byte pair encoding takes: each
\* merge is of the leftmost pair of the lowest rank, and it ends only when no
\* pair is left.
THEOREM LoopImplementsDefinition ==
  ASSUME WordsAreTexts
  PROVE  Spec => ImplementsBpe
<1>1. Init => IInv /\ Definition!Init
  <2> SUFFICES ASSUME Init PROVE IInv /\ Definition!Init
    OBVIOUS
  <2>1. word \in Words
    BY DEF Init
  <2>2. QED
    BY <2>1, WordIsSeq, InitHolds
<1>2. IInv /\ [Next]_vars => IInv' /\ [Definition!Next]_Definition!bvars
  BY StepHolds
<1>3. QED
  BY <1>1, <1>2, PTL DEF Spec, ImplementsBpe, Definition!Spec
=============================================================================
