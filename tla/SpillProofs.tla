----------------------------- MODULE SpillProofs ----------------------------
(***************************************************************************)
(* Proofs about Spill, for any number of layers and experts, any           *)
(* checkpoint that is well formed, any window, depth and number of         *)
(* selections, and wherever a call that advises fails.                     *)
(***************************************************************************)
EXTENDS Spill, FiniteSetTheorems, WellFoundedInduction, SequenceTheorems, TLAPS

\* The index is that of the files, or there is none.
IndexInv ==
  \/ index = [layer \in Layers |-> <<>>]
  \/ OpenSucceeds(files) /\ index = BuildIndex(files)

\* The entry of a layer's ring before the position is its last selection.
HistInv ==
  /\ DOMAIN used = DOMAIN hist
  /\ \A layer \in DOMAIN hist :
       /\ hist[layer].pos \in 0 .. Window - 1
       /\ hist[layer].recent \in [0 .. Window - 1 -> Selections \cup {<<>>}]
       /\ used[layer] \in Seq(Selections)
       /\ used[layer] # <<>> => PredictReuse(hist[layer]) = Last(used[layer])
  /\ DOMAIN hist \subseteq Layers

IInv ==
  /\ files \in FileSets
  /\ IndexInv
  /\ HistInv
  /\ state = "closed" => hist = <<>>

-----------------------------------------------------------------------------
(* Numbers and sequences.                                                  *)

\* A set of naturals has a smallest element.
LEMMA Smallest ==
  ASSUME NEW T \in SUBSET Nat, T # {}
  PROVE  \E m \in T : \A n \in T : m <= n
<1>1. \E R : IsWellFoundedOn(R, Nat) /\ \A n, m \in Nat : n < m => <<n, m>> \in R
  BY NatLessThanWellFounded DEF OpToRel
<1>2. PICK R : IsWellFoundedOn(R, Nat) /\ \A n, m \in Nat : n < m => <<n, m>> \in R
  BY <1>1
<1>3. PICK m \in T : \A n \in T : ~(<<n, m>> \in R)
  <2>1. IsWellFoundedOn(R, Nat) /\ T \subseteq Nat /\ T # {}
    BY <1>2
  <2>2. QED
    BY <2>1, WFMin, Zenon
<1>4. \A n \in T : ~(n < m)
  BY <1>2, <1>3
<1>5. QED
  BY <1>4

\* The recursion in FlattenSeq has a solution, and it is unfolded.
LEMMA FlattenUnfolds ==
  ASSUME NEW ss, Len(ss) \in Nat \ {0}
  PROVE  \E f : /\ f = [i \in 1 .. Len(ss) |-> IF i = 1 THEN ss[i] ELSE f[i - 1] \o ss[i]]
                /\ FlattenSeq(ss) = f[Len(ss)]
<1> DEFINE n == Len(ss)
           Rec(f) == f = [i \in 1 .. n |-> IF i = 1 THEN ss[i] ELSE f[i - 1] \o ss[i]]
           Upto(m, f) == \A i \in 1 .. m : f[i] = IF i = 1 THEN ss[i] ELSE f[i - 1] \o ss[i]
           Lost == {m \in 0 .. n : ~ \E f : Upto(m, f)}
<1>1. n \in Nat \ {0}
  OBVIOUS
<1> HIDE DEF n
<1>2. Lost = {}
  <2>1. SUFFICES ASSUME Lost # {} PROVE FALSE
    OBVIOUS
  <2>2. Lost \in SUBSET Nat
    BY <1>1
  <2>3. PICK m \in Lost : \A k \in Lost : m <= k
    BY <2>1, <2>2, Smallest
  <2>4. m \in 0 .. n /\ ~ \E f : Upto(m, f)
    OBVIOUS
  <2>5. m # 0
    BY <2>4
  <2>6. m - 1 \in 0 .. n /\ m - 1 \notin Lost
    <3> HIDE DEF Lost, Upto
    <3>1. m - 1 \in 0 .. n /\ ~(m <= m - 1)
      BY <1>1, <2>4, <2>5
    <3>2. QED
      BY <2>3, <3>1
  <2>7. PICK f : Upto(m - 1, f)
    BY <2>6
  <2> DEFINE g == [i \in 1 .. m |-> IF i < m THEN f[i] ELSE IF i = 1 THEN ss[i] ELSE f[i - 1] \o ss[i]]
  <2>8. Upto(m, g)
    <3> SUFFICES ASSUME NEW i \in 1 .. m PROVE g[i] = IF i = 1 THEN ss[i] ELSE g[i - 1] \o ss[i]
      OBVIOUS
    <3>1. CASE i < m
      BY <2>4, <2>7, <3>1
    <3>2. CASE i = m
      BY <2>4, <2>7, <3>2
    <3>3. QED
      BY <2>4, <3>1, <3>2
  <2>9. QED
    BY <2>4, <2>8
<1>3. \E f : Upto(n, f)
  <2> HIDE DEF Upto
  <2>1. n \in 0 .. n
    BY <1>1
  <2>2. QED
    BY <1>2, <2>1
<1>4. PICK f : Upto(n, f)
  BY <1>3
<1> DEFINE g == [i \in 1 .. n |-> f[i]]
<1>5. Rec(g)
  <2>1. \A i \in 1 .. n : g[i] = IF i = 1 THEN ss[i] ELSE g[i - 1] \o ss[i]
    BY <1>1, <1>4
  <2>2. QED
    BY <2>1
<1> DEFINE r == CHOOSE x : Rec(x)
<1>6. Rec(r)
  BY <1>5, Zenon
<1>7. FlattenSeq(ss) = r[n]
  BY <1>1, Zenon DEF FlattenSeq, n
<1>8. QED
  BY <1>6, <1>7, Zenon DEF n

\* The recursion in Product has a solution, and it is unfolded.
Running(dims, first, f) ==
  /\ f[first - 1] = 1
  /\ \A k \in first .. Len(dims) : f[k] = f[k - 1] * dims[k]

LEMMA ProductUnfolds ==
  ASSUME NEW dims, NEW first \in Nat \ {0}, Len(dims) \in Nat, first - 1 <= Len(dims)
  PROVE  \E f : Running(dims, first, f) /\ Product(dims, first) = f[Len(dims)]
<1> DEFINE n == Len(dims)
           o == first - 1
           Times(x, k) == x * dims[k]
           Rec(f) == f = [k \in o .. n |-> IF k = o THEN 1 ELSE Times(f[k - 1], k)]
           Upto(m, f) == \A k \in o .. m : f[k] = IF k = o THEN 1 ELSE Times(f[k - 1], k)
           Lost == {m \in o .. n : ~ \E f : Upto(m, f)}
<1>1. n \in Nat /\ o \in Nat /\ o <= n /\ first = o + 1
  OBVIOUS
<1>2. Product(dims, first) = (CHOOSE f : Rec(f))[n]
  BY Zenon DEF Product
<1> HIDE DEF n, o, Times
<1>3. Lost = {}
  <2>1. SUFFICES ASSUME Lost # {} PROVE FALSE
    OBVIOUS
  <2>2. Lost \in SUBSET Nat
    BY <1>1
  <2>3. PICK m \in Lost : \A k \in Lost : m <= k
    BY <2>1, <2>2, Smallest
  <2>4. m \in o .. n /\ ~ \E f : Upto(m, f)
    OBVIOUS
  <2>5. m # o
    <3>1. Upto(o, [k \in {o} |-> 1])
      BY <1>1
    <3>2. QED
      BY <2>4, <3>1
  <2>6. m - 1 \in o .. n /\ m - 1 \notin Lost
    <3> HIDE DEF Lost, Upto
    <3>1. m - 1 \in o .. n /\ ~(m <= m - 1)
      BY <1>1, <2>4, <2>5
    <3>2. QED
      BY <2>3, <3>1
  <2>7. PICK f : Upto(m - 1, f)
    BY <2>6
  <2> DEFINE g == [k \in o .. m |-> IF k < m THEN f[k] ELSE Times(f[k - 1], k)]
  <2>8. Upto(m, g)
    <3> SUFFICES ASSUME NEW k \in o .. m PROVE g[k] = IF k = o THEN 1 ELSE Times(g[k - 1], k)
      OBVIOUS
    <3>1. CASE k < m
      <4>1. f[k] = IF k = o THEN 1 ELSE Times(f[k - 1], k)
        BY <1>1, <2>4, <2>7, <3>1
      <4>2. k # o => k - 1 \in o .. m /\ k - 1 < m
        BY <1>1, <2>4
      <4>3. QED
        BY <3>1, <4>1, <4>2
    <3>2. CASE k = m
      <4>1. k # o /\ k - 1 \in o .. m /\ k - 1 < m /\ ~(k < m)
        BY <1>1, <2>4, <2>5, <3>2
      <4>2. QED
        BY <4>1
    <3>3. QED
      BY <1>1, <2>4, <3>1, <3>2
  <2>9. QED
    BY <2>4, <2>8
<1>4. PICK f : Upto(n, f)
  <2> HIDE DEF Upto
  <2>1. n \in o .. n
    BY <1>1
  <2>2. QED
    BY <1>3, <2>1
<1> DEFINE g == [k \in o .. n |-> f[k]]
<1>5. Rec(g)
  <2>1. \A k \in o .. n : g[k] = IF k = o THEN 1 ELSE Times(g[k - 1], k)
    <3> TAKE k \in o .. n
    <3>1. f[k] = IF k = o THEN 1 ELSE Times(f[k - 1], k)
      BY <1>4
    <3>2. k # o => k - 1 \in o .. n
      BY <1>1
    <3>3. QED
      BY <3>1, <3>2
  <2>2. QED
    BY <2>1
<1> DEFINE r == CHOOSE x : Rec(x)
<1>6. Rec(r)
  BY <1>5, Zenon
<1> HIDE DEF r
<1>7. \A k \in o .. n : r[k] = IF k = o THEN 1 ELSE Times(r[k - 1], k)
  BY <1>6
<1>8. r[o] = 1 /\ \A k \in first .. n : r[k] = r[k - 1] * dims[k]
  BY <1>1, <1>7 DEF Times
<1>9. Running(dims, first, r)
  BY <1>8 DEF Running, n, o
<1>10. Product(dims, first) = r[Len(dims)]
  BY <1>2 DEF r, n
<1>11. QED
  BY <1>9, <1>10

\* The elements of a tensor are those of one expert, as often as the first
\* dimension says.
LEMMA VolumeIs ==
  ASSUME NEW shape \in Seq(Nat), shape # <<>>
  PROVE  /\ ElemsPerExpert(shape) \in Nat
         /\ Product(shape, 1) = shape[1] * ElemsPerExpert(shape)
<1> DEFINE n == Len(shape)
<1>1. n \in Nat \ {0} /\ \A k \in 1 .. n : shape[k] \in Nat
  BY EmptySeq, LenProperties
<1>2. PICK f : Running(shape, 1, f) /\ Product(shape, 1) = f[n]
  BY <1>1, ProductUnfolds
<1>3. PICK g : Running(shape, 2, g) /\ Product(shape, 2) = g[n]
  BY <1>1, ProductUnfolds
<1>4. /\ f[0] = 1 /\ \A k \in 1 .. n : f[k] = f[k - 1] * shape[k]
      /\ g[1] = 1 /\ \A k \in 2 .. n : g[k] = g[k - 1] * shape[k]
  BY <1>2, <1>3 DEF Running
<1> DEFINE Off == {k \in 1 .. n : ~(g[k] \in Nat /\ f[k] = shape[1] * g[k])}
<1> HIDE DEF n
<1>5. Off = {}
  <2>1. SUFFICES ASSUME Off # {} PROVE FALSE
    OBVIOUS
  <2>2. PICK m \in Off : \A k \in Off : m <= k
    <3>1. Off \in SUBSET Nat
      BY <1>1
    <3> HIDE DEF Off
    <3>2. QED
      BY <2>1, <3>1, Smallest
  <2>3. m \in 1 .. n /\ ~(g[m] \in Nat /\ f[m] = shape[1] * g[m])
    OBVIOUS
  <2>4. m # 1
    <3>1. f[1] = f[0] * shape[1] /\ shape[1] \in Nat
      BY <1>1, <1>4
    <3>2. f[1] = shape[1] * g[1] /\ g[1] \in Nat
      BY <1>4, <3>1
    <3>3. QED
      BY <2>3, <3>2
  <2>5. m \in 2 .. n /\ m - 1 \in 1 .. n /\ ~(m <= m - 1)
    BY <1>1, <2>3, <2>4
  <2>6. m - 1 \notin Off
    <3> HIDE DEF Off
    <3>1. QED
      BY <2>2, <2>5
  <2>7. PICK a, b, c : a = shape[1] /\ b = g[m - 1] /\ c = shape[m]
    OBVIOUS
  <2>8. a \in Nat /\ b \in Nat /\ c \in Nat /\ f[m - 1] = a * b
    BY <1>1, <2>5, <2>6, <2>7
  <2>9. f[m] = (a * b) * c /\ g[m] = b * c
    BY <1>4, <2>5, <2>7, <2>8
  <2>10. b * c \in Nat /\ (a * b) * c = a * (b * c)
    BY ONLY <2>8
  <2>11. QED
    BY <2>3, <2>7, <2>9, <2>10
<1>6. n \in 1 .. n
  BY <1>1
<1>7. g[n] \in Nat /\ f[n] = shape[1] * g[n]
  BY <1>5, <1>6
<1>8. ElemsPerExpert(shape) = g[n]
  <2>1. CASE n > 1
    BY <1>3, <2>1 DEF ElemsPerExpert, n
  <2>2. CASE ~(n > 1)
    <3>1. n = 1
      BY <1>1, <2>2
    <3>2. QED
      BY <1>4, <2>2, <3>1 DEF ElemsPerExpert, n
  <2>3. QED
    BY <2>1, <2>2
<1>9. QED
  BY <1>2, <1>7, <1>8

\* A share of a whole.
LEMMA ShareIs ==
  ASSUME NEW a \in Nat \ {0}, NEW b \in Nat
  PROVE  (a * b) \div a = b
OBVIOUS

\* What the two halves of a sequence hold.
LEMMA ConcatHolds ==
  ASSUME NEW S, NEW a \in Seq(S), NEW b \in Seq(S)
  PROVE  a \o b \in Seq(S) /\ ToSet(a \o b) = ToSet(a) \cup ToSet(b)
<1> DEFINE c == a \o b
<1>1. /\ Len(a) \in Nat /\ Len(b) \in Nat
      /\ DOMAIN a = 1 .. Len(a) /\ DOMAIN b = 1 .. Len(b)
  BY LenProperties
<1>2. /\ c \in Seq(S) /\ Len(c) = Len(a) + Len(b)
      /\ \A i \in 1 .. Len(a) + Len(b) : c[i] = IF i <= Len(a) THEN a[i] ELSE b[i - Len(a)]
  BY ConcatProperties
<1> HIDE DEF c
<1>3. DOMAIN c = 1 .. Len(a) + Len(b)
  BY <1>2, LenProperties
<1>4. ToSet(c) \subseteq ToSet(a) \cup ToSet(b)
  <2> SUFFICES ASSUME NEW i \in 1 .. Len(a) + Len(b) PROVE c[i] \in ToSet(a) \cup ToSet(b)
    BY <1>3 DEF ToSet
  <2>1. CASE i <= Len(a)
    BY <1>1, <1>2, <2>1 DEF ToSet
  <2>2. CASE ~(i <= Len(a))
    <3>1. i - Len(a) \in 1 .. Len(b) /\ c[i] = b[i - Len(a)]
      BY <1>1, <1>2, <2>2
    <3>2. QED
      BY <1>1, <3>1 DEF ToSet
  <2>3. QED
    BY <2>1, <2>2
<1>5. \A i \in 1 .. Len(a) : a[i] \in ToSet(c)
  <2> SUFFICES ASSUME NEW i \in 1 .. Len(a) PROVE a[i] \in ToSet(c)
    OBVIOUS
  <2>1. i \in 1 .. Len(a) + Len(b) /\ c[i] = a[i]
    BY <1>1, <1>2
  <2>2. QED
    BY <1>3, <2>1 DEF ToSet
<1>6. \A i \in 1 .. Len(b) : b[i] \in ToSet(c)
  <2> SUFFICES ASSUME NEW i \in 1 .. Len(b) PROVE b[i] \in ToSet(c)
    OBVIOUS
  <2>1. /\ Len(a) + i \in 1 .. Len(a) + Len(b) /\ ~(Len(a) + i <= Len(a))
        /\ Len(a) + i - Len(a) = i
    BY <1>1
  <2>2. c[Len(a) + i] = b[i]
    BY <1>2, <2>1
  <2>3. QED
    BY <1>3, <2>1, <2>2 DEF ToSet
<1>7. ToSet(a) \cup ToSet(b) \subseteq ToSet(c)
  BY <1>1, <1>5, <1>6 DEF ToSet
<1>8. QED
  BY <1>2, <1>4, <1>7 DEF c

\* FlattenSeq puts together what the sequences hold, and nothing else.
LEMMA FlattenHolds ==
  ASSUME NEW S, NEW ss \in Seq(Seq(S))
  PROVE  /\ FlattenSeq(ss) \in Seq(S)
         /\ ToSet(FlattenSeq(ss)) = UNION {ToSet(ss[i]) : i \in DOMAIN ss}
<1>1. CASE Len(ss) = 0
  <2>1. ss = <<>>
    BY <1>1, EmptySeq
  <2>2. FlattenSeq(ss) = <<>>
    BY <1>1, <2>1 DEF FlattenSeq
  <2>3. <<>> \in Seq(S) /\ ToSet(<<>>) = {} /\ DOMAIN ss = {}
    BY <2>1 DEF ToSet
  <2>4. QED
    BY <2>2, <2>3
<1>2. CASE Len(ss) # 0
  <2> DEFINE n == Len(ss)
             Good(f, m) == /\ f[m] \in Seq(S)
                           /\ ToSet(f[m]) = UNION {ToSet(ss[i]) : i \in 1 .. m}
  <2>1. n \in Nat \ {0} /\ DOMAIN ss = 1 .. n /\ \A i \in 1 .. n : ss[i] \in Seq(S)
    BY <1>2, LenProperties
  <2>2. PICK f : /\ f = [i \in 1 .. n |-> IF i = 1 THEN ss[i] ELSE f[i - 1] \o ss[i]]
                 /\ FlattenSeq(ss) = f[n]
    BY <2>1, FlattenUnfolds
  <2> HIDE DEF n
  <2>3. \A i \in 1 .. n : f[i] = IF i = 1 THEN ss[i] ELSE f[i - 1] \o ss[i]
    BY <2>2
  <2> DEFINE Lost == {m \in 1 .. n : ~Good(f, m)}
  <2>4. Lost = {}
    <3>1. SUFFICES ASSUME Lost # {} PROVE FALSE
      OBVIOUS
    <3>2. Lost \in SUBSET Nat
      BY <2>1
    <3>3. PICK m \in Lost : \A k \in Lost : m <= k
      BY <3>1, <3>2, Smallest
    <3>4. m \in 1 .. n /\ ~Good(f, m)
      OBVIOUS
    <3>5. CASE m = 1
      <4>1. f[1] = ss[1] /\ ss[1] \in Seq(S) /\ 1 .. 1 = {1}
        BY <2>1, <2>3, <3>4, <3>5
      <4>2. UNION {ToSet(ss[i]) : i \in {1}} = ToSet(ss[1])
        OBVIOUS
      <4>3. QED
        BY <3>4, <3>5, <4>1, <4>2
    <3>6. CASE m # 1
      <4>1. m - 1 \in 1 .. n /\ m - 1 \notin Lost
        <5> HIDE DEF Lost, Good
        <5>1. m - 1 \in 1 .. n /\ ~(m <= m - 1)
          BY <2>1, <3>4, <3>6
        <5>2. QED
          BY <3>3, <5>1
      <4>2. Good(f, m - 1)
        BY <4>1
      <4>3. f[m] = f[m - 1] \o ss[m] /\ ss[m] \in Seq(S)
        BY <2>1, <2>3, <3>4, <3>6
      <4>4. f[m] \in Seq(S) /\ ToSet(f[m]) = ToSet(f[m - 1]) \cup ToSet(ss[m])
        BY <4>2, <4>3, ConcatHolds
      <4>5. 1 .. m = (1 .. m - 1) \cup {m}
        BY <3>4
      <4>6. UNION {ToSet(ss[i]) : i \in (1 .. m - 1) \cup {m}} =
              (UNION {ToSet(ss[i]) : i \in 1 .. m - 1}) \cup ToSet(ss[m])
        OBVIOUS
      <4>7. QED
        BY <3>4, <4>2, <4>4, <4>5, <4>6
    <3>7. QED
      BY <3>5, <3>6
  <2>5. n \in 1 .. n
    BY <2>1
  <2>6. Good(f, n)
    <3> HIDE DEF Good
    <3>1. QED
      BY <2>4, <2>5
  <2>7. QED
    BY <2>1, <2>2, <2>6
<1>3. QED
  BY <1>1, <1>2

-----------------------------------------------------------------------------
(* The lookahead.                                                          *)

\* The ranges of an expert: its entry in the index, if there is one.
Entry(layer, e) == IF e + 1 \in DOMAIN index[layer] THEN index[layer][e + 1] ELSE <<>>
Entries == {index[l][x][p] : l \in Layers, x \in 1 .. NumExperts, p \in DOMAIN Parts}

\* An entry lists a range for each part.
LEMMA EntryIs ==
  ASSUME IndexInv, NEW layer \in Layers, NEW e
  PROVE  Entry(layer, e) \in Seq(Entries)
<1>1. Parts \in Seq(Seq(STRING)) /\ NumExperts \in Nat
  BY IndexAssumption
<1>2. DOMAIN Parts = 1 .. Len(Parts) /\ Len(Parts) \in Nat
  BY <1>1, LenProperties
<1>3. CASE e + 1 \notin DOMAIN index[layer]
  BY <1>3 DEF Entry
<1>4. CASE e + 1 \in DOMAIN index[layer]
  <2>1. index[layer] # <<>>
    BY <1>4
  <2>2. index = BuildIndex(files)
    BY <2>1 DEF IndexInv
  <2>3. index[layer] =
          [x \in 1 .. NumExperts |-> ExpertOffset(files, Layout(files), layer, x - 1)]
    BY <2>1, <2>2 DEF BuildIndex
  <2>4. \A x \in 1 .. NumExperts :
          index[layer][x] = [p \in DOMAIN Parts |->
            Slice(files, NameOf(files, Layout(files), layer, Parts[p]), x - 1)]
    BY <2>3 DEF ExpertOffset
  <2>5. \A x \in 1 .. NumExperts :
          /\ DOMAIN index[layer][x] = 1 .. Len(Parts)
          /\ index[layer][x] = [p \in 1 .. Len(Parts) |-> index[layer][x][p]]
    BY <1>2, <2>4
  <2>6. \A x \in 1 .. NumExperts, p \in 1 .. Len(Parts) : index[layer][x][p] \in Entries
    BY <1>2 DEF Entries
  <2>7. \A x \in 1 .. NumExperts : index[layer][x] \in Seq(Entries)
    <3> SUFFICES ASSUME NEW x \in 1 .. NumExperts PROVE index[layer][x] \in Seq(Entries)
      OBVIOUS
    <3> DEFINE f == index[layer][x]
               n == Len(Parts)
    <3>1. f = [p \in 1 .. n |-> f[p]] /\ \A p \in 1 .. n : f[p] \in Entries
      BY <2>5, <2>6
    <3>2. n \in Nat
      BY <1>2
    <3> HIDE DEF f, n
    <3>3. [p \in 1 .. n |-> f[p]] \in Seq(Entries)
      BY <3>1, <3>2
    <3>4. QED
      BY <3>1, <3>3 DEF f
  <2>8. DOMAIN index[layer] = 1 .. NumExperts
    BY <2>3
  <2>9. QED
    BY <1>4, <2>7, <2>8 DEF Entry
<1>5. QED
  BY <1>3, <1>4

\* What prefetch_experts advises for a list of experts.
LEMMA RangesHold ==
  ASSUME IndexInv, NEW layer \in Layers, NEW T, NEW x \in Seq(T)
  PROVE  /\ Ranges(layer, x) \in Seq(Entries)
         /\ ToSet(Ranges(layer, x)) = UNION {ToSet(Entry(layer, e)) : e \in ToSet(x)}
<1> DEFINE ss == [k \in DOMAIN x |-> Entry(layer, x[k])]
<1>1. DOMAIN x = 1 .. Len(x) /\ Len(x) \in Nat
  BY LenProperties
<1>2. \A k \in DOMAIN x : Entry(layer, x[k]) \in Seq(Entries)
  BY EntryIs
<1>3. ss \in Seq(Seq(Entries)) /\ DOMAIN ss = DOMAIN x
  BY <1>1, <1>2
<1>4. Ranges(layer, x) = FlattenSeq(ss)
  BY Zenon DEF Ranges, Entry
<1>5. \A k \in DOMAIN x : ss[k] = Entry(layer, x[k])
  OBVIOUS
<1> HIDE DEF ss
<1>6. /\ FlattenSeq(ss) \in Seq(Entries)
      /\ ToSet(FlattenSeq(ss)) = UNION {ToSet(ss[k]) : k \in DOMAIN ss}
  BY <1>3, FlattenHolds
<1>7. UNION {ToSet(ss[k]) : k \in DOMAIN ss} = UNION {ToSet(Entry(layer, e)) : e \in ToSet(x)}
  BY <1>3, <1>5 DEF ToSet
<1>8. QED
  BY <1>4, <1>6, <1>7

\* A prediction begins with what the layer used last.
LEMMA PredictHolds ==
  ASSUME HistInv, NEW layer \in DOMAIN hist
  PROVE  LET reuse == PredictReuse(hist[layer])
         IN  /\ reuse \in Seq(Nat)
             /\ \E T : Predict(hist[layer]) \in Seq(T)
             /\ ToSet(reuse) \subseteq ToSet(Predict(hist[layer]))
<1> DEFINE reuse == PredictReuse(hist[layer])
           hot == HotExperts(hist[layer])
           others == HotOthers(hot, reuse)
           places == {k \in DOMAIN hot : hot[k] \notin ToSet(reuse)}
           T == Nat \cup ToSet(others)
<1>1. reuse \in Seq(Nat)
  <2>1. Window \in Nat \ {0} /\ \A q \in Selections : q \in Seq(Nat)
    <3>1. NumExperts \in Nat /\ 0 .. NumExperts - 1 \subseteq Nat
      BY IndexAssumption
    <3>2. Selections \subseteq Seq(0 .. NumExperts - 1) /\ Window \in Nat \ {0}
      BY SpillAssumption
    <3>3. Seq(0 .. NumExperts - 1) \subseteq Seq(Nat)
      BY <3>1
    <3>4. QED
      BY <3>2, <3>3
  <2>2. /\ hist[layer].pos \in 0 .. Window - 1
        /\ hist[layer].recent \in [0 .. Window - 1 -> Selections \cup {<<>>}]
    BY DEF HistInv
  <2>3. (hist[layer].pos + Window - 1) % Window \in 0 .. Window - 1
    BY <2>1, <2>2
  <2>4. reuse \in Selections \cup {<<>>}
    BY <2>2, <2>3 DEF PredictReuse
  <2>5. <<>> \in Seq(Nat)
    OBVIOUS
  <2> HIDE DEF reuse
  <2>6. QED
    BY <2>1, <2>4, <2>5
<1>2. IsFiniteSet(places)
  <2>1. HotCount \in Nat /\ NumExperts \in Nat
    BY SpillAssumption, IndexAssumption
  <2>2. DOMAIN hot = 1 .. (IF HotCount < NumExperts THEN HotCount ELSE NumExperts)
    BY DEF HotExperts
  <2> HIDE DEF hot
  <2>3. \E b \in Nat : DOMAIN hot = 1 .. b
    BY <2>1, <2>2
  <2>4. IsFiniteSet(DOMAIN hot)
    BY <2>3, FS_Interval
  <2>5. QED
    BY <2>4, FS_Subset
<1>3. Cardinality(places) \in Nat
  BY <1>2, FS_CardinalityType
<1>4. DOMAIN others = 1 .. Cardinality(places)
      /\ others = [i \in 1 .. Cardinality(places) |-> others[i]]
  BY DEF HotOthers
<1> HIDE DEF others, places
<1>5. others \in Seq(T)
  BY <1>3, <1>4 DEF ToSet
<1>6. reuse \in Seq(T)
  <2> HIDE DEF reuse
  <2>1. QED
    BY <1>1
<1>7. Predict(hist[layer]) = reuse \o others
  BY DEF Predict, others
<1> HIDE DEF reuse, T
<1>8. reuse \o others \in Seq(T) /\ ToSet(reuse \o others) = ToSet(reuse) \cup ToSet(others)
  BY <1>5, <1>6, ConcatHolds
<1>9. QED
  BY <1>1, <1>7, <1>8 DEF reuse

\* The lookahead of a layer takes in what each layer ahead used last.
LEMMA AheadHolds ==
  ASSUME IInv, NEW layer \in DOMAIN hist
  PROVE  /\ Ahead(layer) \in Seq(Entries)
         /\ \A d \in 1 .. Depth :
              layer + 4 * d \in DOMAIN hist /\ used[layer + 4 * d] # <<>> =>
                ToSet(Ranges(layer + 4 * d, Last(used[layer + 4 * d]))) \subseteq ToSet(Ahead(layer))
<1> DEFINE at(d) == IF layer + 4 * d \in DOMAIN hist
                    THEN Ranges(layer + 4 * d, Predict(hist[layer + 4 * d])) ELSE <<>>
           ss == [d \in 1 .. Depth |-> at(d)]
<1>1. HistInv /\ IndexInv /\ DOMAIN hist \subseteq Layers /\ Depth \in Nat
  BY SpillAssumption DEF IInv, HistInv
<1>2. ASSUME NEW a \in DOMAIN hist
      PROVE  /\ Ranges(a, Predict(hist[a])) \in Seq(Entries)
             /\ ToSet(Ranges(a, PredictReuse(hist[a]))) \subseteq ToSet(Ranges(a, Predict(hist[a])))
  <2>1. PICK T : Predict(hist[a]) \in Seq(T)
    BY <1>1, PredictHolds
  <2>2. PredictReuse(hist[a]) \in Seq(Nat) /\ ToSet(PredictReuse(hist[a])) \subseteq ToSet(Predict(hist[a]))
    BY <1>1, PredictHolds
  <2>3. a \in Layers
    BY <1>1
  <2>4. /\ Ranges(a, Predict(hist[a])) \in Seq(Entries)
        /\ ToSet(Ranges(a, Predict(hist[a]))) = UNION {ToSet(Entry(a, e)) : e \in ToSet(Predict(hist[a]))}
    BY <1>1, <2>1, <2>3, RangesHold
  <2>5. ToSet(Ranges(a, PredictReuse(hist[a]))) =
          UNION {ToSet(Entry(a, e)) : e \in ToSet(PredictReuse(hist[a]))}
    BY <1>1, <2>2, <2>3, RangesHold
  <2>6. QED
    BY <2>2, <2>4, <2>5
<1>3. \A d \in 1 .. Depth : at(d) \in Seq(Entries)
  BY <1>2
<1>4. Ahead(layer) = FlattenSeq(ss)
  BY Zenon DEF Ahead
<1> HIDE DEF at
<1>5. ss \in Seq(Seq(Entries)) /\ DOMAIN ss = 1 .. Depth /\ \A d \in 1 .. Depth : ss[d] = at(d)
  BY <1>1, <1>3
<1> HIDE DEF ss
<1>6. /\ FlattenSeq(ss) \in Seq(Entries)
      /\ ToSet(FlattenSeq(ss)) = UNION {ToSet(ss[d]) : d \in DOMAIN ss}
  BY <1>5, FlattenHolds
<1>7. ASSUME NEW d \in 1 .. Depth, layer + 4 * d \in DOMAIN hist, used[layer + 4 * d] # <<>>
      PROVE  ToSet(Ranges(layer + 4 * d, Last(used[layer + 4 * d]))) \subseteq ToSet(Ahead(layer))
  <2> DEFINE a == layer + 4 * d
  <2>1. PredictReuse(hist[a]) = Last(used[a])
    BY <1>1, <1>7 DEF HistInv
  <2>2. ToSet(Ranges(a, Last(used[a]))) \subseteq ToSet(Ranges(a, Predict(hist[a])))
    BY <1>2, <1>7, <2>1
  <2>3. at(d) = Ranges(a, Predict(hist[a]))
    BY <1>7 DEF at
  <2>4. QED
    BY <1>4, <1>5, <1>6, <2>2, <2>3
<1>8. QED
  BY <1>4, <1>6, <1>7

-----------------------------------------------------------------------------
(* The invariant.                                                          *)

\* A ring read at the place before the position gives the last entry.
LEMMA BeforeNext ==
  ASSUME NEW p \in 0 .. Window - 1
  PROVE  (p + 1) % Window \in 0 .. Window - 1 /\ (((p + 1) % Window) + Window - 1) % Window = p
<1>1. Window \in Nat \ {0}
  BY SpillAssumption
<1>2. CASE p + 1 < Window
  <2>1. (p + 1) % Window = p + 1
    BY <1>1, <1>2
  <2>2. (p + Window) % Window = p
    BY <1>1
  <2>3. QED
    BY <1>1, <1>2, <2>1, <2>2
<1>3. CASE p + 1 = Window
  <2>1. (p + 1) % Window = 0
    BY <1>1, <1>3
  <2>2. QED
    BY <1>1, <1>3, <2>1
<1>4. QED
  BY <1>1, <1>2, <1>3

\* What a selection just recorded is predicted to be again.
LEMMA RecordedReuse ==
  ASSUME NEW h, NEW e \in Selections,
         h.pos \in 0 .. Window - 1, h.recent \in [0 .. Window - 1 -> Selections \cup {<<>>}]
  PROVE  /\ Recorded(h, e).pos \in 0 .. Window - 1
         /\ Recorded(h, e).recent \in [0 .. Window - 1 -> Selections \cup {<<>>}]
         /\ PredictReuse(Recorded(h, e)) = e
<1>1. /\ Recorded(h, e).pos = (h.pos + 1) % Window
      /\ Recorded(h, e).recent = [h.recent EXCEPT ![h.pos] = e]
  BY DEF Recorded, NextPos
<1>2. /\ (h.pos + 1) % Window \in 0 .. Window - 1
      /\ (((h.pos + 1) % Window) + Window - 1) % Window = h.pos
  BY BeforeNext
<1>3. PredictReuse(Recorded(h, e)) = Recorded(h, e).recent[h.pos]
  BY <1>1, <1>2 DEF PredictReuse
<1>4. QED
  BY <1>1, <1>2, <1>3

LEMMA InitInv == Init => IInv
<1> SUFFICES ASSUME Init PROVE IInv
  OBVIOUS
<1>1. DOMAIN hist = {} /\ DOMAIN used = {}
  BY DEF Init
<1>2. QED
  BY <1>1 DEF Init, IInv, IndexInv, HistInv

\* open builds the index and an empty history for each layer in it.
LEMMA OpenInv == IInv /\ Open => IInv'
<1> SUFFICES ASSUME IInv, Open PROVE IInv'
  OBVIOUS
<1>1. files' = files /\ files \in FileSets /\ state' # "closed"
  BY DEF IInv, Open
<1>2. CASE OpenSucceeds(files)
  <2> DEFINE D == {l \in Layers : BuildIndex(files)[l] # <<>>}
  <2>1. /\ index' = BuildIndex(files)
        /\ hist' = [layer \in D |-> NewHistory]
        /\ used' = [layer \in D |-> <<>>]
    BY <1>2 DEF Open
  <2>2. IndexInv'
    BY <1>1, <1>2, <2>1 DEF IndexInv
  <2>3. /\ NewHistory.pos \in 0 .. Window - 1
        /\ NewHistory.recent \in [0 .. Window - 1 -> Selections \cup {<<>>}]
    BY SpillAssumption DEF NewHistory
  <2>4. D \subseteq Layers
    OBVIOUS
  <2> HIDE DEF D
  <2>5. HistInv'
    BY <2>1, <2>3, <2>4 DEF HistInv
  <2>6. QED
    BY <1>1, <2>2, <2>5 DEF IInv
<1>3. CASE ~OpenSucceeds(files)
  <2>1. index' = index /\ hist' = hist /\ used' = [layer \in DOMAIN hist |-> <<>>] /\ hist = <<>>
    BY <1>3 DEF Open, IInv
  <2>2. IndexInv'
    BY <1>1, <2>1 DEF IInv, IndexInv
  <2>3. DOMAIN hist' = {} /\ DOMAIN used' = {}
    BY <2>1
  <2>4. HistInv'
    BY <2>3 DEF HistInv
  <2>5. QED
    BY <1>1, <2>2, <2>4 DEF IInv
<1>4. QED
  BY <1>2, <1>3

\* A selection recorded is the last of its layer, in the ring as in the history.
LEMMA SelectedInv ==
  ASSUME IInv, NEW layer \in DOMAIN hist, NEW experts \in Selections,
         OnExpertSelected(layer, experts)
  PROVE  IInv'
<1>1. /\ files' = files /\ index' = index /\ state' = state /\ state = "open"
      /\ hist' = [hist EXCEPT ![layer] = Recorded(hist[layer], experts)]
      /\ used' = [used EXCEPT ![layer] = Append(used[layer], experts)]
  BY DEF OnExpertSelected
<1>2. HistInv
  BY DEF IInv
<1>3. /\ DOMAIN hist' = DOMAIN hist /\ DOMAIN used' = DOMAIN hist /\ DOMAIN hist \subseteq Layers
      /\ \A l \in DOMAIN hist \ {layer} : hist'[l] = hist[l] /\ used'[l] = used[l]
      /\ hist'[layer] = Recorded(hist[layer], experts)
      /\ used'[layer] = Append(used[layer], experts)
  BY <1>1, <1>2 DEF HistInv
<1>4. /\ Recorded(hist[layer], experts).pos \in 0 .. Window - 1
      /\ Recorded(hist[layer], experts).recent \in [0 .. Window - 1 -> Selections \cup {<<>>}]
      /\ PredictReuse(Recorded(hist[layer], experts)) = experts
  BY <1>2, RecordedReuse DEF HistInv
<1>5. /\ Append(used[layer], experts) \in Seq(Selections)
      /\ Last(Append(used[layer], experts)) = experts
  <2>1. used[layer] \in Seq(Selections)
    BY <1>2 DEF HistInv
  <2>2. QED
    BY <2>1, AppendProperties DEF Last
<1>6. HistInv'
  <2> SUFFICES ASSUME NEW l \in DOMAIN hist
               PROVE  /\ hist'[l].pos \in 0 .. Window - 1
                      /\ hist'[l].recent \in [0 .. Window - 1 -> Selections \cup {<<>>}]
                      /\ used'[l] \in Seq(Selections)
                      /\ used'[l] # <<>> => PredictReuse(hist'[l]) = Last(used'[l])
    BY <1>3 DEF HistInv
  <2>1. CASE l = layer
    BY <1>3, <1>4, <1>5, <2>1
  <2>2. CASE l # layer
    <3>1. hist'[l] = hist[l] /\ used'[l] = used[l]
      BY <1>3, <2>2
    <3>2. QED
      BY <1>2, <3>1 DEF HistInv
  <2>3. QED
    BY <2>1, <2>2
<1>7. IndexInv'
  BY <1>1 DEF IInv, IndexInv
<1>8. QED
  BY <1>1, <1>6, <1>7 DEF IInv

\* The other calls leave what the invariant is about.
LEMMA UnchangedInv ==
  IInv /\ UNCHANGED <<files, state, index, hist, used>> => IInv'
BY DEF IInv, IndexInv, HistInv

LEMMA StepInv == IInv /\ [Next]_vars => IInv'
<1> SUFFICES ASSUME IInv, [Next]_vars PROVE IInv'
  OBVIOUS
<1>1. CASE Open
  BY <1>1, OpenInv
<1>2. ASSUME NEW layer \in DOMAIN hist, NEW experts \in Selections, OnExpertSelected(layer, experts)
      PROVE  IInv'
  BY <1>2, SelectedInv
<1>3. CASE PrefetchForStep
  BY <1>3, UnchangedInv DEF PrefetchForStep
<1>4. CASE UpdatePins
  BY <1>4, UnchangedInv DEF UpdatePins
<1>5. ASSUME NEW layer \in MoeLayers, BulkPrefetch(layer) \/ ReleaseExperts(layer, AllExperts)
      PROVE  IInv'
  BY <1>5, UnchangedInv DEF BulkPrefetch, ReleaseExperts
<1>6. CASE UNCHANGED vars
  BY <1>6, UnchangedInv DEF vars
<1>7. QED
  BY <1>1, <1>2, <1>3, <1>4, <1>5, <1>6 DEF Next

\* The index is that of the files and each ring ends with its layer's last
\* selection, in every reachable state.
THEOREM SpillInductive == Spec => []IInv
BY InitInv, StepInv, PTL DEF Spec

-----------------------------------------------------------------------------
(* Results.                                                                *)

\* The ranges of an advice that did not fail are all advised.
LEMMA AdviseAll ==
  ASSUME NEW ranges, Len(ranges) \in Nat, ranges \in Seq(Entries),
         Advise(ranges), result' = "ok"
  PROVE  ToSet(ranges) \subseteq advised'
<1>1. PICK n \in 0 .. Len(ranges) :
        /\ advised' = advised \cup ToSet(SubSeq(ranges, 1, n))
        /\ result' = IF n = Len(ranges) THEN "ok" ELSE "err"
  BY DEF Advise
<1>2. n = Len(ranges)
  BY <1>1
<1>3. SubSeq(ranges, 1, Len(ranges)) = ranges
  OBVIOUS
<1>4. QED
  BY <1>1, <1>2, <1>3

\* A selection recorded without an error leaves what the layers ahead used last
\* advised, for any window, depth, number of hot experts and history.
THEOREM ReuseCovered == Spec => LookaheadCoversReuse
<1> DEFINE Covers ==
             \A layer \in DOMAIN hist : \A d \in 1 .. Depth :
               LET ahead == layer + 4 * d
               IN  (/\ used'[layer] # used[layer] /\ result' = "ok"
                    /\ ahead \in DOMAIN hist /\ used[ahead] # <<>>)
                     => ToSet(Ranges(ahead, Last(used[ahead]))) \subseteq advised'
<1>1. IInv /\ [Next]_vars => [Covers]_vars
  <2> SUFFICES ASSUME IInv, [Next]_vars, NEW l \in DOMAIN hist, NEW d \in 1 .. Depth,
                      used'[l] # used[l], result' = "ok",
                      l + 4 * d \in DOMAIN hist, used[l + 4 * d] # <<>>
               PROVE  ToSet(Ranges(l + 4 * d, Last(used[l + 4 * d]))) \subseteq advised'
    OBVIOUS
  <2>1. CASE Open
    <3>1. DOMAIN hist = {}
      BY <2>1 DEF Open, IInv
    <3>2. QED
      BY <3>1
  <2>2. ASSUME NEW layer \in DOMAIN hist, NEW experts \in Selections, OnExpertSelected(layer, experts)
        PROVE  ToSet(Ranges(l + 4 * d, Last(used[l + 4 * d]))) \subseteq advised'
    <3>1. used' = [used EXCEPT ![layer] = Append(@, experts)] /\ Advise(Ahead(layer))
      BY <2>2 DEF OnExpertSelected
    <3>2. DOMAIN used = DOMAIN hist
      BY DEF IInv, HistInv
    <3>3. l = layer
      BY <3>1, <3>2
    <3>4. /\ Ahead(layer) \in Seq(Entries)
          /\ ToSet(Ranges(l + 4 * d, Last(used[l + 4 * d]))) \subseteq ToSet(Ahead(layer))
      BY <3>3, AheadHolds
    <3>5. ToSet(Ahead(layer)) \subseteq advised'
      BY <3>1, <3>4, AdviseAll, LenProperties
    <3>6. QED
      BY <3>4, <3>5
  <2>3. CASE PrefetchForStep
    BY <2>3 DEF PrefetchForStep
  <2>4. CASE UpdatePins
    BY <2>4 DEF UpdatePins
  <2>5. ASSUME NEW layer \in MoeLayers, BulkPrefetch(layer) \/ ReleaseExperts(layer, AllExperts)
        PROVE  ToSet(Ranges(l + 4 * d, Last(used[l + 4 * d]))) \subseteq advised'
    BY <2>5 DEF BulkPrefetch, ReleaseExperts
  <2>6. CASE UNCHANGED vars
    BY <2>6 DEF vars
  <2>7. QED
    BY <2>1, <2>2, <2>3, <2>4, <2>5, <2>6 DEF Next
<1>2. QED
  BY <1>1, SpillInductive, PTL DEF Spec, LookaheadCoversReuse

\* In a well formed checkpoint a tensor is looked up in the file it is in.
LEMMA ShardIs ==
  ASSUME NEW shards, Wellformed(shards), NEW s \in DOMAIN shards,
         NEW n \in DOMAIN shards[s].tensors
  PROVE  ShardOf(shards, n) = s
<1> DEFINE at == {t \in DOMAIN shards : n \in DOMAIN shards[t].tensors}
<1>1. s \in Nat
  BY DEF Wellformed
<1>2. PICK p \in DOMAIN Parts : n[3] \in ToSet(Parts[p])
  BY DEF Wellformed
<1>3. \A t \in DOMAIN shards : n \in DOMAIN shards[t].tensors => s = t
  BY <1>2 DEF Wellformed
<1>4. at = {s}
  BY <1>3
<1>5. ShardOf(shards, n) = IF at = {} THEN 0 ELSE CHOOSE t \in at : \A k \in at : t <= k
  BY Zenon DEF ShardOf
<1> HIDE DEF at
<1>6. \A t \in at : (\A k \in at : t <= k) <=> t = s
  BY <1>1, <1>4
<1>7. QED
  BY <1>4, <1>5, <1>6

\* A shard found has the tensor.
LEMMA ShardHas ==
  ASSUME NEW shards, Wellformed(shards), NEW n, ShardOf(shards, n) # 0
  PROVE  ShardOf(shards, n) \in DOMAIN shards /\ n \in DOMAIN shards[ShardOf(shards, n)].tensors
<1>1. PICK s \in DOMAIN shards : n \in DOMAIN shards[s].tensors
  BY DEF ShardOf
<1>2. QED
  BY <1>1, ShardIs

\* The name a part is found under is the one its tensor has.
LEMMA NameIs ==
  ASSUME NEW shards, Wellformed(shards), NEW s \in DOMAIN shards,
         NEW n \in DOMAIN shards[s].tensors, NEW p \in DOMAIN Parts, n[3] \in ToSet(Parts[p])
  PROVE  NameOf(shards, n[1], n[2], Parts[p]) = n
<1> DEFINE part == Parts[p]
           name(k) == <<n[1], n[2], part[k]>>
           found == {k \in DOMAIN part : ShardOf(shards, name(k)) # 0}
<1>1. n = <<n[1], n[2], n[3]>> /\ s # 0
  BY DEF Wellformed
<1>2. found \in SUBSET Nat
  <2>1. part \in Seq(STRING)
    BY IndexAssumption
  <2>2. DOMAIN part = 1 .. Len(part) /\ Len(part) \in Nat
    BY <2>1, LenProperties
  <2>3. QED
    BY <2>2
<1>3. found # {}
  <2>1. PICK k \in DOMAIN part : part[k] = n[3]
    BY DEF ToSet
  <2>2. ShardOf(shards, name(k)) = s
    BY <1>1, <2>1, ShardIs
  <2>3. QED
    BY <1>1, <2>2
<1> DEFINE least == Min(found)
<1>4. NameOf(shards, n[1], n[2], part) = name(least)
  <2>1. NameOf(shards, n[1], n[2], part) = <<n[1], n[2], part[IF found = {} THEN 1 ELSE Min(found)]>>
    BY Zenon DEF NameOf
  <2>2. QED
    BY <1>3, <2>1
<1>5. least \in found
  <2>1. \E m \in found : \A k \in found : m <= k
    BY <1>2, <1>3, Smallest
  <2> HIDE DEF found
  <2>2. QED
    BY <2>1 DEF Min
<1>6. least \in DOMAIN part /\ ShardOf(shards, name(least)) # 0
  BY <1>5
<1> HIDE DEF least
<1>7. PICK t \in DOMAIN shards : name(least) \in DOMAIN shards[t].tensors
  BY <1>6, ShardHas
<1>8. /\ n[2] = name(least)[2] /\ n[3] \in ToSet(part) /\ name(least)[3] \in ToSet(part)
  BY <1>6 DEF ToSet
<1> HIDE DEF name
<1>9. n = name(least)
  BY <1>7, <1>8 DEF Wellformed
<1>10. QED
  BY <1>4, <1>9

\* A run of bytes, counted from its beginning.
LEMMA BytesFrom ==
  ASSUME NEW s, NEW off \in Nat, NEW size \in Nat
  PROVE  Bytes([file |-> s, offset |-> off, len |-> size]) = {<<s, off + b>> : b \in 0 .. size - 1}
<1> DEFINE r == [file |-> s, offset |-> off, len |-> size]
<1>1. Bytes(r) = {<<s, b>> : b \in off .. off + size - 1}
  BY DEF Bytes
<1> HIDE DEF r
<1>2. \A b \in off .. off + size - 1 : b - off \in 0 .. size - 1 /\ off + (b - off) = b
  OBVIOUS
<1>3. \A b \in 0 .. size - 1 : off + b \in off .. off + size - 1
  OBVIOUS
<1>4. {<<s, b>> : b \in off .. off + size - 1} = {<<s, off + b>> : b \in 0 .. size - 1}
  BY <1>2, <1>3
<1>5. QED
  BY <1>1, <1>4 DEF r

\* The length computed from type and shape is the expert's share of the data.
LEMMA PieceIs ==
  ASSUME NEW t, Parsed(t), t.shape[1] = NumExperts,
         t.dtype \in {"F32", "F16", "BF16", "U8", "U32", "I32"}
  PROVE  /\ Piece(t) = ElemsPerExpert(t.shape) * ElemSize(t.dtype)
         /\ Piece(t) \in Nat
<1>1. PICK k, w, d : k = ElemsPerExpert(t.shape) /\ w = ElemSize(t.dtype) /\ d = Product(t.shape, 1)
  OBVIOUS
<1>2. Width(t.dtype) = w /\ w \in Nat
  BY <1>1 DEF Width, ElemSize
<1>3. k \in Nat /\ d = NumExperts * k
  BY <1>1, VolumeIs DEF Parsed
<1>4. t.size = d * w
  BY <1>1, <1>2 DEF Parsed
<1>5. NumExperts \in Nat \ {0}
  BY IndexAssumption
<1>6. PICK p : p = k * w
  OBVIOUS
<1>7. p \in Nat /\ (NumExperts * k) * w = NumExperts * p
  BY ONLY <1>2, <1>3, <1>5, <1>6
<1>8. t.size = NumExperts * p
  BY <1>3, <1>4, <1>7
<1>9. (NumExperts * p) \div NumExperts = p
  BY <1>5, <1>7, ShareIs
<1>10. QED
  BY <1>1, <1>6, <1>7, <1>8, <1>9 DEF Piece

\* The ranges computed for an expert are its share of the data of each of its
\* layer's tensors, in the files they are in, for any well formed checkpoint.
THEOREM SlicesRight == Spec => []SlicesTile
<1>1. IInv => SlicesTile
  <2> SUFFICES ASSUME IInv, NEW layer \in MoeLayers, Stacked(layer), NEW e \in 1 .. NumExperts
               PROVE  UNION {Bytes(index[layer][e][p]) : p \in DOMAIN Parts} =
                        ExpertBytes(layer, e - 1)
    BY DEF SlicesTile
  <2> DEFINE layout == Layout(files)
             name(p) == NameOf(files, layout, layer, Parts[p])
             tensor(s, n) == files[s].tensors[n]
             share(s, n) == Piece(tensor(s, n))
             slice(s, n) == {<<s, tensor(s, n).at + (e - 1) * share(s, n) + b>> :
                               b \in 0 .. share(s, n) - 1}
  <2>1. Wellformed(files) /\ layer \in Layers /\ index[layer] # <<>> /\ e - 1 \in Nat
    BY SpillAssumption, IndexAssumption DEF IInv, MoeLayers
  <2>2. index = BuildIndex(files) /\ OpenSucceeds(files)
    BY <2>1 DEF IInv, IndexInv
  <2>3. /\ HasExperts(files, layout, layer)
        /\ \A p \in DOMAIN Parts : index[layer][e][p] = Slice(files, name(p), e - 1)
    BY <2>1, <2>2 DEF BuildIndex, ExpertOffset
  <2>4. \A p \in DOMAIN Parts : ShardOf(files, name(p)) # 0
    BY <2>1, <2>2, <2>3 DEF OpenSucceeds, Complete
  <2>5. \A p \in DOMAIN Parts : name(p)[2] = layer
    BY DEF NameOf
  <2>6. \A s \in DOMAIN files : \A n \in DOMAIN files[s].tensors :
          n[2] = layer =>
            /\ tensor(s, n).at \in Nat /\ share(s, n) \in Nat
            /\ share(s, n) = ElemsPerExpert(tensor(s, n).shape) * ElemSize(tensor(s, n).dtype)
    <3> SUFFICES ASSUME NEW s \in DOMAIN files, NEW n \in DOMAIN files[s].tensors, n[2] = layer
                 PROVE  /\ tensor(s, n).at \in Nat /\ share(s, n) \in Nat
                        /\ share(s, n) = ElemsPerExpert(tensor(s, n).shape) * ElemSize(tensor(s, n).dtype)
      OBVIOUS
    <3>1. Parsed(tensor(s, n))
      BY <2>1 DEF Wellformed
    <3>2. /\ tensor(s, n).shape[1] = NumExperts
          /\ tensor(s, n).dtype \in {"F32", "F16", "BF16", "U8", "U32", "I32"}
      BY DEF Stacked
    <3>3. tensor(s, n).at \in Nat
      BY <3>1 DEF Parsed
    <3> HIDE DEF tensor
    <3>4. QED
      BY <3>1, <3>2, <3>3, PieceIs
  <2>7. ExpertBytes(layer, e - 1) =
          UNION {UNION {slice(s, n) : n \in {m \in DOMAIN files[s].tensors : m[2] = layer}} :
                 s \in DOMAIN files}
    BY DEF ExpertBytes
  <2> DEFINE range(s, n) ==
               [file |-> s, offset |-> tensor(s, n).at + (e - 1) * share(s, n),
                len |-> share(s, n)]
  <2>8. ASSUME NEW s \in DOMAIN files, NEW n \in DOMAIN files[s].tensors, n[2] = layer
         PROVE  Bytes(range(s, n)) = slice(s, n)
    <3>1. PICK off, z : off = tensor(s, n).at + (e - 1) * share(s, n) /\ z = share(s, n)
      OBVIOUS
    <3>2. off \in Nat /\ z \in Nat
      BY <2>1, <2>6, <2>8, <3>1
    <3>3. Bytes([file |-> s, offset |-> off, len |-> z]) = {<<s, off + b>> : b \in 0 .. z - 1}
      BY <3>2, BytesFrom
    <3>4. QED
      BY <3>1, <3>3
  <2>9. ASSUME NEW p \in DOMAIN Parts
        PROVE  \E s \in DOMAIN files : \E n \in DOMAIN files[s].tensors :
                 n[2] = layer /\ Bytes(index[layer][e][p]) = slice(s, n)
    <3> DEFINE n == name(p)
               s == ShardOf(files, n)
    <3>1. s \in DOMAIN files /\ n \in DOMAIN files[s].tensors /\ n[2] = layer
      BY <2>1, <2>4, <2>5, ShardHas
    <3>2. index[layer][e][p] = range(s, n)
      BY <2>3, <2>6, <3>1 DEF Slice
    <3> HIDE DEF s, n, range, slice
    <3>3. Bytes(index[layer][e][p]) = slice(s, n)
      BY <2>8, <3>1, <3>2
    <3>4. QED
      BY <3>1, <3>3
  <2>10. ASSUME NEW s \in DOMAIN files, NEW n \in DOMAIN files[s].tensors, n[2] = layer
        PROVE  \E p \in DOMAIN Parts : Bytes(index[layer][e][p]) = slice(s, n)
    <3>1. PICK p \in DOMAIN Parts : n[3] \in ToSet(Parts[p])
      BY <2>1 DEF Wellformed
    <3>2. n[1] = layout
      <4>1. PICK t \in DOMAIN files : <<layout, layer, Gate>> \in DOMAIN files[t].tensors
        BY <2>3 DEF HasExperts, Has
      <4>2. n[2] = <<layout, layer, Gate>>[2]
        BY <2>10
      <4>3. n[1] = <<layout, layer, Gate>>[1]
        BY <2>1, <4>1, <4>2 DEF Wellformed
      <4>4. QED
        BY <4>3
    <3>3. name(p) = n /\ ShardOf(files, n) = s
      BY <2>1, <2>10, <3>1, <3>2, NameIs, ShardIs
    <3>4. index[layer][e][p] = range(s, n)
      BY <2>3, <2>6, <2>10, <3>3 DEF Slice
    <3> HIDE DEF range, slice
    <3>5. Bytes(index[layer][e][p]) = slice(s, n)
      BY <2>8, <2>10, <3>4
    <3>6. QED
      BY <3>5
  <2> DEFINE bytes(p) == Bytes(index[layer][e][p])
             ours(s) == {m \in DOMAIN files[s].tensors : m[2] = layer}
  <2>11. /\ \A p \in DOMAIN Parts : \E s \in DOMAIN files : \E n \in ours(s) : bytes(p) = slice(s, n)
         /\ \A s \in DOMAIN files : \A n \in ours(s) : \E p \in DOMAIN Parts : bytes(p) = slice(s, n)
    <3> HIDE DEF slice
    <3>1. QED
      BY <2>9, <2>10
  <2>12. ExpertBytes(layer, e - 1) = UNION {UNION {slice(s, n) : n \in ours(s)} : s \in DOMAIN files}
    BY <2>7, Zenon
  <2> HIDE DEF slice, ours, bytes
  <2>13. UNION {bytes(p) : p \in DOMAIN Parts} =
           UNION {UNION {slice(s, n) : n \in ours(s)} : s \in DOMAIN files}
    BY <2>11
  <2>14. QED
    BY <2>12, <2>13 DEF bytes
<1>2. QED
  BY <1>1, SpillInductive, PTL
=============================================================================
