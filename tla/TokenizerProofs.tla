--------------------------- MODULE TokenizerProofs --------------------------
(***************************************************************************)
(* The cache of the tokenizer never shows, and added tokens are cut out of *)
(* a text as they should be, for any tokenizer and any texts.              *)
(***************************************************************************)
EXTENDS PureTokenizer, FiniteSetTheorems, WellFoundedInduction, SequenceTheorems, TLAPS

-----------------------------------------------------------------------------
(* Numbers, sequences and functions.                                       *)

\* A set of numbers has a smallest one.
LEMMA Smallest ==
  ASSUME NEW T \in SUBSET Nat, T # {}
  PROVE  \E m \in T : \A n \in T : m <= n
<1> DEFINE R == OpToRel(<, Nat)
<1>1. PICK m \in T : \A n \in T : ~(<<n, m>> \in R)
  BY NatLessThanWellFounded, WFMin, Zenon
<1>2. \A n \in T : ~(n < m)
  BY <1>1 DEF OpToRel
<1>3. QED
  BY <1>2

\* The maximum of a set is the element that is at least as large as each.
LEMMA MaxIs ==
  ASSUME NEW T \in SUBSET Int, NEW m \in T, \A y \in T : m >= y
  PROVE  Max(T) = m
<1>1. Max(T) \in T /\ \A y \in T : Max(T) >= y
  BY Zenon DEF Max
<1>2. Max(T) >= m /\ m >= Max(T) /\ Max(T) \in Int /\ m \in Int
  BY <1>1
<1>3. QED
  BY <1>2

\* The minimum of a set of numbers is in it and below the others.
LEMMA MinIs ==
  ASSUME NEW T \in SUBSET Nat, T # {}
  PROVE  Min(T) \in T /\ \A y \in T : Min(T) <= y
<1>1. \E x \in T : \A y \in T : x <= y
  BY Smallest
<1>2. QED
  BY <1>1, Zenon DEF Min

\* A function on 1 .. n is a sequence.
LEMMA FunctionIsSeq ==
  ASSUME NEW S, NEW n \in Nat, NEW f, DOMAIN f = 1 .. n, f = [i \in 1 .. n |-> f[i]],
         \A i \in 1 .. n : f[i] \in S
  PROVE  f \in Seq(S) /\ Len(f) = n
<1>1. f \in [1 .. n -> S]
  BY Zenon
<1>2. QED
  BY <1>1

\* Induction up to n, and from n + 1 down, over the numbers in a set.
LEMMA Upwards ==
  ASSUME NEW n \in Nat, NEW T, 0 \in T, \A i \in 1 .. n : i - 1 \in T => i \in T
  PROVE  \A i \in 0 .. n : i \in T
<1> DEFINE Lost == {i \in 0 .. n : i \notin T}
<1>1. SUFFICES ASSUME Lost # {} PROVE FALSE
  OBVIOUS
<1>2. Lost \in SUBSET Nat
  OBVIOUS
<1>3. PICK m \in Lost : \A k \in Lost : m <= k
  <2> HIDE DEF Lost
  <2>1. QED
    BY <1>1, <1>2, Smallest
<1>4. m \in 0 .. n /\ m \notin T /\ m # 0
  OBVIOUS
<1>5. m - 1 \in 0 .. n /\ ~(m <= m - 1)
  BY <1>4
<1>6. m - 1 \in T
  BY <1>3, <1>5
<1>7. QED
  BY <1>4, <1>6

LEMMA Downwards ==
  ASSUME NEW n \in Nat, NEW T, n + 1 \in T,
         \A i \in 1 .. n : (\A k \in i + 1 .. n + 1 : k \in T) => i \in T
  PROVE  \A i \in 1 .. n + 1 : i \in T
<1> DEFINE Done == {d \in 0 .. n : \A k \in n + 1 - d .. n + 1 : k \in T}
<1>1. 0 \in Done
  <2>1. n + 1 - 0 .. n + 1 = {n + 1}
    OBVIOUS
  <2>2. QED
    BY <2>1
<1>2. \A d \in 1 .. n : d - 1 \in Done => d \in Done
  <2> SUFFICES ASSUME NEW d \in 1 .. n, d - 1 \in Done PROVE d \in Done
    OBVIOUS
  <2> DEFINE i == n + 1 - d
  <2>1. i \in 1 .. n /\ n + 1 - (d - 1) = i + 1
    OBVIOUS
  <2>2. \A k \in i + 1 .. n + 1 : k \in T
    BY <2>1
  <2>3. i \in T
    BY <2>1, <2>2
  <2>4. \A k \in i .. n + 1 : k \in T
    BY <2>1, <2>2, <2>3
  <2>5. QED
    BY <2>4
<1>3. \A d \in 0 .. n : d \in Done
  <2> HIDE DEF Done
  <2>1. QED
    BY <1>1, <1>2, Upwards
<1>4. QED
  <2> TAKE i \in 1 .. n + 1
  <2>1. n + 1 - i \in 0 .. n /\ n + 1 - (n + 1 - i) = i
    OBVIOUS
  <2>2. n + 1 - i \in Done
    BY <1>3, <2>1
  <2>3. \A k \in n + 1 - (n + 1 - i) .. n + 1 : k \in T
    BY <2>2
  <2>4. QED
    BY <2>1, <2>3

\* The first of the places from i on.
LEMMA FirstFromIs ==
  ASSUME NEW i \in Nat, NEW end \in Nat, i <= end, NEW T \in SUBSET Nat
  PROVE  /\ FirstFrom(i, T, end) \in i .. end
         /\ FirstFrom(i, T, end) = end \/ FirstFrom(i, T, end) \in T
         /\ \A k \in T : i <= k => FirstFrom(i, T, end) <= k
<1> DEFINE U == {k \in T : k >= i} \cup {end}
<1>1. U \in SUBSET Nat /\ U # {}
  OBVIOUS
<1> DEFINE m == Min(U)
<1>2. m \in U /\ \A y \in U : m <= y
  <2> HIDE DEF U
  <2>1. QED
    BY <1>1, MinIs
<1>3. FirstFrom(i, T, end) = m
  BY DEF FirstFrom
<1> HIDE DEF m
<1>4. QED
  BY <1>2, <1>3

-----------------------------------------------------------------------------
(* Recursions.                                                             *)

\* What is cut off goes on behind it, and not past the end.
Forward(n, to) == \A i \in 1 .. n : to[i] \in i + 1 .. n + 1

\* What f has to be to hold what is cut off from each place on.
CutsUp(n, cut, to, f) ==
  /\ f[n + 1] = <<>>
  /\ \A i \in 1 .. n : f[i] = cut[i] \o f[to[i]]

\* The recursion in CutUp has a solution, and it is unfolded.
LEMMA CutUpIs ==
  ASSUME NEW n \in Nat, NEW cut, NEW to, Forward(n, to)
  PROVE  \E f : CutsUp(n, cut, to, f) /\ CutUp(n, cut, to) = f[1]
<1> DEFINE D == 1 .. n + 1
           Put(i, x) == cut[i] \o x
           Rec(f) == f = [i \in D |-> IF i > n THEN <<>> ELSE Put(i, f[to[i]])]
           Solves(k, f) == \A i \in n + 1 - k .. n + 1 :
                             f[i] = IF i > n THEN <<>> ELSE Put(i, f[to[i]])
           Lost == {k \in 0 .. n : ~ \E f : Solves(k, f)}
<1> HIDE DEF Put
<1>1. \A i \in 1 .. n : to[i] \in i + 1 .. n + 1
  BY DEF Forward
<1>2. Lost = {}
  <2>1. SUFFICES ASSUME Lost # {} PROVE FALSE
    OBVIOUS
  <2>2. PICK k \in Lost : \A m \in Lost : k <= m
    <3>1. Lost \in SUBSET Nat
      OBVIOUS
    <3> HIDE DEF Lost
    <3>2. QED
      BY <2>1, <3>1, Smallest
  <2>3. k \in 0 .. n /\ ~ \E f : Solves(k, f)
    OBVIOUS
  <2>4. k # 0
    <3>1. Solves(0, [i \in {n + 1} |-> <<>>])
      OBVIOUS
    <3>2. QED
      BY <2>3, <3>1
  <2>5. PICK f : Solves(k - 1, f)
    <3>1. k - 1 \in 0 .. n /\ ~(k <= k - 1)
      BY <2>3, <2>4
    <3>2. k - 1 \notin Lost
      BY <2>2, <3>1
    <3>3. QED
      BY <3>1, <3>2
  <2> DEFINE j == n + 1 - k
             g == [i \in j .. n + 1 |-> IF i = j THEN Put(j, f[to[j]]) ELSE f[i]]
  <2>6. j \in 1 .. n /\ to[j] \in j + 1 .. n + 1 /\ n + 1 - (k - 1) = j + 1
    BY <1>1, <2>3, <2>4
  <2>7. Solves(k, g)
    <3> SUFFICES ASSUME NEW i \in j .. n + 1
                 PROVE g[i] = IF i > n THEN <<>> ELSE Put(i, g[to[i]])
      OBVIOUS
    <3>1. CASE i = j
      BY <2>6, <3>1
    <3>2. CASE i # j
      <4>1. i \in j + 1 .. n + 1
        BY <2>6, <3>2
      <4>2. f[i] = IF i > n THEN <<>> ELSE Put(i, f[to[i]])
        BY <2>5, <2>6, <4>1
      <4>3. i \in 1 .. n => to[i] \in j + 1 .. n + 1
        BY <1>1, <2>6, <4>1
      <4>4. i \in 1 .. n => g[to[i]] = f[to[i]]
        BY <2>6, <4>3
      <4>5. QED
        BY <2>6, <3>2, <4>1, <4>2, <4>4
    <3>3. QED
      BY <3>1, <3>2
  <2>8. QED
    BY <2>3, <2>7
<1>3. PICK f : Solves(n, f)
  <2>1. n \in 0 .. n
    OBVIOUS
  <2>2. QED
    BY <1>2, <2>1
<1> DEFINE g == [i \in D |-> f[i]]
<1>4. Rec(g)
  <2>1. \A i \in D : g[i] = IF i > n THEN <<>> ELSE Put(i, g[to[i]])
    <3> TAKE i \in D
    <3>1. f[i] = IF i > n THEN <<>> ELSE Put(i, f[to[i]])
      BY <1>3
    <3>2. i \in 1 .. n => to[i] \in D
      BY <1>1
    <3>3. QED
      BY <3>1, <3>2
  <2>2. QED
    BY <2>1
<1> DEFINE r == CHOOSE x : Rec(x)
<1>5. Rec(r)
  BY <1>4, Zenon
<1>6. CutUp(n, cut, to) = r[1]
  BY Zenon DEF CutUp, Put
<1> HIDE DEF r
<1>7. r[n + 1] = <<>> /\ \A i \in 1 .. n : r[i] = Put(i, r[to[i]])
  BY <1>5
<1>8. CutsUp(n, cut, to, r)
  BY <1>7 DEF Put, CutsUp
<1>9. QED
  BY <1>6, <1>8

\* What is cut off is a sequence if every part cut off is.
LEMMA CutUpTyped ==
  ASSUME NEW n \in Nat, NEW cut, NEW to, Forward(n, to),
         NEW S, \A i \in 1 .. n : cut[i] \in Seq(S)
  PROVE  CutUp(n, cut, to) \in Seq(S)
<1>0. PICK f : CutsUp(n, cut, to, f) /\ CutUp(n, cut, to) = f[1]
  BY CutUpIs
<1>1. /\ f[n + 1] = <<>>
      /\ \A i \in 1 .. n : f[i] = cut[i] \o f[to[i]]
      /\ CutUp(n, cut, to) = f[1]
  BY <1>0 DEF CutsUp
<1> DEFINE T == {i \in 1 .. n + 1 : f[i] \in Seq(S)}
<1>2. n + 1 \in T
  <2>1. <<>> \in Seq(S) /\ n + 1 \in 1 .. n + 1
    OBVIOUS
  <2>2. QED
    BY <1>1, <2>1
<1>3. \A i \in 1 .. n : (\A k \in i + 1 .. n + 1 : k \in T) => i \in T
  <2> SUFFICES ASSUME NEW i \in 1 .. n, \A k \in i + 1 .. n + 1 : k \in T
               PROVE f[i] \in Seq(S)
    OBVIOUS
  <2>1. f[to[i]] \in Seq(S)
    BY DEF Forward
  <2>2. cut[i] \in Seq(S) /\ f[i] = cut[i] \o f[to[i]]
    BY <1>1
  <2>3. QED
    BY <2>1, <2>2
<1>4. \A i \in 1 .. n + 1 : i \in T
  <2> HIDE DEF T
  <2>1. QED
    BY <1>2, <1>3, Downwards
<1>5. 1 \in T
  BY <1>4
<1>6. QED
  BY <1>1, <1>5

\* The recursion in FlattenSeq has a solution, and it is unfolded.
LEMMA FlattenUnfolds ==
  ASSUME NEW ss, Len(ss) \in Nat \ {0}
  PROVE  \E f : /\ f = [i \in 1 .. Len(ss) |-> IF i = 1 THEN ss[i] ELSE f[i - 1] \o ss[i]]
                /\ FlattenSeq(ss) = f[Len(ss)]
<1> DEFINE n == Len(ss)
           Rec(f) == f = [i \in 1 .. n |-> IF i = 1 THEN ss[i] ELSE f[i - 1] \o ss[i]]
           Solves(m, f) == \A i \in 1 .. m : f[i] = IF i = 1 THEN ss[i] ELSE f[i - 1] \o ss[i]
           Lost == {m \in 0 .. n : ~ \E f : Solves(m, f)}
<1>1. n \in Nat \ {0}
  OBVIOUS
<1> HIDE DEF n
<1>2. Lost = {}
  <2>1. SUFFICES ASSUME Lost # {} PROVE FALSE
    OBVIOUS
  <2>2. Lost \in SUBSET Nat
    BY <1>1
  <2>3. PICK m \in Lost : \A k \in Lost : m <= k
    BY <2>1, <2>2, Smallest
  <2>4. m \in 0 .. n /\ ~ \E f : Solves(m, f)
    OBVIOUS
  <2>5. m # 0
    BY <2>4
  <2>6. m - 1 \in 0 .. n /\ m - 1 \notin Lost
    <3> HIDE DEF Lost, Solves
    <3>1. m - 1 \in 0 .. n /\ ~(m <= m - 1)
      BY <1>1, <2>4, <2>5
    <3>2. QED
      BY <2>3, <3>1
  <2>7. PICK f : Solves(m - 1, f)
    BY <2>6
  <2> DEFINE g == [i \in 1 .. m |-> IF i < m THEN f[i] ELSE IF i = 1 THEN ss[i] ELSE f[i - 1] \o ss[i]]
  <2>8. Solves(m, g)
    <3> SUFFICES ASSUME NEW i \in 1 .. m PROVE g[i] = IF i = 1 THEN ss[i] ELSE g[i - 1] \o ss[i]
      OBVIOUS
    <3>1. CASE i < m
      <4>1. i \in 1 .. m - 1 /\ (i # 1 => i - 1 \in 1 .. m - 1)
        BY <2>4, <3>1
      <4>2. f[i] = IF i = 1 THEN ss[i] ELSE f[i - 1] \o ss[i]
        BY <2>7, <4>1
      <4>3. g[i] = f[i] /\ (i # 1 => g[i - 1] = f[i - 1])
        BY <2>4, <3>1, <4>1
      <4>4. QED
        BY <4>2, <4>3
    <3>2. CASE i = m
      BY <2>4, <2>7, <3>2
    <3>3. QED
      BY <2>4, <3>1, <3>2
  <2>9. QED
    BY <2>4, <2>8
<1>3. \E f : Solves(n, f)
  <2> HIDE DEF Solves
  <2>1. n \in 0 .. n
    BY <1>1
  <2>2. QED
    BY <1>2, <2>1
<1>4. PICK f : Solves(n, f)
  BY <1>3
<1> DEFINE g == [i \in 1 .. n |-> f[i]]
<1>5. Rec(g)
  <2>1. \A i \in 1 .. n : g[i] = IF i = 1 THEN ss[i] ELSE g[i - 1] \o ss[i]
    BY <1>1, <1>4
  <2>2. QED
    BY <2>1
<1> DEFINE r == CHOOSE x : Rec(x)
<1>6. Rec(r)
  BY <1>5, Zenon
<1>7. FlattenSeq(ss) = r[n]
  BY <1>1, Zenon DEF FlattenSeq, n
<1>8. QED
  BY <1>6, <1>7, Zenon DEF n

\* The sequences put behind each other, one at a time.
LEMMA FlattenIs ==
  ASSUME NEW S, NEW ss \in Seq(Seq(S))
  PROVE  \E g : /\ g[0] = <<>>
                /\ \A i \in 1 .. Len(ss) : g[i] = g[i - 1] \o ss[i]
                /\ \A i \in 0 .. Len(ss) : g[i] \in Seq(S)
                /\ FlattenSeq(ss) = g[Len(ss)]
<1> DEFINE n == Len(ss)
<1>1. n \in Nat /\ \A i \in 1 .. n : ss[i] \in Seq(S)
  BY LenProperties, ElementOfSeq
<1>2. CASE n = 0
  <2>1. ss = <<>>
    BY <1>2
  <2>2. FlattenSeq(ss) = <<>>
    BY <2>1 DEF FlattenSeq
  <2> DEFINE g == [i \in 0 .. 0 |-> <<>>]
  <2>3. g[0] = <<>> /\ <<>> \in Seq(S)
    OBVIOUS
  <2> HIDE DEF g
  <2>4. \A i \in 1 .. n : g[i] = g[i - 1] \o ss[i]
    BY <1>2
  <2>5. \A i \in 0 .. n : g[i] \in Seq(S)
    <3>1. \A i \in 0 .. n : i = 0
      BY <1>2
    <3>2. QED
      BY <2>3, <3>1
  <2>6. FlattenSeq(ss) = g[n]
    BY <1>2, <2>2, <2>3
  <2>7. QED
    BY <2>3, <2>4, <2>5, <2>6
<1>3. CASE n # 0
  <2>1. PICK f : /\ f = [i \in 1 .. n |-> IF i = 1 THEN ss[i] ELSE f[i - 1] \o ss[i]]
                 /\ FlattenSeq(ss) = f[n]
    BY <1>1, <1>3, FlattenUnfolds
  <2> DEFINE g == [i \in 0 .. n |-> IF i = 0 THEN <<>> ELSE f[i]]
  <2>2. g[0] = <<>> /\ g[n] = f[n]
    BY <1>1, <1>3
  <2>3. \A i \in 1 .. n : g[i] = g[i - 1] \o ss[i]
    <3> TAKE i \in 1 .. n
    <3>1. f[i] = IF i = 1 THEN ss[i] ELSE f[i - 1] \o ss[i]
      BY <2>1
    <3>2. g[i] = f[i] /\ (i = 1 => g[i - 1] = <<>>) /\ (i # 1 => g[i - 1] = f[i - 1])
      BY <1>1
    <3>3. <<>> \o ss[i] = ss[i]
      BY <1>1
    <3>4. QED
      BY <3>1, <3>2, <3>3
  <2> HIDE DEF g
  <2> DEFINE T == {i \in 0 .. n : g[i] \in Seq(S)}
  <2>4. 0 \in T
    <3>1. <<>> \in Seq(S) /\ 0 \in 0 .. n
      BY <1>1
    <3>2. QED
      BY <2>2, <3>1
  <2>5. \A i \in 1 .. n : i - 1 \in T => i \in T
    <3> SUFFICES ASSUME NEW i \in 1 .. n, i - 1 \in T PROVE i \in T
      OBVIOUS
    <3>1. g[i - 1] \in Seq(S) /\ i \in 0 .. n
      BY <1>1
    <3>2. ss[i] \in Seq(S) /\ g[i] = g[i - 1] \o ss[i]
      BY <1>1, <2>3
    <3> DEFINE x == g[i - 1]
               y == ss[i]
    <3>3. x \in Seq(S) /\ y \in Seq(S) /\ g[i] = x \o y
      BY <3>1, <3>2
    <3> HIDE DEF x, y
    <3>4. x \o y \in Seq(S)
      BY <3>3
    <3>5. QED
      BY <3>1, <3>3, <3>4
  <2>6. \A i \in 0 .. n : i \in T
    <3> HIDE DEF T
    <3>1. QED
      BY <1>1, <2>4, <2>5, Upwards
  <2>7. QED
    BY <2>1, <2>2, <2>3, <2>6
<1>4. QED
  BY <1>2, <1>3

LEMMA FlattenTyped ==
  ASSUME NEW S, NEW ss \in Seq(Seq(S))
  PROVE  FlattenSeq(ss) \in Seq(S)
<1>1. PICK g : /\ \A i \in 0 .. Len(ss) : g[i] \in Seq(S)
               /\ FlattenSeq(ss) = g[Len(ss)]
  BY FlattenIs
<1>2. Len(ss) \in 0 .. Len(ss)
  BY LenProperties
<1>3. QED
  BY <1>1, <1>2

\* Some elements of a sequence are a sequence.
LEMMA PickedTyped ==
  ASSUME NEW S, NEW s \in Seq(S), NEW places
  PROVE  Picked(s, places) \in Seq(S)
<1> DEFINE ss == [k \in DOMAIN s |-> IF k \in places THEN <<s[k]>> ELSE <<>>]
<1>1. Len(s) \in Nat /\ DOMAIN s = 1 .. Len(s) /\ \A k \in 1 .. Len(s) : s[k] \in S
  BY LenProperties, ElementOfSeq
<1>2. ss \in Seq(Seq(S))
  <2>1. \A k \in 1 .. Len(s) : ss[k] \in Seq(S)
    BY <1>1
  <2>2. DOMAIN ss = 1 .. Len(s) /\ ss = [k \in 1 .. Len(s) |-> ss[k]]
    BY <1>1
  <2> HIDE DEF ss
  <2>3. QED
    BY <1>1, <2>1, <2>2, FunctionIsSeq
<1>3. FlattenSeq(ss) \in Seq(S)
  BY <1>2, FlattenTyped
<1>4. QED
  BY <1>3 DEF Picked

-----------------------------------------------------------------------------
(* What the stages of TextPipeline make of a text.                         *)

PieceOf == [hit : BOOLEAN, text : Seq(Char)]

\* A part of a text is a text.
LEMMA PartTyped ==
  ASSUME NEW S, NEW t \in Seq(S), NEW i \in 1 .. Len(t) + 1, NEW j \in i - 1 .. Len(t)
  PROVE  SubSeq(t, i, j) \in Seq(S) /\ Len(SubSeq(t, i, j)) = j - i + 1
<1>1. Len(t) \in Nat /\ \A k \in 1 .. Len(t) : t[k] \in S
  BY LenProperties, ElementOfSeq
<1>2. \A k \in i .. j : t[k] \in S
  BY <1>1
<1>3. i \in Int /\ j \in Int
  BY <1>1
<1>4. /\ SubSeq(t, i, j) \in Seq(S)
      /\ Len(SubSeq(t, i, j)) = IF i <= j THEN j - i + 1 ELSE 0
  BY <1>2, <1>3, SubSeqProperties
<1>5. i <= j \/ j = i - 1
  BY <1>1
<1>6. QED
  BY <1>3, <1>4, <1>5

\* A run ends where the text ends at the latest.
LEMMA RunLengthIs ==
  ASSUME NEW S, NEW t \in Seq(S), NEW set, NEW max \in Nat, NEW i \in 1 .. Len(t) + 1
  PROVE  RunLength(set, max, t, i) \in 0 .. Len(t) + 1 - i
<1> DEFINE places == {k \in DOMAIN t : t[k] \notin set} \cup {i + max}
           end == Len(t) + 1
<1>1. Len(t) \in Nat /\ DOMAIN t = 1 .. Len(t)
  BY LenProperties
<1>2. places \in SUBSET Nat /\ i \in Nat /\ end \in Nat /\ i <= end
  BY <1>1
<1>3. RunLength(set, max, t, i) = FirstFrom(i, places, end) - i
  BY DEF RunLength
<1> HIDE DEF places, end
<1>4. FirstFrom(i, places, end) \in i .. end
  BY <1>2, FirstFromIs
<1>5. QED
  BY <1>2, <1>3, <1>4 DEF end

LEMMA AltLengthIs ==
  ASSUME NEW S, NEW t \in Seq(S), NEW alt, alt.max \in Nat, NEW i \in 1 .. Len(t)
  PROVE  AltLength(alt, t, i) \in 0 .. Len(t) + 1 - i
<1>0. Len(t) \in Nat
  BY LenProperties
<1>1. RunLength(alt.of, alt.max, t, i) \in 0 .. Len(t) + 1 - i
  BY <1>0, RunLengthIs
<1>2. RunLength(alt.of, alt.max, t, i + 1) \in 0 .. Len(t) + 1 - (i + 1)
  <2>1. i + 1 \in 1 .. Len(t) + 1
    BY <1>0
  <2>2. QED
    BY <2>1, RunLengthIs
<1> DEFINE a == RunLength(alt.of, alt.max, t, i)
           b == RunLength(alt.of, alt.max, t, i + 1)
<1>3. AltLength(alt, t, i) = a \/ AltLength(alt, t, i) = 1 + b
  BY DEF AltLength
<1> HIDE DEF a, b
<1>4. a \in 0 .. Len(t) + 1 - i /\ b \in 0 .. Len(t) - i
  BY <1>0, <1>1, <1>2 DEF a, b
<1>5. QED
  BY <1>0, <1>3, <1>4

LEMMA MatchLengthIs ==
  ASSUME NEW S, NEW t \in Seq(S), NEW regex \in Regexes, NEW i \in 1 .. Len(t)
  PROVE  MatchLength(regex, t, i) \in 0 .. Len(t) + 1 - i
<1> DEFINE lengths == [a \in DOMAIN regex |-> AltLength(regex[a], t, i)]
           matching == {a \in DOMAIN regex : lengths[a] > 0}
<1>1. Len(t) \in Nat /\ DOMAIN regex = 1 .. Len(regex)
  BY LenProperties DEF Regexes
<1>2. \A a \in DOMAIN regex : lengths[a] \in 0 .. Len(t) + 1 - i
  <2> SUFFICES ASSUME NEW a \in DOMAIN regex PROVE lengths[a] \in 0 .. Len(t) + 1 - i
    OBVIOUS
  <2>1. regex[a] \in [lead : SUBSET Nat, of : SUBSET Nat, max : Nat]
    BY <1>1, ElementOfSeq DEF Regexes
  <2>2. regex[a].max \in Nat
    BY <2>1
  <2>3. AltLength(regex[a], t, i) \in 0 .. Len(t) + 1 - i
    BY <2>2, AltLengthIs
  <2>4. QED
    BY <2>3
<1>3. MatchLength(regex, t, i) = IF matching = {} THEN 0 ELSE lengths[Min(matching)]
  BY DEF MatchLength
<1>4. matching \in SUBSET Nat /\ matching \in SUBSET DOMAIN regex
  BY <1>1
<1> HIDE DEF lengths, matching
<1>5. CASE matching = {}
  BY <1>1, <1>3, <1>5
<1>6. CASE matching # {}
  <2>1. Min(matching) \in DOMAIN regex
    BY <1>4, <1>6, MinIs
  <2>2. QED
    BY <1>2, <1>3, <1>6, <2>1
<1>7. QED
  BY <1>5, <1>6

LEMMA PiecesTyped ==
  ASSUME NEW t \in Seq(Char), NEW regex \in Regexes
  PROVE  Pieces(regex, t) \in Seq(PieceOf)
<1> DEFINE n == Len(t)
           match == [i \in DOMAIN t |-> MatchLength(regex, t, i)]
           hits == {i \in DOMAIN t : match[i] > 0}
           to == [i \in DOMAIN t |-> IF i \in hits THEN i + match[i]
                                     ELSE FirstFrom(i, hits, n + 1)]
           piece == [i \in DOMAIN t |->
                       <<[hit |-> i \in hits, text |-> SubSeq(t, i, to[i] - 1)]>>]
<1>1. n \in Nat /\ DOMAIN t = 1 .. n
  BY LenProperties
<1>2. \A i \in 1 .. n : match[i] \in 0 .. n + 1 - i
  BY <1>1, MatchLengthIs
<1>3. hits \in SUBSET Nat
  BY <1>1
<1>4. Pieces(regex, t) = CutUp(n, piece, to)
  BY DEF Pieces
<1> HIDE DEF match
<1>5. \A i \in 1 .. n : to[i] \in i + 1 .. n + 1
  <2> SUFFICES ASSUME NEW i \in 1 .. n PROVE to[i] \in i + 1 .. n + 1
    OBVIOUS
  <2>1. CASE i \in hits
    <3>1. match[i] \in 1 .. n + 1 - i /\ to[i] = i + match[i]
      BY <1>1, <1>2, <2>1
    <3>2. QED
      BY <1>1, <3>1
  <2>2. CASE i \notin hits
    <3>1. to[i] = FirstFrom(i, hits, n + 1)
      BY <1>1, <2>2
    <3>2. i \in Nat /\ n + 1 \in Nat /\ i <= n + 1
      BY <1>1
    <3> HIDE DEF hits, to
    <3>3. /\ FirstFrom(i, hits, n + 1) \in i .. n + 1
          /\ FirstFrom(i, hits, n + 1) = n + 1 \/ FirstFrom(i, hits, n + 1) \in hits
      BY <1>3, <3>2, FirstFromIs
    <3>4. QED
      BY <1>1, <2>2, <3>1, <3>3
  <2>3. QED
    BY <2>1, <2>2
<1>6. \A i \in 1 .. n : piece[i] \in Seq(PieceOf)
  <2> SUFFICES ASSUME NEW i \in 1 .. n PROVE piece[i] \in Seq(PieceOf)
    OBVIOUS
  <2> HIDE DEF to, hits
  <2>1. i \in 1 .. n + 1 /\ to[i] - 1 \in i - 1 .. n
    BY <1>1, <1>5
  <2>2. SubSeq(t, i, to[i] - 1) \in Seq(Char)
    BY <2>1, PartTyped
  <2>3. [hit |-> i \in hits, text |-> SubSeq(t, i, to[i] - 1)] \in PieceOf
    BY <2>2 DEF PieceOf
  <2>4. piece[i] = <<[hit |-> i \in hits, text |-> SubSeq(t, i, to[i] - 1)]>>
    BY <1>1
  <2>5. QED
    BY <2>3, <2>4
<1> HIDE DEF n, to, piece
<1>7. Forward(n, to)
  BY <1>5 DEF Forward
<1>8. CutUp(n, piece, to) \in Seq(PieceOf)
  BY <1>1, <1>6, <1>7, CutUpTyped
<1>9. QED
  BY <1>4, <1>8

\* Texts, hits and gaps of pieces.
LEMMA TextsTyped ==
  ASSUME NEW pieces \in Seq(PieceOf)
  PROVE  Texts(pieces) \in Seq(Seq(Char))
<1> DEFINE f == Texts(pieces)
<1>1. Len(pieces) \in Nat /\ DOMAIN pieces = 1 .. Len(pieces)
  BY LenProperties
<1>2. \A k \in 1 .. Len(pieces) : pieces[k] \in PieceOf
  BY ElementOfSeq
<1>3. DOMAIN f = 1 .. Len(pieces) /\ f = [k \in 1 .. Len(pieces) |-> f[k]]
  BY <1>1 DEF Texts
<1>4. \A k \in 1 .. Len(pieces) : f[k] \in Seq(Char)
  BY <1>1, <1>2 DEF Texts, PieceOf
<1> HIDE DEF f
<1>5. f \in Seq(Seq(Char))
  BY <1>1, <1>3, <1>4, FunctionIsSeq
<1>6. QED
  BY <1>5 DEF f

LEMMA HitsTyped ==
  ASSUME NEW pieces \in Seq(PieceOf)
  PROVE  Texts(Hits(pieces)) \in Seq(Seq(Char)) /\ Texts(Gaps(pieces)) \in Seq(Seq(Char))
<1>1. Hits(pieces) \in Seq(PieceOf)
  BY PickedTyped DEF Hits
<1>2. Gaps(pieces) \in Seq(PieceOf)
  BY PickedTyped DEF Gaps
<1>3. QED
  BY <1>1, <1>2, TextsTyped

LEMMA SubstituteTyped ==
  ASSUME NEW regex \in Regexes, NEW content \in Seq(Char), NEW t \in Seq(Char)
  PROVE  Substitute(regex, content, t) \in Seq(Char)
<1> DEFINE pieces == Pieces(regex, t)
           f == [k \in DOMAIN pieces |-> IF pieces[k].hit THEN content ELSE pieces[k].text]
<1>1. pieces \in Seq(PieceOf)
  BY PiecesTyped
<1>2. Substitute(regex, content, t) = FlattenSeq(f)
  BY DEF Substitute
<1> HIDE DEF pieces
<1>3. Len(pieces) \in Nat /\ DOMAIN pieces = 1 .. Len(pieces)
  BY <1>1, LenProperties
<1>4. \A k \in 1 .. Len(pieces) : pieces[k] \in PieceOf
  BY <1>1, ElementOfSeq
<1>5. DOMAIN f = 1 .. Len(pieces) /\ f = [k \in 1 .. Len(pieces) |-> f[k]]
  BY <1>3
<1>6. \A k \in 1 .. Len(pieces) : f[k] \in Seq(Char)
  BY <1>3, <1>4 DEF PieceOf
<1> HIDE DEF f
<1>7. f \in Seq(Seq(Char))
  BY <1>3, <1>5, <1>6, FunctionIsSeq
<1>8. QED
  BY <1>2, <1>7, FlattenTyped

LEMMA SplitWhitespaceTyped ==
  ASSUME NEW t \in Seq(Char)
  PROVE  SplitWhitespace(t) \in Seq(Seq(Char))
<1>1. WhiteRun \in Regexes
  <2>1. White \in SUBSET Nat /\ {} \in SUBSET Nat /\ 100 \in Nat
    BY DEF White, Space
  <2>2. [lead |-> {}, of |-> White, max |-> 100] \in [lead : SUBSET Nat, of : SUBSET Nat, max : Nat]
    BY <2>1
  <2>3. QED
    BY <2>2 DEF WhiteRun, Regexes
<1>2. Pieces(WhiteRun, t) \in Seq(PieceOf)
  BY <1>1, PiecesTyped
<1>3. QED
  BY <1>2, HitsTyped DEF SplitWhitespace

LEMMA JoinedTyped ==
  ASSUME NEW words \in Seq(Seq(Char)), NEW sep \in Seq(Char)
  PROVE  Joined(words, sep) \in Seq(Char)
<1> DEFINE f == [k \in DOMAIN words |-> IF k = 1 THEN words[k] ELSE sep \o words[k]]
<1>1. Len(words) \in Nat /\ DOMAIN words = 1 .. Len(words)
  BY LenProperties
<1>2. \A k \in 1 .. Len(words) : words[k] \in Seq(Char)
  BY ElementOfSeq
<1>3. DOMAIN f = 1 .. Len(words) /\ f = [k \in 1 .. Len(words) |-> f[k]]
  BY <1>1
<1>4. \A k \in 1 .. Len(words) : f[k] \in Seq(Char)
  <2> TAKE k \in 1 .. Len(words)
  <2>1. words[k] \in Seq(Char)
    BY <1>2
  <2>2. sep \o words[k] \in Seq(Char)
    BY <2>1, ConcatProperties
  <2>3. QED
    BY <1>1, <2>1, <2>2
<1>5. Joined(words, sep) = FlattenSeq(f)
  BY DEF Joined
<1> HIDE DEF f
<1>6. f \in Seq(Seq(Char))
  BY <1>1, <1>3, <1>4, FunctionIsSeq
<1>7. QED
  BY <1>5, <1>6, FlattenTyped

\* How large the largest character is.
LEMMA MaxCharIs ==
  MaxChar \in Nat /\ MaxChar >= 9601 /\ MaxChar < 2097152
BY SMT DEF MaxChar

LEMMA SpaceIsText == Space \in Char /\ <<Space>> \in Seq(Char) /\ Underline \in Char
<1>1. Space \in Char /\ Underline \in Char
  BY MaxCharIs, SMT DEF Space, Char, Underline
<1>2. QED
  BY <1>1

\* Each character for one other, for a few, or for one when it is a capital.
LEMMA LowercaseTyped ==
  ASSUME NEW t \in Seq(Char)
  PROVE  Lowercase(t) \in Seq(Char) /\ ToUnderline(t) \in Seq(Char)
<1> DEFINE f == Lowercase(t)
           g == ToUnderline(t)
<1>1. Len(t) \in Nat /\ DOMAIN t = 1 .. Len(t) /\ \A k \in 1 .. Len(t) : t[k] \in Char
  BY LenProperties, ElementOfSeq
<1>2. DOMAIN f = 1 .. Len(t) /\ f = [k \in 1 .. Len(t) |-> f[k]]
  BY <1>1 DEF Lowercase
<1>3. \A k \in 1 .. Len(t) : f[k] \in Char
  <2> TAKE k \in 1 .. Len(t)
  <2>1. t[k] \in Char
    BY <1>1
  <2>2. f[k] = IF t[k] \in 65 .. 90 THEN t[k] + 32 ELSE t[k]
    BY <1>1 DEF Lowercase
  <2> DEFINE c == t[k]
  <2> HIDE DEF c
  <2>3. c \in 65 .. 90 => c + 32 \in Char
    BY MaxCharIs, SMT DEF Char
  <2>4. QED
    BY <2>1, <2>2, <2>3 DEF c
<1>4. DOMAIN g = 1 .. Len(t) /\ g = [k \in 1 .. Len(t) |-> g[k]]
  BY <1>1 DEF ToUnderline
<1>5. \A k \in 1 .. Len(t) : g[k] \in Char
  BY <1>1, SpaceIsText DEF ToUnderline
<1> HIDE DEF f, g
<1>6. f \in Seq(Char) /\ g \in Seq(Char)
  BY <1>1, <1>2, <1>3, <1>4, <1>5, FunctionIsSeq
<1>7. QED
  BY <1>6 DEF f, g

LEMMA BertTyped ==
  ASSUME NEW t \in Seq(Char), NEW lowercase
  PROVE  BertNormalize(t, lowercase) \in Seq(Char)
<1>1. CleanText(t) \in Seq(Char)
  <2> DEFINE places == {k \in DOMAIN t : t[k] >= 32 \/ t[k] \in White}
  <2>1. Picked(t, places) \in Seq(Char)
    BY PickedTyped
  <2>2. CleanText(t) = Joined(SplitWhitespace(Picked(t, places)), <<Space>>)
    BY DEF CleanText
  <2> HIDE DEF places
  <2>3. SplitWhitespace(Picked(t, places)) \in Seq(Seq(Char))
    BY <2>1, SplitWhitespaceTyped
  <2>4. QED
    BY <2>2, <2>3, SpaceIsText, JoinedTyped
<1>2. SpaceCjk(CleanText(t)) \in Seq(Char)
  <2> DEFINE u == CleanText(t)
             f == [k \in DOMAIN u |-> IF IsCjk(u[k]) THEN <<Space, u[k], Space>> ELSE <<u[k]>>]
  <2>1. u \in Seq(Char)
    BY <1>1
  <2>2. SpaceCjk(u) = FlattenSeq(f)
    BY DEF SpaceCjk
  <2> HIDE DEF u
  <2>3. Len(u) \in Nat /\ DOMAIN u = 1 .. Len(u) /\ \A k \in 1 .. Len(u) : u[k] \in Char
    BY <2>1, LenProperties, ElementOfSeq
  <2>4. DOMAIN f = 1 .. Len(u) /\ f = [k \in 1 .. Len(u) |-> f[k]]
    BY <2>3
  <2>5. \A k \in 1 .. Len(u) : f[k] \in Seq(Char)
    <3> TAKE k \in 1 .. Len(u)
    <3>1. u[k] \in Char
      BY <2>3
    <3> DEFINE c == u[k]
    <3> HIDE DEF c
    <3>2. <<Space, c, Space>> \in Seq(Char) /\ <<c>> \in Seq(Char)
      BY <3>1, SpaceIsText DEF c
    <3>3. f[k] = <<Space, c, Space>> \/ f[k] = <<c>>
      BY <2>3 DEF c
    <3>4. QED
      BY <3>2, <3>3
  <2> HIDE DEF f
  <2>6. f \in Seq(Seq(Char))
    BY <2>3, <2>4, <2>5, FunctionIsSeq
  <2>7. FlattenSeq(f) \in Seq(Char)
    BY <2>6, FlattenTyped
  <2>8. QED
    BY <2>2, <2>7 DEF u
<1>3. Lowercase(SpaceCjk(CleanText(t))) \in Seq(Char)
  BY <1>2, LowercaseTyped
<1>4. QED
  BY <1>2, <1>3 DEF BertNormalize

\* A normalizer makes a text of a text.
LEMMA NormalizeOpTyped ==
  ASSUME NEW t \in Seq(Char), NEW n, Normalizes(n)
  PROVE  NormalizeOp(t, n) \in Seq(Char)
<1>1. CASE n.op = "Replace"
  <2>1. n.regex \in Regexes /\ n.content \in Seq(Char)
    BY <1>1 DEF Normalizes
  <2>2. NormalizeOp(t, n) = Substitute(n.regex, n.content, t)
    BY <1>1, Zenon DEF NormalizeOp
  <2>3. QED
    BY <2>1, <2>2, SubstituteTyped
<1>2. CASE n.op = "Prepend"
  <2>1. n.content \in Seq(Char)
    BY <1>2 DEF Normalizes
  <2>2. NormalizeOp(t, n) = n.content \o t
    BY <1>2, Zenon DEF NormalizeOp
  <2>3. n.content \o t \in Seq(Char)
    BY <2>1, ConcatProperties
  <2>4. QED
    BY <2>2, <2>3
<1>3. CASE n.op = "Lowercase"
  <2>1. NormalizeOp(t, n) = Lowercase(t)
    BY <1>3, Zenon DEF NormalizeOp
  <2>2. QED
    BY <2>1, LowercaseTyped
<1>4. CASE n.op = "BertNormalizer"
  <2>1. NormalizeOp(t, n) = BertNormalize(t, n.lowercase)
    BY <1>4, Zenon DEF NormalizeOp
  <2>2. QED
    BY <2>1, BertTyped
<1>5. CASE n.op \notin {"Replace", "Prepend", "Lowercase", "BertNormalizer"}
  <2>1. NormalizeOp(t, n) = t
    BY <1>5, Zenon DEF NormalizeOp
  <2>2. QED
    BY <2>1
<1>6. QED
  BY <1>1, <1>2, <1>3, <1>4, <1>5

\* A few elements are a sequence.
LEMMA TupleTyped ==
  ASSUME NEW S, NEW a \in S, NEW b \in S, NEW c \in S, NEW d \in S
  PROVE  <<a>> \in Seq(S) /\ <<a, b>> \in Seq(S) /\ <<a, b, c>> \in Seq(S)
         /\ <<a, b, c, d>> \in Seq(S)
OBVIOUS

\* The bytes of a character, and the characters that stand for bytes.
LEMMA Utf8Typed ==
  ASSUME NEW c \in Char
  PROVE  Utf8(c) \in Seq(Byte)
<1> DEFINE tail(d) == 128 + ((c \div d) % 64)
<1>0. c \in Nat /\ c < 2097152
  BY MaxCharIs, SMT DEF Char
<1>1. tail(1) \in Byte /\ tail(64) \in Byte /\ tail(4096) \in Byte
  <2>1. tail(1) \in Byte
    BY <1>0, SMT DEF Byte
  <2>2. tail(64) \in Byte
    BY <1>0, SMT DEF Byte
  <2>3. tail(4096) \in Byte
    BY <1>0, SMT DEF Byte
  <2>4. QED
    BY <2>1, <2>2, <2>3
<1>2. Utf8(c) = IF c < 128 THEN <<c>>
                ELSE IF c < 2048 THEN <<192 + (c \div 64), tail(1)>>
                ELSE IF c < 65536 THEN <<224 + (c \div 4096), tail(64), tail(1)>>
                ELSE <<240 + (c \div 262144), tail(4096), tail(64), tail(1)>>
  BY SMT DEF Utf8
<1> HIDE DEF tail
<1> DEFINE x == 192 + (c \div 64)
           y == 224 + (c \div 4096)
           z == 240 + (c \div 262144)
<1>3. CASE c < 128
  <2>1. c \in Byte /\ Utf8(c) = <<c>>
    BY <1>0, <1>2, <1>3, SMT DEF Byte
  <2>2. QED
    BY <2>1, TupleTyped
<1>4. CASE c >= 128 /\ c < 2048
  <2>1. x \in Byte
    BY <1>0, <1>4, SMT DEF Byte
  <2>2. Utf8(c) = <<x, tail(1)>>
    BY <1>0, <1>2, <1>4, SMT
  <2> HIDE DEF x
  <2>3. QED
    BY <1>1, <2>1, <2>2, TupleTyped
<1>5. CASE c >= 2048 /\ c < 65536
  <2>1. y \in Byte
    BY <1>0, <1>5, SMT DEF Byte
  <2>2. Utf8(c) = <<y, tail(64), tail(1)>>
    BY <1>0, <1>2, <1>5, SMT
  <2> HIDE DEF y
  <2>3. QED
    BY <1>1, <2>1, <2>2, TupleTyped
<1>6. CASE c >= 65536
  <2>1. z \in Byte
    BY <1>0, <1>6, SMT DEF Byte
  <2>2. Utf8(c) = <<z, tail(4096), tail(64), tail(1)>>
    BY <1>0, <1>2, <1>6, SMT
  <2> HIDE DEF z
  <2>3. QED
    BY <1>1, <2>1, <2>2, TupleTyped
<1>7. QED
  BY <1>0, <1>3, <1>4, <1>5, <1>6, SMT

LEMMA BytesTyped == \A b \in Byte : BytesToUnicode[b] \in Char
<1> SUFFICES ASSUME NEW b \in Byte PROVE BytesToUnicode[b] \in Char
  OBVIOUS
<1> DEFINE before == {a \in Byte \ Printable : a < b}
           top == 255
<1>0. top \in Nat /\ 0 \in Int /\ top + 1 = 256 /\ 0 <= top
  OBVIOUS
<1>1. before \in SUBSET (0 .. top)
  BY DEF Byte
<1>2. BytesToUnicode[b] = IF b \in Printable THEN b ELSE 256 + Cardinality(before)
  BY DEF BytesToUnicode
<1> HIDE DEF before
<1> HIDE DEF top
<1>3. IsFiniteSet(0 .. top) /\ Cardinality(0 .. top) = 256
  BY <1>0, FS_Interval
<1>4. IsFiniteSet(before) /\ Cardinality(before) <= 256
  <2> DEFINE whole == 0 .. top
  <2>1. before \in SUBSET whole /\ IsFiniteSet(whole) /\ Cardinality(whole) = 256
    BY <1>1, <1>3
  <2> HIDE DEF whole
  <2>2. IsFiniteSet(before) /\ Cardinality(before) <= Cardinality(whole)
    BY <2>1, FS_Subset
  <2>3. QED
    BY <2>1, <2>2
<1>5. Cardinality(before) \in Nat
  BY <1>4, FS_CardinalityType
<1>6. b \in Char
  BY MaxCharIs, SMT DEF Byte, Char
<1>7. 256 + Cardinality(before) \in Char
  BY <1>4, <1>5, MaxCharIs, SMT DEF Char
<1>8. QED
  BY <1>2, <1>6, <1>7

LEMMA ByteEncodeTyped ==
  ASSUME NEW t \in Seq(Char)
  PROVE  ByteEncode(t) \in Seq(Char)
<1> DEFINE Of(c) == [m \in DOMAIN Utf8(c) |-> BytesToUnicode[Utf8(c)[m]]]
           f == [k \in DOMAIN t |-> Of(t[k])]
<1>1. Len(t) \in Nat /\ DOMAIN t = 1 .. Len(t) /\ \A k \in 1 .. Len(t) : t[k] \in Char
  BY LenProperties, ElementOfSeq
<1>2. \A c \in Char : Of(c) \in Seq(Char)
  <2> TAKE c \in Char
  <2> DEFINE bytes == Utf8(c)
             h == Of(c)
  <2>1. bytes \in Seq(Byte)
    BY Utf8Typed
  <2> HIDE DEF bytes
  <2>2. Len(bytes) \in Nat /\ DOMAIN bytes = 1 .. Len(bytes) /\ \A m \in 1 .. Len(bytes) : bytes[m] \in Byte
    BY <2>1, LenProperties, ElementOfSeq
  <2>3. h = [m \in DOMAIN bytes |-> BytesToUnicode[bytes[m]]]
    BY DEF bytes
  <2> HIDE DEF h
  <2>4. DOMAIN h = 1 .. Len(bytes) /\ h = [m \in 1 .. Len(bytes) |-> h[m]]
    BY <2>2, <2>3
  <2>5. \A m \in 1 .. Len(bytes) : h[m] \in Char
    BY <2>2, <2>3, BytesTyped
  <2>6. h \in Seq(Char)
    BY <2>2, <2>4, <2>5, FunctionIsSeq
  <2>7. QED
    BY <2>6 DEF h
<1>3. ByteEncode(t) = FlattenSeq(f)
  BY DEF ByteEncode
<1> HIDE DEF Of
<1>4. DOMAIN f = 1 .. Len(t) /\ f = [k \in 1 .. Len(t) |-> f[k]]
  BY <1>1
<1>5. \A k \in 1 .. Len(t) : f[k] \in Seq(Char)
  BY <1>1, <1>2
<1> HIDE DEF f
<1>6. f \in Seq(Seq(Char))
  BY <1>1, <1>4, <1>5, FunctionIsSeq
<1>7. QED
  BY <1>3, <1>6, FlattenTyped

\* A pre-tokenizer makes texts of a text.
LEMMA PretokenizeOneTyped ==
  ASSUME NEW t \in Seq(Char), NEW p, Splits(p)
  PROVE  PretokenizeOne(t, p) \in Seq(Seq(Char))
<1>0. p.op \in {"Split", "Bert", "WhitespaceSplit", "ByteLevel", "Metaspace"}
  BY DEF Splits
<1>1. CASE p.op = "Split"
  <2>1. p.regex \in Regexes
    BY <1>1 DEF Splits
  <2> DEFINE pieces == Pieces(p.regex, t)
  <2>2. pieces \in Seq(PieceOf)
    BY <2>1, PiecesTyped
  <2>3. PretokenizeOne(t, p) = Split(t, p)
    BY <1>1, Zenon DEF PretokenizeOne
  <2>4. \/ Split(t, p) = <<FlattenSeq(Texts(Gaps(pieces)))>>
        \/ Split(t, p) = Texts(pieces)
    BY DEF Split
  <2> HIDE DEF pieces
  <2>5. FlattenSeq(Texts(Gaps(pieces))) \in Seq(Char)
    BY <2>2, HitsTyped, FlattenTyped
  <2>6. <<FlattenSeq(Texts(Gaps(pieces)))>> \in Seq(Seq(Char))
    BY <2>5
  <2>7. Texts(pieces) \in Seq(Seq(Char))
    BY <2>2, TextsTyped
  <2>8. QED
    BY <2>3, <2>4, <2>6, <2>7
<1>2. CASE p.op = "Bert"
  <2>1. p.regex \in Regexes
    BY <1>2 DEF Splits
  <2>2. Pieces(p.regex, t) \in Seq(PieceOf)
    BY <2>1, PiecesTyped
  <2>3. PretokenizeOne(t, p) = Texts(Hits(Pieces(p.regex, t)))
    BY <1>2, Zenon DEF PretokenizeOne
  <2>4. QED
    BY <2>2, <2>3, HitsTyped
<1>3. CASE p.op = "WhitespaceSplit"
  <2>1. PretokenizeOne(t, p) = SplitWhitespace(t)
    BY <1>3, Zenon DEF PretokenizeOne
  <2>2. QED
    BY <2>1, SplitWhitespaceTyped
<1>4. CASE p.op = "ByteLevel"
  <2>1. PretokenizeOne(t, p) = <<ByteEncode(t)>>
    BY <1>4, Zenon DEF PretokenizeOne
  <2>2. ByteEncode(t) \in Seq(Char)
    BY ByteEncodeTyped
  <2>3. QED
    BY <2>1, <2>2
<1>5. CASE p.op = "Metaspace"
  <2> DEFINE u == IF p.addPrefixSpace THEN <<Space>> \o t ELSE t
  <2>1. <<Space>> \o t \in Seq(Char)
    BY SpaceIsText, ConcatProperties
  <2>2. u \in Seq(Char)
    BY <2>1
  <2>3. PretokenizeOne(t, p) = <<ToUnderline(u)>>
    BY <1>5, Zenon DEF PretokenizeOne
  <2> HIDE DEF u
  <2>4. ToUnderline(u) \in Seq(Char)
    BY <2>2, LowercaseTyped
  <2>5. QED
    BY <2>3, <2>4
<1>6. QED
  BY <1>0, <1>1, <1>2, <1>3, <1>4, <1>5

LEMMA PretokenizeOpTyped ==
  ASSUME NEW texts \in Seq(Seq(Char)), NEW p, Splits(p)
  PROVE  PretokenizeOp(texts, p) \in Seq(Seq(Char))
<1> DEFINE f == [k \in DOMAIN texts |-> PretokenizeOne(texts[k], p)]
<1>1. Len(texts) \in Nat /\ DOMAIN texts = 1 .. Len(texts)
  BY LenProperties
<1>2. \A k \in 1 .. Len(texts) : texts[k] \in Seq(Char)
  BY ElementOfSeq
<1>3. \A k \in 1 .. Len(texts) : f[k] \in Seq(Seq(Char))
  BY <1>1, <1>2, PretokenizeOneTyped
<1>4. DOMAIN f = 1 .. Len(texts) /\ f = [k \in 1 .. Len(texts) |-> f[k]]
  BY <1>1
<1>5. PretokenizeOp(texts, p) = FlattenSeq(f)
  BY DEF PretokenizeOp
<1> HIDE DEF f
<1>6. f \in Seq(Seq(Seq(Char)))
  BY <1>1, <1>3, <1>4, FunctionIsSeq
<1>7. QED
  BY <1>5, <1>6, FlattenTyped

-----------------------------------------------------------------------------
(* The folds: over normalizers, pre-tokenizers, pretokens and segments.    *)

\* One step of each fold.
Step(which, a, b) ==
  IF which = "normalizer" THEN NormalizeOp(a, b)
  ELSE IF which = "pretokenizer" THEN PretokenizeOp(a, b)
  ELSE IF which = "pretoken" THEN EncodePretoken(a, b)
  ELSE EncodeSegment(a, b)

\* What e has to be to hold the fold over every set of places of s.
Folds(which, base, s, e) ==
  e = [t \in SUBSET (1 .. Len(s)) |->
         IF t = {} THEN base ELSE Step(which, e[t \ {Max(t)}], s[Max(t)])]

\* What g has to be to hold the fold over the first places of s.
Walks(which, base, s, g) ==
  /\ g[0] = base
  /\ \A i \in 1 .. Len(s) : g[i] = Step(which, g[i - 1], s[i])

\* The places up to the m-th.
First(m) == 1 .. m

LEMMA MaxFirst ==
  ASSUME NEW m \in Nat, NEW t \in SUBSET First(m), m \in t
  PROVE  Max(t) = m
BY MaxIs DEF First

\* The recursion in FoldLeft has a solution.
LEMMA FoldSolved ==
  ASSUME NEW which, NEW base, NEW s, Len(s) \in Nat
  PROVE  \E e : Folds(which, base, s, e)
<1> DEFINE n == Len(s)
           Put(m, x) == Step(which, x, s[m])
           Solves(m, f) == \A t \in SUBSET First(m) :
                             f[t] = IF t = {} THEN base ELSE Put(Max(t), f[t \ {Max(t)}])
           Able == {m \in 0 .. n : \E f : Solves(m, f)}
<1> HIDE DEF Put
<1>1. 0 \in Able
  <2> DEFINE f == [t \in SUBSET First(0) |-> base]
  <2>1. First(0) = {} /\ 0 \in 0 .. n
    BY DEF First
  <2>2. Solves(0, f)
    BY <2>1
  <2>3. QED
    BY <2>1, <2>2
<1>2. \A m \in 1 .. n : m - 1 \in Able => m \in Able
  <2> SUFFICES ASSUME NEW m \in 1 .. n, m - 1 \in Able PROVE m \in Able
    OBVIOUS
  <2>1. PICK f : Solves(m - 1, f)
    OBVIOUS
  <2> DEFINE g == [t \in SUBSET First(m) |->
                     IF m \in t THEN Put(m, f[t \ {m}]) ELSE f[t]]
  <2>2. First(m) = First(m - 1) \cup {m} /\ m \notin First(m - 1) /\ m \in Nat
    BY DEF First
  <2>3. Solves(m, g)
    <3> SUFFICES ASSUME NEW t \in SUBSET First(m)
                 PROVE g[t] = IF t = {} THEN base ELSE Put(Max(t), g[t \ {Max(t)}])
      OBVIOUS
    <3>1. CASE m \in t
      <4>1. Max(t) = m /\ t # {}
        BY <2>2, <3>1, MaxFirst
      <4>2. t \ {m} \in SUBSET First(m) /\ m \notin t \ {m}
        OBVIOUS
      <4>3. g[t \ {m}] = f[t \ {m}] /\ g[t] = Put(m, f[t \ {m}])
        BY <3>1, <4>2
      <4>4. QED
        BY <4>1, <4>3
    <3>2. CASE m \notin t
      <4>1. t \in SUBSET First(m - 1)
        BY <2>2, <3>2
      <4>2. f[t] = IF t = {} THEN base ELSE Put(Max(t), f[t \ {Max(t)}])
        BY <2>1, <4>1
      <4>3. t \ {Max(t)} \in SUBSET First(m) /\ m \notin t \ {Max(t)}
        BY <3>2
      <4>4. g[t \ {Max(t)}] = f[t \ {Max(t)}] /\ g[t] = f[t]
        BY <3>2, <4>3
      <4>5. QED
        BY <4>2, <4>4
    <3>3. QED
      BY <3>1, <3>2
  <2> HIDE DEF Solves, g
  <2>4. m \in 0 .. n
    OBVIOUS
  <2>5. QED
    BY <2>3, <2>4
<1>3. \A m \in 0 .. n : m \in Able
  <2> HIDE DEF Able
  <2>1. QED
    BY <1>1, <1>2, Upwards
<1>4. PICK f : Solves(n, f)
  <2> HIDE DEF Solves
  <2>1. n \in 0 .. n
    OBVIOUS
  <2>2. QED
    BY <1>3, <2>1
<1> DEFINE e == [t \in SUBSET (1 .. n) |-> f[t]]
<1>5. \A t \in SUBSET (1 .. n) : e[t] = IF t = {} THEN base ELSE Put(Max(t), e[t \ {Max(t)}])
  <2> TAKE t \in SUBSET (1 .. n)
  <2>1. t \ {Max(t)} \in SUBSET (1 .. n) /\ First(n) = 1 .. n
    BY DEF First
  <2>2. QED
    BY <1>4, <2>1
<1>6. Folds(which, base, s, e)
  BY <1>5 DEF Folds, Put
<1>7. QED
  BY <1>6

\* Whatever solves it holds the fold over the first places, one after the other.
LEMMA FoldWalks ==
  ASSUME NEW which, NEW base, NEW s, Len(s) \in Nat, NEW r, Folds(which, base, s, r)
  PROVE  \E g : Walks(which, base, s, g) /\ r[1 .. Len(s)] = g[Len(s)]
<1> DEFINE n == Len(s)
           g == [i \in 0 .. n |-> r[First(i)]]
<1>1. \A t \in SUBSET First(n) :
        r[t] = IF t = {} THEN base ELSE Step(which, r[t \ {Max(t)}], s[Max(t)])
  BY DEF Folds, First
<1>2. g[0] = base
  <2>1. First(0) = {} /\ 0 \in 0 .. n /\ {} \in SUBSET First(n)
    BY DEF First
  <2>2. QED
    BY <1>1, <2>1
<1>3. \A i \in 1 .. n : g[i] = Step(which, g[i - 1], s[i])
  <2> TAKE i \in 1 .. n
  <2>1. i \in Nat /\ i - 1 \in 0 .. n /\ i \in 0 .. n
    OBVIOUS
  <2>2. /\ i \in First(i) /\ First(i) \ {i} = First(i - 1)
        /\ First(i) \in SUBSET First(n) /\ First(i) \in SUBSET First(i)
    BY <2>1 DEF First
  <2>3. Max(First(i)) = i
    BY <2>1, <2>2, MaxFirst
  <2>4. r[First(i)] = Step(which, r[First(i - 1)], s[i])
    BY <1>1, <2>2, <2>3
  <2>5. QED
    BY <2>1, <2>4
<1>4. r[1 .. n] = g[n]
  BY DEF First
<1> HIDE DEF g
<1>5. QED
  BY <1>2, <1>3, <1>4 DEF Walks

LEMMA NormalizerFold ==
  ASSUME NEW base, NEW s, Len(s) \in Nat, DOMAIN s = 1 .. Len(s)
  PROVE  \E g : /\ g[0] = base
                /\ \A i \in 1 .. Len(s) : g[i] = NormalizeOp(g[i - 1], s[i])
                /\ FoldLeft(NormalizeOp, base, s) = g[Len(s)]
<1> DEFINE D == 1 .. Len(s)
           Rec(f) == f = [t \in SUBSET D |->
                            IF t = {} THEN base ELSE NormalizeOp(f[t \ {Max(t)}], s[Max(t)])]
           r == CHOOSE x : Rec(x)
<1>1. \A a, b : Step("normalizer", a, b) = NormalizeOp(a, b)
  BY DEF Step
<1>2. \A f : Folds("normalizer", base, s, f) <=> Rec(f)
  BY <1>1 DEF Folds
<1>3. \E f : Folds("normalizer", base, s, f)
  BY FoldSolved
<1>4. \E f : Rec(f)
  BY <1>2, <1>3
<1>5. Rec(r)
  BY <1>4, Zenon
<1>6. FoldLeft(NormalizeOp, base, s) = r[D]
  BY Zenon DEF FoldLeft, MapThenFoldSet
<1> HIDE DEF r, Rec
<1>7. Folds("normalizer", base, s, r)
  BY <1>2, <1>5
<1>8. PICK g : Walks("normalizer", base, s, g) /\ r[1 .. Len(s)] = g[Len(s)]
  BY <1>7, FoldWalks
<1>9. QED
  BY <1>1, <1>6, <1>8 DEF Walks

LEMMA PretokenizerFold ==
  ASSUME NEW base, NEW s, Len(s) \in Nat, DOMAIN s = 1 .. Len(s)
  PROVE  \E g : /\ g[0] = base
                /\ \A i \in 1 .. Len(s) : g[i] = PretokenizeOp(g[i - 1], s[i])
                /\ FoldLeft(PretokenizeOp, base, s) = g[Len(s)]
<1> DEFINE D == 1 .. Len(s)
           Rec(f) == f = [t \in SUBSET D |->
                            IF t = {} THEN base ELSE PretokenizeOp(f[t \ {Max(t)}], s[Max(t)])]
           r == CHOOSE x : Rec(x)
<1>1. \A a, b : Step("pretokenizer", a, b) = PretokenizeOp(a, b)
  BY DEF Step
<1>2. \A f : Folds("pretokenizer", base, s, f) <=> Rec(f)
  BY <1>1 DEF Folds
<1>3. \E f : Folds("pretokenizer", base, s, f)
  BY FoldSolved
<1>4. \E f : Rec(f)
  BY <1>2, <1>3
<1>5. Rec(r)
  BY <1>4, Zenon
<1>6. FoldLeft(PretokenizeOp, base, s) = r[D]
  BY Zenon DEF FoldLeft, MapThenFoldSet
<1> HIDE DEF r, Rec
<1>7. Folds("pretokenizer", base, s, r)
  BY <1>2, <1>5
<1>8. PICK g : Walks("pretokenizer", base, s, g) /\ r[1 .. Len(s)] = g[Len(s)]
  BY <1>7, FoldWalks
<1>9. QED
  BY <1>1, <1>6, <1>8 DEF Walks

LEMMA PretokenFold ==
  ASSUME NEW base, NEW s, Len(s) \in Nat, DOMAIN s = 1 .. Len(s)
  PROVE  \E g : /\ g[0] = base
                /\ \A i \in 1 .. Len(s) : g[i] = EncodePretoken(g[i - 1], s[i])
                /\ FoldLeft(EncodePretoken, base, s) = g[Len(s)]
<1> DEFINE D == 1 .. Len(s)
           Rec(f) == f = [t \in SUBSET D |->
                            IF t = {} THEN base ELSE EncodePretoken(f[t \ {Max(t)}], s[Max(t)])]
           r == CHOOSE x : Rec(x)
<1>1. \A a, b : Step("pretoken", a, b) = EncodePretoken(a, b)
  BY DEF Step
<1>2. \A f : Folds("pretoken", base, s, f) <=> Rec(f)
  BY <1>1 DEF Folds
<1>3. \E f : Folds("pretoken", base, s, f)
  BY FoldSolved
<1>4. \E f : Rec(f)
  BY <1>2, <1>3
<1>5. Rec(r)
  BY <1>4, Zenon
<1>6. FoldLeft(EncodePretoken, base, s) = r[D]
  BY Zenon DEF FoldLeft, MapThenFoldSet
<1> HIDE DEF r, Rec
<1>7. Folds("pretoken", base, s, r)
  BY <1>2, <1>5
<1>8. PICK g : Walks("pretoken", base, s, g) /\ r[1 .. Len(s)] = g[Len(s)]
  BY <1>7, FoldWalks
<1>9. QED
  BY <1>1, <1>6, <1>8 DEF Walks

LEMMA SegmentFold ==
  ASSUME NEW base, NEW s, Len(s) \in Nat, DOMAIN s = 1 .. Len(s)
  PROVE  \E g : /\ g[0] = base
                /\ \A i \in 1 .. Len(s) : g[i] = EncodeSegment(g[i - 1], s[i])
                /\ FoldLeft(EncodeSegment, base, s) = g[Len(s)]
<1> DEFINE D == 1 .. Len(s)
           Rec(f) == f = [t \in SUBSET D |->
                            IF t = {} THEN base ELSE EncodeSegment(f[t \ {Max(t)}], s[Max(t)])]
           r == CHOOSE x : Rec(x)
<1>1. \A a, b : Step("segment", a, b) = EncodeSegment(a, b)
  BY DEF Step
<1>2. \A f : Folds("segment", base, s, f) <=> Rec(f)
  BY <1>1 DEF Folds
<1>3. \E f : Folds("segment", base, s, f)
  BY FoldSolved
<1>4. \E f : Rec(f)
  BY <1>2, <1>3
<1>5. Rec(r)
  BY <1>4, Zenon
<1>6. FoldLeft(EncodeSegment, base, s) = r[D]
  BY Zenon DEF FoldLeft, MapThenFoldSet
<1> HIDE DEF r, Rec
<1>7. Folds("segment", base, s, r)
  BY <1>2, <1>5
<1>8. PICK g : Walks("segment", base, s, g) /\ r[1 .. Len(s)] = g[Len(s)]
  BY <1>7, FoldWalks
<1>9. QED
  BY <1>1, <1>6, <1>8 DEF Walks

\* What is left of a text to be encoded.
LEMMA NormalizeTyped ==
  ASSUME NEW t \in Seq(Char), NEW ns, Len(ns) \in Nat, DOMAIN ns = 1 .. Len(ns),
         \A i \in 1 .. Len(ns) : Normalizes(ns[i])
  PROVE  Normalize(t, ns) \in Seq(Char)
<1> DEFINE n == Len(ns)
<1>1. PICK g : /\ g[0] = t
               /\ \A i \in 1 .. n : g[i] = NormalizeOp(g[i - 1], ns[i])
               /\ FoldLeft(NormalizeOp, t, ns) = g[n]
  BY NormalizerFold, ZenonT(40)
<1> DEFINE T == {i \in 0 .. n : g[i] \in Seq(Char)}
<1>2. 0 \in T
  BY <1>1
<1>3. \A i \in 1 .. n : i - 1 \in T => i \in T
  BY <1>1, NormalizeOpTyped
<1>4. \A i \in 0 .. n : i \in T
  <2> HIDE DEF T
  <2>1. QED
    BY <1>2, <1>3, Upwards
<1>5. n \in T
  BY <1>4
<1>6. QED
  BY <1>1, <1>5 DEF Normalize

LEMMA PretokenizeTyped ==
  ASSUME NEW t \in Seq(Char), NEW ps, Len(ps) \in Nat, DOMAIN ps = 1 .. Len(ps),
         \A i \in 1 .. Len(ps) : Splits(ps[i])
  PROVE  Pretokenize(t, ps) \in Seq(Seq(Char))
<1> DEFINE n == Len(ps)
           texts == FoldLeft(PretokenizeOp, <<t>>, ps)
<1>1. PICK g : /\ g[0] = <<t>>
               /\ \A i \in 1 .. n : g[i] = PretokenizeOp(g[i - 1], ps[i])
               /\ texts = g[n]
  BY PretokenizerFold, ZenonT(40)
<1> DEFINE T == {i \in 0 .. n : g[i] \in Seq(Seq(Char))}
<1>2. 0 \in T
  <2>1. <<t>> \in Seq(Seq(Char)) /\ 0 \in 0 .. n
    OBVIOUS
  <2>2. g[0] \in Seq(Seq(Char))
    BY <1>1, <2>1, Zenon
  <2>3. QED
    BY <2>1, <2>2
<1>3. \A i \in 1 .. n : i - 1 \in T => i \in T
  BY <1>1, PretokenizeOpTyped
<1>4. \A i \in 0 .. n : i \in T
  <2> HIDE DEF T
  <2>1. QED
    BY <1>2, <1>3, Upwards
<1>5. n \in T
  BY <1>4
<1> DEFINE places == {k \in DOMAIN texts : texts[k] # <<>>}
<1>6. Pretokenize(t, ps) = Picked(texts, places)
  BY DEF Pretokenize
<1> HIDE DEF texts, places
<1>7. texts \in Seq(Seq(Char))
  BY <1>1, <1>5
<1>8. QED
  BY <1>6, <1>7, PickedTyped

LEMMA PretokensTyped ==
  ASSUME tok \in Toks, NEW t \in Seq(Char)
  PROVE  Pretokens(t) \in Seq(Seq(Char))
<1> DEFINE ns == tok.normalizers
           ps == tok.pretokenizers
<1>1. /\ ns \in Seq({n \in ToSet(ns) : Normalizes(n)})
      /\ ps \in Seq({p \in ToSet(ps) : Splits(p)})
  BY TokAssumption
<1> DEFINE N == {n \in ToSet(ns) : Normalizes(n)}
           P == {p \in ToSet(ps) : Splits(p)}
<1>2. \A n \in N : Normalizes(n)
  OBVIOUS
<1>3. \A p \in P : Splits(p)
  OBVIOUS
<1>4. Pretokens(t) = Pretokenize(Normalize(t, ns), ps)
  BY DEF Pretokens
<1> HIDE DEF N, P, ns, ps
<1>5. ns \in Seq(N) /\ ps \in Seq(P)
  BY <1>1 DEF N, P
<1>6. Len(ns) \in Nat /\ DOMAIN ns = 1 .. Len(ns) /\ \A i \in 1 .. Len(ns) : Normalizes(ns[i])
  BY <1>2, <1>5, LenProperties, ElementOfSeq
<1>7. Len(ps) \in Nat /\ DOMAIN ps = 1 .. Len(ps) /\ \A i \in 1 .. Len(ps) : Splits(ps[i])
  BY <1>3, <1>5, LenProperties, ElementOfSeq
<1>8. Normalize(t, ns) \in Seq(Char)
  BY <1>6, NormalizeTyped
<1>9. QED
  BY <1>4, <1>7, <1>8, PretokenizeTyped

-----------------------------------------------------------------------------
(* The segments of a text.                                                 *)

\* The length of an added token.
Size(k) == Len(tok.added[k][1])

LEMMA AddedTyped ==
  ASSUME tok \in Toks
  PROVE  /\ Len(tok.added) \in Nat /\ DOMAIN tok.added = 1 .. Len(tok.added)
         /\ \A k \in DOMAIN tok.added :
              /\ tok.added[k][1] \in Seq(Char) /\ tok.added[k][2] \in Nat
              /\ Size(k) \in Nat \ {0}
<1> DEFINE added == tok.added
           S == (Seq(Char) \ {<<>>}) \X Nat
<1>1. added \in Seq(S)
  BY TokAssumption
<1> HIDE DEF added, S
<1>2. Len(added) \in Nat /\ DOMAIN added = 1 .. Len(added)
      /\ \A k \in DOMAIN added : added[k] \in S
  BY <1>1, LenProperties, ElementOfSeq
<1>3. \A e \in S : e[1] \in Seq(Char) /\ e[1] # <<>> /\ e[2] \in Nat
  BY DEF S
<1>4. \A x \in Seq(Char) : x # <<>> => Len(x) \in Nat \ {0}
  BY LenProperties, EmptySeq
<1>5. \A k \in DOMAIN added : added[k][1] \in Seq(Char) /\ added[k][2] \in Nat
                              /\ Len(added[k][1]) \in Nat \ {0}
  BY <1>2, <1>3, <1>4
<1>6. QED
  BY <1>2, <1>5 DEF added, Size

\* An added token at a place is the text from there on, as far as it goes.
LEMMA AddedAtIs ==
  ASSUME tok \in Toks, NEW t \in Seq(Char), NEW i \in 1 .. Len(t)
  PROVE  \A k : k \in AddedAt(t, i) <=>
           /\ k \in DOMAIN tok.added
           /\ i + Size(k) - 1 <= Len(t)
           /\ tok.added[k][1] = SubSeq(t, i, i + Size(k) - 1)
<1>0. Len(t) \in Nat /\ \A j \in 1 .. Len(t) : t[j] \in Char
  BY LenProperties, ElementOfSeq
<1> DEFINE n == Len(t)
           u == SubSeq(t, i, n)
<1>1. u \in Seq(Char) /\ Len(u) = n - i + 1
  <2>1. i \in 1 .. n + 1 /\ n \in i - 1 .. n
    BY <1>0
  <2>2. QED
    BY <2>1, PartTyped
<1>2. ASSUME NEW k \in DOMAIN tok.added
      PROVE  IsPrefix(tok.added[k][1], u) <=>
               /\ i + Size(k) - 1 <= n
               /\ tok.added[k][1] = SubSeq(t, i, i + Size(k) - 1)
  <2> DEFINE a == tok.added[k][1]
             m == Size(k)
  <2>1. a \in Seq(Char) /\ Len(a) = m /\ m \in Nat \ {0}
    BY AddedTyped DEF Size
  <2>2. IsPrefix(a, u) <=> m <= Len(u) /\ SubSeq(a, 1, m) = SubSeq(u, 1, m)
    BY <2>1 DEF IsPrefix
  <2> HIDE DEF a, m
  <2>3. m <= Len(u) <=> i + m - 1 <= n
    BY <1>0, <1>1, <2>1
  <2>4. SubSeq(a, 1, m) = a
    BY <2>1
  <2>5. ASSUME i + m - 1 <= n PROVE SubSeq(u, 1, m) = SubSeq(t, i, i + m - 1)
    <3>1. m \in Nat /\ i \in Nat /\ n \in Nat /\ i >= 1
      BY <1>0, <2>1
    <3> DEFINE v == SubSeq(u, 1, m)
               w == SubSeq(t, i, i + m - 1)
    <3>2. v \in Seq(Char) /\ Len(v) = m
      <4>1. 1 \in 1 .. Len(u) + 1 /\ m \in 1 - 1 .. Len(u)
        BY <1>1, <2>5, <3>1
      <4> HIDE DEF u
      <4>2. QED
        BY <1>1, <3>1, <4>1, PartTyped
    <3>3. w \in Seq(Char) /\ Len(w) = m
      <4>1. i \in 1 .. n + 1 /\ i + m - 1 \in i - 1 .. n
        BY <2>5, <3>1
      <4>2. QED
        BY <3>1, <4>1, PartTyped
    <3>4. \A j \in 1 .. m : v[j] = u[j]
      BY <2>5, <3>1
    <3>5. \A j \in 1 .. m : u[j] = t[i + j - 1]
      BY <2>5, <3>1
    <3>6. \A j \in 1 .. m : w[j] = t[i + j - 1]
      BY <2>5, <3>1
    <3> HIDE DEF u, v, w
    <3>7. v = w
      BY <3>2, <3>3, <3>4, <3>5, <3>6, SeqEqual
    <3>8. QED
      BY <3>7 DEF v, w
  <2>6. IsPrefix(a, u) <=> i + m - 1 <= n /\ a = SubSeq(t, i, i + m - 1)
    <3> HIDE DEF u
    <3>1. QED
      BY <2>2, <2>3, <2>4, <2>5
  <2>7. QED
    BY <2>6 DEF a, m
<1> HIDE DEF u
<1>3. \A k : k \in AddedAt(t, i) <=> k \in DOMAIN tok.added /\ IsPrefix(tok.added[k][1], u)
  BY DEF AddedAt, u
<1>4. QED
  BY <1>2, <1>3

\* LongestAdded is 0 if there is no added token, else the longest there is.
LEMMA LongestIs ==
  ASSUME tok \in Toks, NEW t \in Seq(Char), NEW i \in 1 .. Len(t)
  PROVE  \/ AddedAt(t, i) = {} /\ LongestAdded(t, i) = 0
         \/ /\ LongestAdded(t, i) # 0 /\ LongestAdded(t, i) \in AddedAt(t, i)
            /\ \A m \in AddedAt(t, i) : Size(m) <= Size(LongestAdded(t, i))
<1> DEFINE at == AddedAt(t, i)
           n == Len(t)
           Longest(k) == \A m \in at : Size(k) > Size(m) \/ (Size(k) = Size(m) /\ k <= m)
<1>0. n \in Nat
  BY LenProperties
<1>1. \A k \in at : k \in Nat \ {0} /\ Size(k) \in Nat /\ Size(k) <= n
  BY <1>0, AddedAtIs, AddedTyped
<1>2. LongestAdded(t, i) = IF at = {} THEN 0 ELSE CHOOSE k \in at : Longest(k)
  BY Zenon DEF LongestAdded, Size
<1> HIDE DEF at
<1>3. CASE at = {}
  BY <1>2, <1>3 DEF at
<1>4. CASE at # {}
  <2> DEFINE gaps == {d \in 0 .. n : \E k \in at : d = n - Size(k)}
  <2>1. gaps \in SUBSET Nat /\ gaps # {}
    <3>1. PICK k \in at : TRUE
      BY <1>4
    <3>2. n - Size(k) \in 0 .. n
      BY <1>0, <1>1
    <3>3. QED
      BY <3>2
  <2>2. PICK d \in gaps : \A e \in gaps : d <= e
    <3> HIDE DEF gaps
    <3>1. QED
      BY <2>1, Smallest
  <2>3. \A m \in at : Size(m) <= n - d
    <3> TAKE m \in at
    <3>1. n - Size(m) \in gaps
      BY <1>0, <1>1
    <3>2. d <= n - Size(m) /\ d \in Nat
      BY <2>1, <2>2, <3>1
    <3>3. QED
      BY <1>0, <1>1, <3>2
  <2> DEFINE long == {k \in at : Size(k) = n - d}
  <2>4. long \in SUBSET Nat /\ long # {}
    <3>1. PICK k \in at : d = n - Size(k)
      OBVIOUS
    <3>2. Size(k) = n - d
      BY <1>0, <1>1, <3>1
    <3>3. QED
      BY <1>1, <3>2
  <2>5. PICK k \in long : \A m \in long : k <= m
    <3> HIDE DEF long
    <3>1. QED
      BY <2>4, Smallest
  <2>6. k \in at /\ Longest(k)
    <3>1. k \in at /\ Size(k) = n - d
      OBVIOUS
    <3>2. ASSUME NEW m \in at PROVE Size(k) > Size(m) \/ (Size(k) = Size(m) /\ k <= m)
      <4>1. Size(m) <= n - d /\ Size(m) \in Nat /\ n - d \in Int
        BY <1>1, <2>1, <2>2, <2>3, <3>1
      <4>2. Size(m) = n - d => k <= m
        BY <2>5
      <4>3. QED
        BY <3>1, <4>1, <4>2
    <3>3. QED
      BY <3>1, <3>2
  <2> DEFINE c == CHOOSE x \in at : Longest(x)
  <2>7. c \in at /\ Longest(c)
    BY <2>6, Zenon
  <2>8. LongestAdded(t, i) = c
    BY <1>2, <1>4
  <2> HIDE DEF c
  <2>9. c # 0
    BY <1>1, <2>7
  <2>10. \A m \in at : Size(m) <= Size(c)
    <3> TAKE m \in at
    <3>1. Size(c) > Size(m) \/ Size(c) = Size(m)
      BY <2>7
    <3>2. Size(c) \in Nat /\ Size(m) \in Nat
      BY <1>1, <2>7
    <3>3. QED
      BY <3>1, <3>2
  <2>11. QED
    BY <2>7, <2>8, <2>9, <2>10 DEF at
<1>5. QED
  BY <1>3, <1>4

\* A part of a part of a text is a part of the text, and parts next to each
\* other are one part.
LEMMA PartElements ==
  ASSUME NEW S, NEW t \in Seq(S), NEW i \in 1 .. Len(t) + 1, NEW j \in i - 1 .. Len(t)
  PROVE  \A m \in 1 .. j - i + 1 : SubSeq(t, i, j)[m] = t[i + m - 1]
<1>1. Len(t) \in Nat /\ i \in Int /\ j \in Int
  BY LenProperties
<1>2. \A k \in i .. j : t[k] \in S
  BY <1>1, ElementOfSeq
<1>3. QED
  BY <1>1, <1>2, SubSeqProperties

LEMMA PartOfPart ==
  ASSUME NEW S, NEW t \in Seq(S), NEW i \in 1 .. Len(t) + 1, NEW j \in i - 1 .. Len(t),
         NEW x \in 1 .. j - i + 2, NEW y \in x - 1 .. j - i + 1
  PROVE  SubSeq(SubSeq(t, i, j), x, y) = SubSeq(t, i + x - 1, i + y - 1)
<1> DEFINE u == SubSeq(t, i, j)
           v == SubSeq(u, x, y)
           w == SubSeq(t, i + x - 1, i + y - 1)
<1>1. u \in Seq(S) /\ Len(u) = j - i + 1 /\ \A m \in 1 .. j - i + 1 : u[m] = t[i + m - 1]
  BY PartTyped, PartElements
<1>2. Len(t) \in Nat /\ i \in Nat /\ j \in Int /\ x \in Nat /\ y \in Int
  BY LenProperties
<1>3. v \in Seq(S) /\ Len(v) = y - x + 1 /\ \A m \in 1 .. y - x + 1 : v[m] = u[x + m - 1]
  <2>1. x \in 1 .. Len(u) + 1 /\ y \in x - 1 .. Len(u)
    BY <1>1, <1>2
  <2> HIDE DEF u
  <2>2. QED
    BY <1>1, <2>1, PartTyped, PartElements
<1>4. w \in Seq(S) /\ Len(w) = y - x + 1 /\ \A m \in 1 .. y - x + 1 : w[m] = t[i + x - 1 + m - 1]
  <2> DEFINE a == i + x - 1
             b == i + y - 1
  <2>1. a \in 1 .. Len(t) + 1 /\ b \in a - 1 .. Len(t) /\ b - a + 1 = y - x + 1
    BY <1>2
  <2> HIDE DEF a, b
  <2>2. /\ SubSeq(t, a, b) \in Seq(S) /\ Len(SubSeq(t, a, b)) = b - a + 1
        /\ \A m \in 1 .. b - a + 1 : SubSeq(t, a, b)[m] = t[a + m - 1]
    BY <2>1, PartTyped, PartElements
  <2>3. QED
    BY <2>1, <2>2 DEF a, b
<1> HIDE DEF u, v, w
<1>5. \A m \in 1 .. y - x + 1 : v[m] = w[m]
  <2> TAKE m \in 1 .. y - x + 1
  <2>1. x + m - 1 \in 1 .. j - i + 1 /\ i + (x + m - 1) - 1 = i + x - 1 + m - 1
    BY <1>2
  <2>2. v[m] = t[i + (x + m - 1) - 1]
    BY <1>1, <1>3, <2>1
  <2>3. QED
    BY <1>4, <2>1, <2>2
<1>6. v = w
  BY <1>3, <1>4, <1>5, SeqEqual
<1>7. QED
  BY <1>6 DEF u, v, w

LEMMA PartsJoin ==
  ASSUME NEW S, NEW t \in Seq(S), NEW a \in 1 .. Len(t) + 1, NEW b \in a .. Len(t) + 1
  PROVE  SubSeq(t, 1, a - 1) \o SubSeq(t, a, b - 1) = SubSeq(t, 1, b - 1)
<1> DEFINE u == SubSeq(t, 1, a - 1)
           v == SubSeq(t, a, b - 1)
           w == SubSeq(t, 1, b - 1)
           z == u \o v
<1>1. Len(t) \in Nat /\ a \in Nat /\ b \in Nat
  BY LenProperties
<1>2. u \in Seq(S) /\ Len(u) = a - 1 /\ \A m \in 1 .. a - 1 : u[m] = t[m]
  <2>1. 1 \in 1 .. Len(t) + 1 /\ a - 1 \in 1 - 1 .. Len(t) /\ (a - 1) - 1 + 1 = a - 1
    BY <1>1
  <2>2. \A m \in 1 .. (a - 1) - 1 + 1 : u[m] = t[1 + m - 1]
    BY <2>1, PartElements
  <2>3. u \in Seq(S) /\ Len(u) = (a - 1) - 1 + 1
    BY <2>1, PartTyped
  <2> HIDE DEF u
  <2>4. QED
    BY <1>1, <2>2, <2>3
<1>3. v \in Seq(S) /\ Len(v) = b - a /\ \A m \in 1 .. b - a : v[m] = t[a + m - 1]
  <2>1. a \in 1 .. Len(t) + 1 /\ b - 1 \in a - 1 .. Len(t) /\ (b - 1) - a + 1 = b - a
    BY <1>1
  <2>2. \A m \in 1 .. (b - 1) - a + 1 : v[m] = t[a + m - 1]
    BY <2>1, PartElements
  <2>3. v \in Seq(S) /\ Len(v) = (b - 1) - a + 1
    BY <2>1, PartTyped
  <2> HIDE DEF v
  <2>4. QED
    BY <2>1, <2>2, <2>3
<1>4. w \in Seq(S) /\ Len(w) = b - 1 /\ \A m \in 1 .. b - 1 : w[m] = t[m]
  <2>1. 1 \in 1 .. Len(t) + 1 /\ b - 1 \in 1 - 1 .. Len(t) /\ (b - 1) - 1 + 1 = b - 1
    BY <1>1
  <2>2. \A m \in 1 .. (b - 1) - 1 + 1 : w[m] = t[1 + m - 1]
    BY <2>1, PartElements
  <2>3. w \in Seq(S) /\ Len(w) = (b - 1) - 1 + 1
    BY <2>1, PartTyped
  <2> HIDE DEF w
  <2>4. QED
    BY <1>1, <2>2, <2>3
<1> HIDE DEF u, v, w
<1>5. /\ z \in Seq(S) /\ Len(z) = Len(u) + Len(v)
      /\ \A m \in 1 .. Len(u) + Len(v) : z[m] = IF m <= Len(u) THEN u[m] ELSE v[m - Len(u)]
  BY <1>2, <1>3, ConcatProperties
<1>6. Len(u) + Len(v) = b - 1 /\ Len(u) = a - 1
  BY <1>1, <1>2, <1>3
<1> HIDE DEF z
<1>7. \A m \in 1 .. b - 1 : z[m] = w[m]
  <2> TAKE m \in 1 .. b - 1
  <2>1. CASE m <= a - 1
    <3>1. m \in 1 .. a - 1
      BY <1>1, <2>1
    <3>2. z[m] = u[m]
      BY <1>5, <1>6, <2>1
    <3>3. QED
      BY <1>2, <1>4, <3>1, <3>2
  <2>2. CASE ~(m <= a - 1)
    <3>1. m - (a - 1) \in 1 .. b - a /\ a + (m - (a - 1)) - 1 = m
      BY <1>1, <2>2
    <3>2. z[m] = v[m - (a - 1)]
      BY <1>5, <1>6, <2>2
    <3>3. QED
      BY <1>3, <1>4, <3>1, <3>2
  <2>3. QED
    BY <2>1, <2>2
<1>8. z = w
  BY <1>4, <1>5, <1>6, <1>7, SeqEqual
<1>9. QED
  BY <1>8 DEF u, v, w, z

\* What occurs in a part of a text occurs in the text.
LEMMA AddedWithin ==
  ASSUME tok \in Toks, NEW t \in Seq(Char), NEW i \in 1 .. Len(t), NEW j \in i - 1 .. Len(t),
         NEW x \in 1 .. j - i + 1, NEW k \in AddedAt(SubSeq(t, i, j), x)
  PROVE  k \in AddedAt(t, i + x - 1)
<1> DEFINE u == SubSeq(t, i, j)
<1>1. Len(t) \in Nat /\ i \in Nat /\ j \in Int /\ x \in Nat
  BY LenProperties
<1>2. u \in Seq(Char) /\ Len(u) = j - i + 1
  <2>1. i \in 1 .. Len(t) + 1
    BY <1>1
  <2>2. QED
    BY <2>1, PartTyped
<1>3. k \in AddedAt(u, x)
  OBVIOUS
<1> HIDE DEF u
<1>4. x \in 1 .. Len(u)
  BY <1>1, <1>2
<1>5. /\ k \in DOMAIN tok.added /\ x + Size(k) - 1 <= Len(u)
      /\ tok.added[k][1] = SubSeq(u, x, x + Size(k) - 1)
  BY <1>2, <1>3, <1>4, AddedAtIs
<1>6. Size(k) \in Nat \ {0}
  BY <1>5, AddedTyped
<1> DEFINE y == x + Size(k) - 1
           p == i + x - 1
<1>7. y \in x - 1 .. j - i + 1 /\ p \in 1 .. Len(t) /\ p + Size(k) - 1 = i + y - 1
      /\ p + Size(k) - 1 <= Len(t) /\ i \in 1 .. Len(t) + 1 /\ x \in 1 .. j - i + 2
  BY <1>1, <1>2, <1>5, <1>6, SMTT(30)
<1> HIDE DEF y
<1>8. SubSeq(SubSeq(t, i, j), x, y) = SubSeq(t, i + x - 1, i + y - 1)
  BY <1>7, PartOfPart
<1>9. tok.added[k][1] = SubSeq(t, p, p + Size(k) - 1)
  BY <1>5, <1>7, <1>8 DEF u, y
<1> HIDE DEF p
<1>10. k \in AddedAt(t, p)
  BY <1>5, <1>7, <1>9, AddedAtIs
<1>11. QED
  BY <1>10 DEF p

\* The parts of Segments by name.
Longests(t) == [i \in DOMAIN t |-> LongestAdded(t, i)]
Places(t) == {i \in DOMAIN t : Longests(t)[i] # 0}
HitOf(t) == [i \in DOMAIN t |-> FirstFrom(i, Places(t), Len(t) + 1)]
ToOf(t) ==
  [i \in DOMAIN t |->
     IF HitOf(t)[i] = Len(t) + 1 THEN Len(t) + 1
     ELSE HitOf(t)[i] + Len(tok.added[Longests(t)[HitOf(t)[i]]][1])]
CutOf(t) ==
  [i \in DOMAIN t |->
     Regular(SubSeq(t, i, HitOf(t)[i] - 1))
       \o IF HitOf(t)[i] = Len(t) + 1 THEN <<>> ELSE Added(Longests(t)[HitOf(t)[i]])]

LEMMA SegmentsIs ==
  ASSUME NEW t
  PROVE  Segments(t) = IF Places(t) = {} THEN <<[added |-> FALSE, text |-> t]>>
                       ELSE CutUp(Len(t), CutOf(t), ToOf(t))
BY Zenon DEF Segments, CutOf, ToOf, HitOf, Places, Longests

\* Where there is no place, there is no added token; the next place is the
\* first one that has any, and what is cut off ends behind it.
LEMMA PlacesIs ==
  ASSUME tok \in Toks, NEW t \in Seq(Char)
  PROVE  \A i \in 1 .. Len(t) : i \notin Places(t) => AddedAt(t, i) = {}
<1> TAKE i \in 1 .. Len(t)
<1>1. DOMAIN t = 1 .. Len(t)
  BY LenProperties
<1>2. Longests(t)[i] = LongestAdded(t, i)
  BY <1>1 DEF Longests
<1>3. i \in Places(t) <=> LongestAdded(t, i) # 0
  BY <1>1, <1>2 DEF Places
<1>4. QED
  BY <1>3, LongestIs

LEMMA HitIs ==
  ASSUME tok \in Toks, NEW t \in Seq(Char), NEW i \in 1 .. Len(t)
  PROVE  /\ HitOf(t)[i] \in i .. Len(t) + 1
         /\ \A k \in i .. HitOf(t)[i] - 1 : AddedAt(t, k) = {}
         /\ HitOf(t)[i] # Len(t) + 1 =>
              /\ HitOf(t)[i] \in 1 .. Len(t)
              /\ Longests(t)[HitOf(t)[i]] \in AddedAt(t, HitOf(t)[i])
              /\ \A m \in AddedAt(t, HitOf(t)[i]) : Size(m) <= Size(Longests(t)[HitOf(t)[i]])
<1> DEFINE h == HitOf(t)[i]
           T == Places(t)
           end == Len(t) + 1
<1>1. Len(t) \in Nat /\ DOMAIN t = 1 .. Len(t)
  BY LenProperties
<1>2. T \in SUBSET Nat /\ T \in SUBSET (1 .. Len(t)) /\ i \in Nat /\ end \in Nat /\ i <= end
  BY <1>1 DEF Places
<1>3. h = FirstFrom(i, T, end)
  BY <1>1 DEF HitOf
<1> HIDE DEF T, end, h
<1>4. /\ h \in i .. end /\ (h = end \/ h \in T)
      /\ \A k \in T : i <= k => h <= k
  BY <1>2, <1>3, FirstFromIs
<1>5. \A k \in i .. h - 1 : AddedAt(t, k) = {}
  <2> TAKE k \in i .. h - 1
  <2>1. k \in 1 .. Len(t) /\ ~(h <= k) /\ i <= k
    BY <1>1, <1>2, <1>4 DEF end
  <2>2. k \notin T
    BY <1>4, <2>1
  <2>3. QED
    BY <2>1, <2>2, PlacesIs DEF T
<1>6. ASSUME h # end
      PROVE  /\ h \in 1 .. Len(t) /\ Longests(t)[h] \in AddedAt(t, h)
             /\ \A m \in AddedAt(t, h) : Size(m) <= Size(Longests(t)[h])
  <2>1. h \in T /\ h \in 1 .. Len(t)
    BY <1>2, <1>4, <1>6
  <2>2. Longests(t)[h] = LongestAdded(t, h) /\ Longests(t)[h] # 0
    BY <1>1, <2>1 DEF Longests, Places, T
  <2>3. QED
    BY <2>1, <2>2, LongestIs
<1>7. QED
  BY <1>4, <1>5, <1>6 DEF h, end

LEMMA ToIs ==
  ASSUME tok \in Toks, NEW t \in Seq(Char), NEW i \in 1 .. Len(t)
  PROVE  /\ ToOf(t)[i] \in i + 1 .. Len(t) + 1
         /\ HitOf(t)[i] = Len(t) + 1 => ToOf(t)[i] = Len(t) + 1
         /\ HitOf(t)[i] # Len(t) + 1 =>
              LET k == Longests(t)[HitOf(t)[i]]
              IN  /\ k \in DOMAIN tok.added
                  /\ ToOf(t)[i] = HitOf(t)[i] + Size(k)
                  /\ tok.added[k][1] = SubSeq(t, HitOf(t)[i], ToOf(t)[i] - 1)
<1> DEFINE h == HitOf(t)[i]
           k == Longests(t)[h]
           to == ToOf(t)[i]
           n == Len(t)
<1>1. n \in Nat /\ DOMAIN t = 1 .. n
  BY LenProperties
<1>2. to = IF h = n + 1 THEN n + 1 ELSE h + Size(k)
  BY <1>1 DEF ToOf, Size
<1>3. /\ h \in i .. n + 1
      /\ h # n + 1 => h \in 1 .. n /\ k \in AddedAt(t, h)
  BY HitIs
<1> HIDE DEF h, k, to
<1>4. CASE h = n + 1
  BY <1>1, <1>2, <1>4 DEF h, to, k
<1>5. CASE h # n + 1
  <2>1. h \in 1 .. n /\ k \in AddedAt(t, h) /\ to = h + Size(k)
    BY <1>2, <1>3, <1>5
  <2>2. /\ k \in DOMAIN tok.added /\ h + Size(k) - 1 <= n
        /\ tok.added[k][1] = SubSeq(t, h, h + Size(k) - 1)
    BY <2>1, AddedAtIs
  <2>3. Size(k) \in Nat \ {0}
    BY <2>2, AddedTyped
  <2>4. to \in i + 1 .. n + 1 /\ to = h + Size(k) /\ to - 1 = h + Size(k) - 1
    BY <1>1, <1>3, <2>1, <2>2, <2>3
  <2>5. tok.added[k][1] = SubSeq(t, h, to - 1)
    BY <2>2, <2>4
  <2>6. QED
    BY <1>5, <2>2, <2>4, <2>5 DEF h, to, k
<1>6. QED
  BY <1>4, <1>5

SegmentOf == [added : {FALSE}, text : Seq(Char)]
               \cup [added : {TRUE}, text : Seq(Char), id : Nat]

\* What SegmentsTile asks of a segment that begins at a place.
Right(t, seg, place) ==
  /\ ~seg.added => \A i \in DOMAIN seg.text : AddedAt(seg.text, i) = {}
  /\ seg.added => \A m \in AddedAt(t, place) : Size(m) <= Len(seg.text)

\* The segments cover the text from i on: pos[k] is where the k-th begins.
TilesBy(t, i, ss, pos) ==
  /\ pos[1] = i /\ pos[Len(ss) + 1] = Len(t) + 1
  /\ \A k \in 1 .. Len(ss) :
       /\ pos[k] \in 1 .. Len(t) + 1 /\ pos[k + 1] \in pos[k] .. Len(t) + 1
       /\ ss[k].text = SubSeq(t, pos[k], pos[k + 1] - 1)
       /\ Right(t, ss[k], pos[k])

Tiles(t, i, ss) == ss \in Seq(SegmentOf) /\ \E pos : TilesBy(t, i, ss, pos)

LEMMA TilesNone ==
  ASSUME NEW t \in Seq(Char)
  PROVE  Tiles(t, Len(t) + 1, <<>>)
<1> DEFINE pos == [k \in {1} |-> Len(t) + 1]
<1>1. pos[1] = Len(t) + 1 /\ Len(<<>>) = 0 /\ <<>> \in Seq(SegmentOf)
  OBVIOUS
<1>2. TilesBy(t, Len(t) + 1, <<>>, pos)
  BY <1>1 DEF TilesBy
<1>3. QED
  BY <1>1, <1>2 DEF Tiles

\* One more segment in front.
LEMMA TilesMore ==
  ASSUME NEW t \in Seq(Char), NEW i \in 1 .. Len(t) + 1, NEW j \in i .. Len(t) + 1,
         NEW seg \in SegmentOf, seg.text = SubSeq(t, i, j - 1), Right(t, seg, i),
         NEW ss, Tiles(t, j, ss)
  PROVE  Tiles(t, i, <<seg>> \o ss)
<1> DEFINE n == Len(ss)
           new == <<seg>> \o ss
<1>1. ss \in Seq(SegmentOf)
  BY DEF Tiles
<1>2. PICK old : TilesBy(t, j, ss, old)
  BY DEF Tiles
<1>3. n \in Nat /\ Len(t) \in Nat /\ i \in Nat /\ j \in Nat
  BY <1>1, LenProperties
<1>4. /\ new \in Seq(SegmentOf) /\ Len(new) = n + 1
      /\ new[1] = seg /\ \A k \in 2 .. n + 1 : new[k] = ss[k - 1]
  BY <1>1, <1>3
<1> DEFINE pos == [k \in 1 .. n + 2 |-> IF k = 1 THEN i ELSE old[k - 1]]
<1>5. /\ old[1] = j /\ old[n + 1] = Len(t) + 1
      /\ \A k \in 1 .. n :
           /\ old[k] \in 1 .. Len(t) + 1 /\ old[k + 1] \in old[k] .. Len(t) + 1
           /\ ss[k].text = SubSeq(t, old[k], old[k + 1] - 1)
           /\ Right(t, ss[k], old[k])
  BY <1>2 DEF TilesBy
<1>6. pos[1] = i /\ pos[2] = j /\ \A k \in 2 .. n + 2 : pos[k] = old[k - 1]
  BY <1>3, <1>5
<1>7. pos[Len(new) + 1] = Len(t) + 1
  BY <1>3, <1>4, <1>5, <1>6
<1> HIDE DEF new, pos
<1>8. ASSUME NEW k \in 1 .. n + 1
      PROVE  /\ pos[k] \in 1 .. Len(t) + 1 /\ pos[k + 1] \in pos[k] .. Len(t) + 1
             /\ new[k].text = SubSeq(t, pos[k], pos[k + 1] - 1)
             /\ Right(t, new[k], pos[k])
  <2>1. CASE k = 1
    <3>1. pos[k] = i /\ pos[k + 1] = j /\ new[k] = seg
      <4>1. k + 1 = 2
        BY <2>1
      <4>2. QED
        BY <1>4, <1>6, <2>1, <4>1
    <3>2. QED
      BY <3>1
  <2>2. CASE k # 1
    <3> DEFINE m == k - 1
    <3>1. m \in 1 .. n /\ k \in 2 .. n + 1 /\ k + 1 \in 2 .. n + 2 /\ (k + 1) - 1 = m + 1
      BY <1>3, <2>2
    <3>2. pos[k] = old[m] /\ pos[k + 1] = old[m + 1] /\ new[k] = ss[m]
      <4>1. k \in 2 .. n + 2
        BY <1>3, <3>1
      <4>2. pos[k] = old[m] /\ new[k] = ss[m]
        BY <1>4, <1>6, <3>1, <4>1
      <4>3. pos[k + 1] = old[(k + 1) - 1]
        BY <1>6, <3>1
      <4>4. QED
        BY <3>1, <4>2, <4>3
    <3> HIDE DEF m
    <3>3. QED
      BY <1>5, <3>1, <3>2
  <2>3. QED
    BY <2>1, <2>2
<1>9. TilesBy(t, i, new, pos)
  BY <1>4, <1>6, <1>7, <1>8 DEF TilesBy
<1>10. QED
  BY <1>4, <1>9 DEF Tiles, new

\* The text up to the next added token is one segment, if there is any.
LEMMA RegularTiles ==
  ASSUME tok \in Toks, NEW t \in Seq(Char), NEW i \in 1 .. Len(t) + 1, NEW j \in i .. Len(t) + 1,
         \A k \in i .. j - 1 : AddedAt(t, k) = {}, NEW ss, Tiles(t, j, ss)
  PROVE  Tiles(t, i, Regular(SubSeq(t, i, j - 1)) \o ss)
<1> DEFINE u == SubSeq(t, i, j - 1)
           seg == [added |-> FALSE, text |-> u]
<1>1. Len(t) \in Nat /\ i \in Nat /\ j \in Nat
  BY LenProperties
<1>2. u \in Seq(Char) /\ Len(u) = j - i
  <2>1. j - 1 \in i - 1 .. Len(t) /\ (j - 1) - i + 1 = j - i
    BY <1>1
  <2>2. u \in Seq(Char) /\ Len(u) = (j - 1) - i + 1
    BY <2>1, PartTyped
  <2> HIDE DEF u
  <2>3. QED
    BY <2>1, <2>2
<1>3. ss \in Seq(SegmentOf)
  BY DEF Tiles
<1>4. CASE u = <<>>
  <2>1. i = j
    BY <1>1, <1>2, <1>4, EmptySeq
  <2>2. Regular(u) = <<>>
    BY <1>4 DEF Regular
  <2> HIDE DEF u
  <2>3. Regular(u) \o ss = ss
    BY <1>3, <2>2, ConcatEmptySeq
  <2>4. QED
    BY <2>1, <2>3 DEF u
<1>5. CASE u # <<>>
  <2>1. Regular(u) = <<seg>>
    BY <1>5 DEF Regular
  <2>2. seg \in SegmentOf /\ seg.text = u /\ seg.added = FALSE
    <3> HIDE DEF u
    <3>1. QED
      BY <1>2 DEF SegmentOf
  <2>3. \A x \in DOMAIN u : AddedAt(u, x) = {}
    <3> SUFFICES ASSUME NEW x \in DOMAIN u, NEW k \in AddedAt(u, x) PROVE FALSE
      OBVIOUS
    <3>1. x \in 1 .. j - i
      <4> HIDE DEF u
      <4>1. QED
        BY <1>2, LenProperties
    <3>2. i \in 1 .. Len(t) /\ j - 1 \in i - 1 .. Len(t) /\ x \in 1 .. (j - 1) - i + 1
      BY <1>1, <3>1
    <3>3. k \in AddedAt(t, i + x - 1)
      BY <3>2, AddedWithin
    <3>4. i + x - 1 \in i .. j - 1
      BY <1>1, <3>1
    <3>5. QED
      BY <3>3, <3>4
  <2>4. Right(t, seg, i)
    BY <2>2, <2>3 DEF Right
  <2>5. seg.text = SubSeq(t, i, j - 1)
    OBVIOUS
  <2>6. Regular(SubSeq(t, i, j - 1)) = <<seg>>
    BY <2>1
  <2> HIDE DEF seg
  <2>7. Tiles(t, i, <<seg>> \o ss)
    BY <2>2, <2>4, <2>5, TilesMore
  <2>8. QED
    BY <2>6, <2>7
<1>6. QED
  BY <1>4, <1>5

\* The added token is the next.
LEMMA AddedTiles ==
  ASSUME tok \in Toks, NEW t \in Seq(Char), NEW i \in 1 .. Len(t), NEW j \in i .. Len(t) + 1,
         NEW k \in DOMAIN tok.added, tok.added[k][1] = SubSeq(t, i, j - 1),
         \A m \in AddedAt(t, i) : Size(m) <= Size(k),
         NEW ss, Tiles(t, j, ss)
  PROVE  Tiles(t, i, Added(k) \o ss)
<1> DEFINE a == tok.added[k][1]
           id == tok.added[k][2]
           seg == [added |-> TRUE, text |-> a, id |-> id]
<1>1. a \in Seq(Char) /\ id \in Nat
  BY AddedTyped
<1>2. Added(k) = <<seg>> /\ Size(k) = Len(a)
  BY DEF Added, Size
<1>3. a = SubSeq(t, i, j - 1)
  OBVIOUS
<1> HIDE DEF a, id
<1>4. seg \in SegmentOf /\ seg.text = a /\ seg.added = TRUE
  BY <1>1 DEF SegmentOf
<1> HIDE DEF seg
<1>5. Right(t, seg, i)
  BY <1>2, <1>4 DEF Right
<1>6. i \in 1 .. Len(t) + 1
  BY LenProperties
<1>7. Tiles(t, i, <<seg>> \o ss)
  BY <1>3, <1>4, <1>5, <1>6, TilesMore
<1>8. QED
  BY <1>2, <1>7

LEMMA PartsTyped ==
  ASSUME tok \in Toks
  PROVE  /\ \A u \in Seq(Char) : Regular(u) \in Seq(SegmentOf)
         /\ \A k \in DOMAIN tok.added : Added(k) \in Seq(SegmentOf)
<1>1. ASSUME NEW u \in Seq(Char) PROVE Regular(u) \in Seq(SegmentOf)
  <2> DEFINE seg == [added |-> FALSE, text |-> u]
  <2>1. seg \in SegmentOf
    BY DEF SegmentOf
  <2>2. Regular(u) = <<>> \/ Regular(u) = <<seg>>
    BY DEF Regular
  <2> HIDE DEF seg
  <2>3. <<>> \in Seq(SegmentOf) /\ <<seg>> \in Seq(SegmentOf)
    BY <2>1
  <2>4. QED
    BY <2>2, <2>3
<1>2. ASSUME NEW k \in DOMAIN tok.added PROVE Added(k) \in Seq(SegmentOf)
  <2> DEFINE a == tok.added[k][1]
             id == tok.added[k][2]
             seg == [added |-> TRUE, text |-> a, id |-> id]
  <2>1. a \in Seq(Char) /\ id \in Nat
    BY AddedTyped
  <2>2. Added(k) = <<seg>>
    BY DEF Added
  <2> HIDE DEF a, id
  <2>3. seg \in SegmentOf
    BY <2>1 DEF SegmentOf
  <2> HIDE DEF seg
  <2>4. QED
    BY <2>2, <2>3
<1>3. QED
  BY <1>1, <1>2

\* The segments cover the text.
LEMMA SegmentsTiles ==
  ASSUME tok \in Toks, NEW t \in Seq(Char)
  PROVE  Tiles(t, 1, Segments(t))
<1> DEFINE n == Len(t)
<1>1. n \in Nat /\ DOMAIN t = 1 .. n
  BY LenProperties
<1>2. CASE Places(t) = {}
  <2> DEFINE seg == [added |-> FALSE, text |-> t]
  <2>1. Segments(t) = <<seg>>
    BY <1>2, SegmentsIs
  <2>2. seg \in SegmentOf /\ seg.text = t /\ seg.added = FALSE
    BY DEF SegmentOf
  <2>3. \A i \in DOMAIN t : AddedAt(t, i) = {}
    BY <1>1, <1>2, PlacesIs
  <2> HIDE DEF seg
  <2>4. Right(t, seg, 1)
    BY <2>2, <2>3 DEF Right
  <2>5. t = SubSeq(t, 1, (n + 1) - 1)
    BY <1>1
  <2>6. Tiles(t, n + 1, <<>>)
    BY TilesNone
  <2>7. 1 \in 1 .. n + 1 /\ n + 1 \in 1 .. n + 1
    BY <1>1
  <2>8. Tiles(t, 1, <<seg>> \o <<>>)
    BY <2>2, <2>4, <2>5, <2>6, <2>7, TilesMore
  <2>9. <<seg>> \o <<>> = <<seg>>
    BY <2>2
  <2>10. QED
    BY <2>1, <2>8, <2>9
<1>3. CASE Places(t) # {}
  <2> DEFINE cut == CutOf(t)
             to == ToOf(t)
  <2>1. \A i \in 1 .. n : to[i] \in i + 1 .. n + 1
    BY ToIs
  <2> HIDE DEF to, cut
  <2>2. Forward(n, to)
    BY <2>1 DEF Forward
  <2>3. PICK f : CutsUp(n, cut, to, f) /\ CutUp(n, cut, to) = f[1]
    BY <1>1, <2>2, CutUpIs
  <2>4. f[n + 1] = <<>> /\ \A i \in 1 .. n : f[i] = cut[i] \o f[to[i]]
    BY <2>3 DEF CutsUp
  <2> DEFINE T == {i \in 1 .. n + 1 : Tiles(t, i, f[i])}
  <2>5. n + 1 \in T
    <3>1. Tiles(t, n + 1, <<>>) /\ n + 1 \in 1 .. n + 1
      BY <1>1, TilesNone
    <3>2. QED
      BY <2>4, <3>1
  <2>6. \A i \in 1 .. n : (\A k \in i + 1 .. n + 1 : k \in T) => i \in T
    <3> SUFFICES ASSUME NEW i \in 1 .. n, \A k \in i + 1 .. n + 1 : k \in T
                 PROVE Tiles(t, i, f[i])
      BY <1>1
    <3> DEFINE h == HitOf(t)[i]
               j == to[i]
               x == f[j]
               k == Longests(t)[h]
               R == Regular(SubSeq(t, i, h - 1))
               A == IF h = n + 1 THEN <<>> ELSE Added(k)
    <3>1. j \in i + 1 .. n + 1 /\ Tiles(t, j, x)
      BY <2>1
    <3>2. f[i] = (R \o A) \o x
      <4>1. cut[i] = R \o A
        BY <1>1 DEF cut, CutOf
      <4>2. QED
        BY <2>4, <4>1
    <3>3. /\ h \in i .. n + 1 /\ \A m \in i .. h - 1 : AddedAt(t, m) = {}
          /\ h # n + 1 => h \in 1 .. n /\ \A m \in AddedAt(t, h) : Size(m) <= Size(k)
      BY HitIs
    <3>4. /\ h = n + 1 => j = n + 1
          /\ h # n + 1 => /\ k \in DOMAIN tok.added /\ j = h + Size(k)
                          /\ tok.added[k][1] = SubSeq(t, h, j - 1)
      BY ToIs DEF to
    <3>5. x \in Seq(SegmentOf)
      BY <3>1 DEF Tiles
    <3>6. R \in Seq(SegmentOf)
      <4>1. i \in 1 .. n + 1 /\ h - 1 \in i - 1 .. n
        BY <1>1, <3>3
      <4> HIDE DEF h
      <4>2. SubSeq(t, i, h - 1) \in Seq(Char)
        BY <4>1, PartTyped
      <4>3. QED
        BY <4>2, PartsTyped
    <3>7. A \in Seq(SegmentOf)
      <4> HIDE DEF h, k
      <4>1. <<>> \in Seq(SegmentOf)
        OBVIOUS
      <4>2. h # n + 1 => Added(k) \in Seq(SegmentOf)
        BY <3>4, PartsTyped
      <4>3. QED
        BY <4>1, <4>2
    <3> HIDE DEF h, j, x, k
    <3>8. Tiles(t, h, A \o x)
      <4>1. CASE h = n + 1
        <5>1. A \o x = x
          BY <3>5, <4>1, ConcatEmptySeq
        <5>2. QED
          BY <3>1, <3>4, <4>1, <5>1
      <4>2. CASE h # n + 1
        <5>1. h \in 1 .. n /\ k \in DOMAIN tok.added /\ j = h + Size(k)
          BY <3>3, <3>4, <4>2
        <5>2. Size(k) \in Nat
          BY <5>1, AddedTyped
        <5>3. j \in h .. n + 1
          BY <1>1, <3>1, <5>1, <5>2
        <5>4. Tiles(t, h, Added(k) \o x)
          BY <3>1, <3>3, <3>4, <4>2, <5>1, <5>3, AddedTiles
        <5>5. QED
          BY <4>2, <5>4
      <4>3. QED
        BY <4>1, <4>2
    <3> HIDE DEF A
    <3>9. i \in 1 .. n + 1
      BY <1>1
    <3>10. Tiles(t, i, R \o (A \o x))
      BY <3>3, <3>8, <3>9, RegularTiles
    <3> HIDE DEF R
    <3>11. (R \o A) \o x = R \o (A \o x)
      BY <3>5, <3>6, <3>7, ConcatAssociative, SMTT(30)
    <3>12. QED
      BY <3>2, <3>10, <3>11
  <2>7. \A i \in 1 .. n + 1 : i \in T
    <3> HIDE DEF T
    <3>1. QED
      BY <1>1, <2>5, <2>6, Downwards
  <2>8. Tiles(t, 1, f[1])
    <3>1. 1 \in T
      BY <1>1, <2>7
    <3>2. QED
      BY <3>1
  <2>9. QED
    BY <1>3, <2>3, <2>8, SegmentsIs DEF cut, to
<1>4. QED
  BY <1>2, <1>3

-----------------------------------------------------------------------------
(* The cache.                                                              *)

\* A cache within its limit whose entries are what the model would say.
Sound(entries) ==
  /\ IsFiniteSet(DOMAIN entries) /\ Cardinality(DOMAIN entries) <= tok.cacheMax
  /\ \A p \in DOMAIN entries : entries[p] = ModelEncode(tok, p)

\* Two accumulators with the same ids, whatever their caches hold.
Alike(a, b) == a.ids = b.ids /\ Sound(a.cache) /\ Sound(b.cache)

LEMMA LimitIs ==
  ASSUME tok \in Toks
  PROVE  tok.cacheMax \in Nat \ {0}
BY TokAssumption

LEMMA EmptySound ==
  ASSUME tok \in Toks
  PROVE  Sound(<<>>) /\ DOMAIN <<>> = {}
<1>1. DOMAIN <<>> = {}
  OBVIOUS
<1>2. IsFiniteSet({}) /\ Cardinality({}) = 0
  BY FS_EmptySet
<1>3. QED
  BY <1>1, <1>2, LimitIs DEF Sound

\* A new entry leaves the cache sound, also when it was full.
LEMMA StoredSound ==
  ASSUME tok \in Toks, NEW entries, Sound(entries), NEW p, p \notin DOMAIN entries
  PROVE  Sound(Stored(entries, p, ModelEncode(tok, p)))
<1> DEFINE kept == Kept(entries)
           max == tok.cacheMax
           D == DOMAIN kept
           new == Stored(entries, p, ModelEncode(tok, p))
<1>1. max \in Nat \ {0}
  BY LimitIs
<1>2. /\ IsFiniteSet(DOMAIN entries) /\ Cardinality(DOMAIN entries) <= max
      /\ \A q \in DOMAIN entries : entries[q] = ModelEncode(tok, q)
  BY DEF Sound
<1>3. kept = IF Cardinality(DOMAIN entries) >= max THEN <<>> ELSE entries
  BY DEF Kept
<1>4. new = [q \in D \cup {p} |-> IF q = p THEN ModelEncode(tok, p) ELSE entries[q]]
  BY DEF Stored
<1> HIDE DEF kept, new, max
<1>5. IsFiniteSet(D) /\ Cardinality(D) \in Nat /\ Cardinality(D) < max /\ D \subseteq DOMAIN entries
  <2>1. CASE Cardinality(DOMAIN entries) >= max
    <3>1. D = {}
      BY <1>3, <2>1, EmptySound
    <3>2. IsFiniteSet({}) /\ Cardinality({}) = 0
      BY FS_EmptySet
    <3>3. QED
      BY <1>1, <3>1, <3>2
  <2>2. CASE ~(Cardinality(DOMAIN entries) >= max)
    <3>1. kept = entries /\ D = DOMAIN entries
      BY <1>3, <2>2
    <3>2. Cardinality(DOMAIN entries) \in Nat
      BY <1>2, FS_CardinalityType
    <3>3. QED
      BY <1>1, <1>2, <2>2, <3>1, <3>2
  <2>3. QED
    BY <2>1, <2>2
<1> HIDE DEF D
<1>6. p \notin D
  BY <1>5
<1>7. IsFiniteSet(D \cup {p}) /\ Cardinality(D \cup {p}) = Cardinality(D) + 1
  BY <1>5, <1>6, FS_AddElement
<1>8. DOMAIN new = D \cup {p}
  BY <1>4
<1>9. Cardinality(DOMAIN new) <= max /\ IsFiniteSet(DOMAIN new)
  BY <1>1, <1>5, <1>7, <1>8
<1>10. \A q \in DOMAIN new : new[q] = ModelEncode(tok, q)
  BY <1>2, <1>4, <1>5, <1>8
<1>11. QED
  BY <1>9, <1>10 DEF Sound, new, max

\* One pretoken more keeps two accumulators alike.
LEMMA PretokenAlike ==
  ASSUME tok \in Toks, NEW a, NEW b, Alike(a, b), NEW p
  PROVE  Alike(EncodePretoken(a, p), EncodePretoken(b, p))
<1> DEFINE said == ModelEncode(tok, p)
           Of(x) == EncodePretoken(x, p)
<1>1. ASSUME NEW x, Sound(x.cache)
      PROVE  Of(x).ids = x.ids \o said /\ Sound(Of(x).cache)
  <2>1. CASE p \in DOMAIN x.cache
    <3>1. Of(x) = [ids |-> x.ids \o x.cache[p], cache |-> x.cache]
      BY <2>1 DEF EncodePretoken
    <3>2. x.cache[p] = said
      BY <1>1, <2>1 DEF Sound
    <3> HIDE DEF said, Of
    <3>3. QED
      BY <1>1, <3>1, <3>2
  <2>2. CASE p \notin DOMAIN x.cache
    <3>1. Of(x) = [ids |-> x.ids \o said, cache |-> Stored(x.cache, p, said)]
      BY <2>2 DEF EncodePretoken
    <3>2. Sound(Stored(x.cache, p, said))
      BY <1>1, <2>2, StoredSound
    <3> HIDE DEF said, Of
    <3>3. QED
      BY <3>1, <3>2
  <2>3. QED
    BY <2>1, <2>2
<1>2. a.ids = b.ids /\ Sound(a.cache) /\ Sound(b.cache)
  BY DEF Alike
<1> HIDE DEF said, Of
<1>3. Of(a).ids = Of(b).ids /\ Sound(Of(a).cache) /\ Sound(Of(b).cache)
  BY <1>1, <1>2
<1>4. QED
  BY <1>3 DEF Alike, Of

LEMMA PretokensAlike ==
  ASSUME tok \in Toks, NEW a, NEW b, Alike(a, b), NEW s \in Seq(Seq(Char))
  PROVE  Alike(FoldLeft(EncodePretoken, a, s), FoldLeft(EncodePretoken, b, s))
<1> DEFINE n == Len(s)
<1>1. n \in Nat /\ DOMAIN s = 1 .. n
  BY LenProperties
<1>2. PICK f : /\ f[0] = a
               /\ \A i \in 1 .. n : f[i] = EncodePretoken(f[i - 1], s[i])
               /\ FoldLeft(EncodePretoken, a, s) = f[n]
  BY <1>1, PretokenFold, ZenonT(40)
<1>3. PICK g : /\ g[0] = b
               /\ \A i \in 1 .. n : g[i] = EncodePretoken(g[i - 1], s[i])
               /\ FoldLeft(EncodePretoken, b, s) = g[n]
  BY <1>1, PretokenFold, ZenonT(40)
<1> DEFINE T == {i \in 0 .. n : Alike(f[i], g[i])}
<1>4. 0 \in T
  BY <1>1, <1>2, <1>3
<1>5. \A i \in 1 .. n : i - 1 \in T => i \in T
  BY <1>1, <1>2, <1>3, PretokenAlike
<1>6. \A i \in 0 .. n : i \in T
  <2> HIDE DEF T
  <2>1. QED
    BY <1>1, <1>4, <1>5, Upwards
<1>7. n \in T
  BY <1>1, <1>6
<1>8. QED
  BY <1>2, <1>3, <1>7

LEMMA SegmentAlike ==
  ASSUME tok \in Toks, NEW a, NEW b, Alike(a, b), NEW seg \in SegmentOf
  PROVE  Alike(EncodeSegment(a, seg), EncodeSegment(b, seg))
<1>1. CASE seg.added
  <2> DEFINE Of(x) == EncodeSegment(x, seg)
  <2>1. \A x : Of(x) = [ids |-> Append(x.ids, seg.id), cache |-> x.cache]
    BY <1>1 DEF EncodeSegment
  <2> HIDE DEF Of
  <2>2. \A x : Of(x).ids = Append(x.ids, seg.id) /\ Of(x).cache = x.cache
    BY <2>1
  <2>3. Alike(Of(a), Of(b))
    BY <2>2 DEF Alike
  <2>4. QED
    BY <2>3 DEF Of
<1>2. CASE ~seg.added
  <2> DEFINE s == Pretokens(seg.text)
  <2>1. seg.text \in Seq(Char)
    BY DEF SegmentOf
  <2>2. s \in Seq(Seq(Char))
    BY <2>1, PretokensTyped
  <2>3. \A x : EncodeSegment(x, seg) = FoldLeft(EncodePretoken, x, s)
    BY <1>2, Zenon DEF EncodeSegment
  <2> HIDE DEF s
  <2>4. Alike(FoldLeft(EncodePretoken, a, s), FoldLeft(EncodePretoken, b, s))
    BY <2>2, PretokensAlike
  <2>5. /\ EncodeSegment(a, seg) = FoldLeft(EncodePretoken, a, s)
        /\ EncodeSegment(b, seg) = FoldLeft(EncodePretoken, b, s)
    BY <2>3, Zenon
  <2> DEFINE x == EncodeSegment(a, seg)
             y == EncodeSegment(b, seg)
  <2>6. Alike(x, y)
    <3> HIDE DEF x, y
    <3>1. x = FoldLeft(EncodePretoken, a, s) /\ y = FoldLeft(EncodePretoken, b, s)
      BY <2>5 DEF x, y
    <3>2. QED
      BY <2>4, <3>1
  <2>7. QED
    BY <2>6
<1>3. QED
  BY <1>1, <1>2

\* The ids of a text do not depend on the cache before.
LEMMA EncodeAlike ==
  ASSUME tok \in Toks, NEW entries, Sound(entries), NEW t \in Seq(Char)
  PROVE  Alike(EncodeWith(entries, t), EncodeWith(<<>>, t))
<1> DEFINE s == Segments(t)
           n == Len(s)
           a == [ids |-> <<>>, cache |-> entries]
           b == [ids |-> <<>>, cache |-> <<>>]
<1>1. s \in Seq(SegmentOf)
  BY SegmentsTiles DEF Tiles
<1>2. /\ EncodeWith(entries, t) = FoldLeft(EncodeSegment, a, s)
      /\ EncodeWith(<<>>, t) = FoldLeft(EncodeSegment, b, s)
  BY Zenon DEF EncodeWith
<1>3. Alike(a, b)
  BY EmptySound DEF Alike
<1> HIDE DEF s, a, b
<1>4. n \in Nat /\ DOMAIN s = 1 .. n /\ \A i \in 1 .. n : s[i] \in SegmentOf
  BY <1>1, LenProperties, ElementOfSeq
<1>5. PICK f : /\ f[0] = a
               /\ \A i \in 1 .. n : f[i] = EncodeSegment(f[i - 1], s[i])
               /\ FoldLeft(EncodeSegment, a, s) = f[n]
  BY <1>4, SegmentFold, ZenonT(40)
<1>6. PICK g : /\ g[0] = b
               /\ \A i \in 1 .. n : g[i] = EncodeSegment(g[i - 1], s[i])
               /\ FoldLeft(EncodeSegment, b, s) = g[n]
  BY <1>4, SegmentFold, ZenonT(40)
<1> DEFINE T == {i \in 0 .. n : Alike(f[i], g[i])}
<1>7. 0 \in T
  BY <1>3, <1>4, <1>5, <1>6
<1>8. \A i \in 1 .. n : i - 1 \in T => i \in T
  BY <1>4, <1>5, <1>6, SegmentAlike
<1>9. \A i \in 0 .. n : i \in T
  <2> HIDE DEF T
  <2>1. QED
    BY <1>4, <1>7, <1>8, Upwards
<1>10. n \in T
  BY <1>4, <1>9
<1>11. QED
  BY <1>2, <1>5, <1>6, <1>10

-----------------------------------------------------------------------------
(* The theorems.                                                           *)

\* The tokenizer is one of those that may be loaded, the text is one, and the
\* cache holds what the model would say, within its limit.
IInv ==
  /\ tok \in Toks
  /\ text \in Seq(Char)
  /\ Sound(cache)

LEMMA InitIInv == Init => IInv
<1> SUFFICES ASSUME Init PROVE IInv
  OBVIOUS
<1>1. tok \in Toks /\ cache = <<>> /\ text = <<>>
  BY DEF Init
<1>2. Sound(cache)
  BY <1>1, EmptySound
<1>3. text \in Seq(Char)
  BY <1>1
<1>4. QED
  BY <1>1, <1>2, <1>3 DEF IInv

\* A call of encode.
LEMMA EncodeKeeps ==
  ASSUME IInv, NEW t \in TextsOf(tok), Encode(t)
  PROVE  /\ IInv'
         /\ Cardinality(DOMAIN cache') <= tok.cacheMax
         /\ ids' = PostProcess(EncodeWith(<<>>, text').ids)
<1> DEFINE done == EncodeWith(cache, t)
           fresh == EncodeWith(<<>>, t)
<1>1. tok \in Toks /\ Sound(cache)
  BY DEF IInv
<1>2. t \in Seq(Char)
  BY <1>1, TokAssumption
<1>3. text' = t /\ ids' = PostProcess(done.ids) /\ cache' = done.cache /\ tok' = tok
  BY DEF Encode
<1>4. Alike(done, fresh)
  BY <1>1, <1>2, EncodeAlike
<1> HIDE DEF done
<1>5. done.ids = fresh.ids /\ Sound(done.cache)
  BY <1>4 DEF Alike
<1>6. /\ IsFiniteSet(DOMAIN done.cache) /\ Cardinality(DOMAIN done.cache) <= tok.cacheMax
      /\ \A p \in DOMAIN done.cache : done.cache[p] = ModelEncode(tok, p)
  BY <1>5 DEF Sound
<1>7. Sound(cache)'
  BY <1>3, <1>6 DEF Sound
<1>8. IInv'
  BY <1>1, <1>2, <1>3, <1>7 DEF IInv
<1>9. ids' = PostProcess(EncodeWith(<<>>, text').ids)
  BY <1>3, <1>5
<1>10. QED
  BY <1>3, <1>6, <1>8, <1>9

LEMMA StepIInv == IInv /\ [Next]_vars => IInv'
<1> SUFFICES ASSUME IInv, [Next]_vars PROVE IInv'
  OBVIOUS
<1>1. CASE Next
  <2>1. PICK t \in TextsOf(tok) : Encode(t)
    BY <1>1 DEF Next
  <2>2. QED
    BY <2>1, EncodeKeeps
<1>2. CASE UNCHANGED vars
  BY <1>2 DEF IInv, vars, Sound
<1>3. QED
  BY <1>1, <1>2

\* The cache holds nothing but what the model says of a pretoken, within its
\* limit, whatever was encoded.
THEOREM CacheSound == Spec => []IInv
<1>1. QED
  BY InitIInv, StepIInv, PTL DEF Spec

\* What was encoded before makes no difference to an encoding, and the cache
\* keeps to its limit.
THEOREM AnswersAlways == Spec => AnswersAlike
<1> DEFINE Answers == /\ Cardinality(DOMAIN cache') <= tok.cacheMax
                      /\ ids' = PostProcess(EncodeWith(<<>>, text').ids)
<1>1. IInv /\ [Next]_vars => [Answers]_vars
  <2> SUFFICES ASSUME IInv, Next PROVE Answers
    OBVIOUS
  <2>1. PICK t \in TextsOf(tok) : Encode(t)
    BY DEF Next
  <2>2. QED
    BY <2>1, EncodeKeeps
<1> HIDE DEF Answers
<1>2. Spec => [][Answers]_vars
  BY <1>1, CacheSound, PTL DEF Spec
<1>3. QED
  BY <1>2 DEF Answers, AnswersAlike

\* The segments put the text together, and each is what it should be.
LEMMA SegmentsRight ==
  ASSUME tok \in Toks, text \in Seq(Char)
  PROVE  SegmentsTile
<1> DEFINE segs == Segments(text)
           n == Len(segs)
           before(k) == [m \in 1 .. k - 1 |-> segs[m].text]
           all == [k \in DOMAIN segs |-> segs[k].text]
<1>1. PICK pos : TilesBy(text, 1, segs, pos)
  BY SegmentsTiles DEF Tiles
<1>2. segs \in Seq(SegmentOf)
  BY SegmentsTiles DEF Tiles
<1> HIDE DEF segs
<1>3. n \in Nat /\ DOMAIN segs = 1 .. n /\ \A k \in 1 .. n : segs[k] \in SegmentOf
  BY <1>2, LenProperties, ElementOfSeq
<1>4. \A k \in 1 .. n : segs[k].text \in Seq(Char) /\ segs[k].added \in BOOLEAN
  BY <1>3 DEF SegmentOf
<1>5. /\ pos[1] = 1 /\ pos[n + 1] = Len(text) + 1
      /\ \A k \in 1 .. n :
           /\ pos[k] \in 1 .. Len(text) + 1 /\ pos[k + 1] \in pos[k] .. Len(text) + 1
           /\ segs[k].text = SubSeq(text, pos[k], pos[k + 1] - 1)
           /\ Right(text, segs[k], pos[k])
  BY <1>1 DEF TilesBy
<1>6. Len(text) \in Nat
  BY LenProperties
<1>7. \A k \in 1 .. n + 1 : pos[k] \in 1 .. Len(text) + 1
  <2> TAKE k \in 1 .. n + 1
  <2>1. k = n + 1 \/ k \in 1 .. n
    BY <1>3
  <2>2. pos[n + 1] \in 1 .. Len(text) + 1
    BY <1>5, <1>6
  <2>3. QED
    BY <1>5, <2>1, <2>2
<1>8. ASSUME NEW k \in 1 .. n + 1
      PROVE  FlattenSeq(before(k)) = SubSeq(text, 1, pos[k] - 1)
  <2> DEFINE ss == before(k)
  <2>1. DOMAIN ss = 1 .. k - 1 /\ ss = [m \in 1 .. k - 1 |-> ss[m]] /\ k - 1 \in Nat
    BY <1>3
  <2>2. \A m \in 1 .. k - 1 : m \in 1 .. n /\ ss[m] = segs[m].text
    BY <1>3
  <2> HIDE DEF ss
  <2>3. \A m \in 1 .. k - 1 : ss[m] \in Seq(Char)
    BY <1>4, <2>2
  <2>4. ss \in Seq(Seq(Char)) /\ Len(ss) = k - 1
    BY <2>1, <2>3, FunctionIsSeq
  <2>5. PICK g : /\ g[0] = <<>>
                 /\ \A i \in 1 .. Len(ss) : g[i] = g[i - 1] \o ss[i]
                 /\ \A i \in 0 .. Len(ss) : g[i] \in Seq(Char)
                 /\ FlattenSeq(ss) = g[Len(ss)]
    BY <2>4, FlattenIs
  <2> DEFINE T == {i \in 0 .. k - 1 : g[i] = SubSeq(text, 1, pos[i + 1] - 1)}
  <2>6. 0 \in T
    <3>1. SubSeq(text, 1, 0) = <<>>
      BY SubSeqEmpty
    <3>2. pos[0 + 1] - 1 = 0 /\ 0 \in 0 .. k - 1
      BY <1>5, <2>1
    <3>3. g[0] = SubSeq(text, 1, pos[0 + 1] - 1)
      BY <2>5, <3>1, <3>2
    <3>4. QED
      BY <3>2, <3>3
  <2>7. \A i \in 1 .. k - 1 : i - 1 \in T => i \in T
    <3> SUFFICES ASSUME NEW i \in 1 .. k - 1, i - 1 \in T
                 PROVE i \in 0 .. k - 1 /\ g[i] = SubSeq(text, 1, pos[i + 1] - 1)
      OBVIOUS
    <3>1. i \in 1 .. n /\ i + 1 \in 1 .. n + 1 /\ (i - 1) + 1 = i /\ i \in 0 .. k - 1
      BY <1>3, <2>1, <2>2
    <3>2. g[i - 1] = SubSeq(text, 1, pos[i] - 1)
      BY <3>1
    <3>3. ss[i] = SubSeq(text, pos[i], pos[i + 1] - 1)
      BY <1>5, <2>2, <3>1
    <3>4. g[i] = g[i - 1] \o ss[i]
      BY <2>4, <2>5
    <3> DEFINE a == pos[i]
               b == pos[i + 1]
    <3>5. a \in 1 .. Len(text) + 1 /\ b \in a .. Len(text) + 1
      BY <1>5, <3>1
    <3> HIDE DEF a, b
    <3>6. SubSeq(text, 1, a - 1) \o SubSeq(text, a, b - 1) = SubSeq(text, 1, b - 1)
      BY <3>5, PartsJoin
    <3>7. QED
      BY <3>1, <3>2, <3>3, <3>4, <3>6 DEF a, b
  <2>8. \A i \in 0 .. k - 1 : i \in T
    <3> HIDE DEF T
    <3>1. QED
      BY <2>1, <2>6, <2>7, Upwards
  <2>9. g[k - 1] = SubSeq(text, 1, pos[(k - 1) + 1] - 1)
    <3>1. k - 1 \in T
      BY <2>1, <2>8
    <3>2. QED
      BY <3>1
  <2>10. (k - 1) + 1 = k
    OBVIOUS
  <2>11. FlattenSeq(ss) = SubSeq(text, 1, pos[k] - 1)
    BY <2>4, <2>5, <2>9, <2>10
  <2>12. QED
    BY <2>11 DEF ss
<1>9. FlattenSeq(all) = text
  <2>1. all = before(n + 1)
    BY <1>3
  <2>2. SubSeq(text, 1, pos[n + 1] - 1) = text
    BY <1>5, <1>6
  <2>3. n + 1 \in 1 .. n + 1
    BY <1>3
  <2> HIDE DEF before, all
  <2>4. QED
    BY <1>8, <2>1, <2>2, <2>3
<1>10. ASSUME NEW k \in 1 .. n
       PROVE  1 + Len(FlattenSeq(before(k))) = pos[k]
  <2>1. k \in 1 .. n + 1
    BY <1>3
  <2>2. FlattenSeq(before(k)) = SubSeq(text, 1, pos[k] - 1)
    BY <1>8, <2>1
  <2> DEFINE b == pos[k] - 1
  <2>3. 1 \in 1 .. Len(text) + 1 /\ b \in 1 - 1 .. Len(text) /\ 1 + (b - 1 + 1) = pos[k]
    BY <1>6, <1>7, <2>1
  <2> HIDE DEF b
  <2>4. Len(SubSeq(text, 1, b)) = b - 1 + 1
    BY <2>3, PartTyped
  <2> HIDE DEF before
  <2>5. QED
    BY <2>2, <2>3, <2>4 DEF b
<1> DEFINE at(k) == 1 + Len(FlattenSeq(before(k)))
<1>11. \A k \in DOMAIN segs :
         /\ ~segs[k].added => \A i \in DOMAIN segs[k].text : AddedAt(segs[k].text, i) = {}
         /\ segs[k].added =>
              \A m \in AddedAt(text, at(k)) : Len(tok.added[m][1]) <= Len(segs[k].text)
  <2> HIDE DEF before
  <2> TAKE k \in DOMAIN segs
  <2>1. at(k) = pos[k] /\ Right(text, segs[k], pos[k])
    BY <1>3, <1>5, <1>10
  <2> HIDE DEF at
  <2>2. QED
    BY <2>1 DEF Right, Size
<1>12. QED
  BY <1>9, <1>11, Zenon DEF SegmentsTile, segs

\* A text is cut into segments that cover it, with the longest added token
\* wherever one begins.
THEOREM SegmentsAlways == Spec => []SegmentsTile
<1>1. IInv => SegmentsTile
  BY SegmentsRight DEF IInv
<1>2. QED
  BY <1>1, CacheSound, PTL
=============================================================================
