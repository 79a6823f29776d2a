------------------------ MODULE PrefillPipelineProofs -----------------------
(***************************************************************************)
(* Proofs about PrefillPipeline, for any prompts, any limit of the cache   *)
(* and any chunk size: every token is fed once, and the timestamps keep    *)
(* the cache in least-recently-used order.                                 *)
(***************************************************************************)
EXTENDS PrefillPipeline, WellFoundedInduction, SequenceTheorems,
        FiniteSetTheorems, TLAPS

-----------------------------------------------------------------------------
(* The inductive invariant.                                                *)

Entry == [state_id : Nat, last_access : Nat]

PipelineTypeOK ==
  /\ access_counter \in Nat /\ state_counter \in Nat
  /\ fed \in Seq(Nat \X Nat)
  /\ result \in [prompt : Seq(Tokens), cached : Nat, ended : {"none", "ok", "error"}]

\* A cache whose keys were last used at different times, none after t.
Timed(es, t) ==
  /\ DOMAIN es \subseteq Prompts /\ es \in [DOMAIN es -> Entry]
  /\ \A k \in DOMAIN es : es[k].last_access <= t
  /\ \A k, q \in DOMAIN es : es[k].last_access = es[q].last_access => k = q

\* The number of entries; a limit of 0 still lets the map hold one.
Room == IF MaxEntries = 0 THEN 1 ELSE MaxEntries
Fits(es) == IsFiniteSet(DOMAIN es) /\ Cardinality(DOMAIN es) <= Room

PInv ==
  PipelineTypeOK /\ Timed(entries, access_counter) /\ Fits(entries) /\ EveryTokenFedOnce

-----------------------------------------------------------------------------
(* Numbers.                                                                *)

\* A set of naturals has a smallest element.
LEMMA Smallest ==
  ASSUME NEW T \in SUBSET Nat, T # {}
  PROVE  \E m \in T : \A n \in T : m <= n
<1>1. \E R : IsWellFoundedOn(R, Nat) /\ \A n, m \in Nat : n < m => <<n, m>> \in R
  BY NatLessThanWellFounded DEF OpToRel
<1>2. PICK R : IsWellFoundedOn(R, Nat) /\ \A n, m \in Nat : n < m => <<n, m>> \in R
  BY <1>1
<1>3. PICK m \in T : \A n \in T : ~(<<n, m>> \in R)
  <2>1. IsWellFoundedOn(R, Nat) /\ T \subseteq Nat /\ T # {}
    BY <1>2
  <2>2. QED
    BY <2>1, WFMin, Zenon
<1>4. \A n \in T : ~(n < m)
  BY <1>2, <1>3
<1>5. QED
  BY <1>4

\* The number of chunks: just enough of them.
LEMMA Ceiling ==
  ASSUME NEW d \in Nat, NEW c \in Nat \ {0}, NEW n, n = (d + c - 1) \div c
  PROVE  n \in Nat /\ n * c <= d + c - 1 /\ d + c - 1 < n * c + c
OBVIOUS

LEMMA Times ==
  ASSUME NEW c \in Nat, NEW i \in Nat, NEW n \in Nat, i <= n
  PROVE  i * c \in Nat /\ i * c <= n * c /\ (i + 1) * c = i * c + c
OBVIOUS

-----------------------------------------------------------------------------
(* Prefixes and chunks.                                                    *)

LEMMA PrefixIs ==
  ASSUME NEW tokens \in Prompts, NEW n \in 0 .. Len(tokens)
  PROVE  Prefix(tokens, n) \in Seq(Tokens) /\ Len(Prefix(tokens, n)) = n
<1>1. tokens \in Seq(Tokens)
  BY PipelineAssumption
<1>2. n \in Int /\ 1 \in Int /\ \A i \in 1 .. n : tokens[i] \in Tokens
  BY <1>1
<1>3. /\ SubSeq(tokens, 1, n) \in Seq(Tokens)
      /\ Len(SubSeq(tokens, 1, n)) = IF 1 <= n THEN n - 1 + 1 ELSE 0
  BY <1>2, SubSeqProperties
<1>4. QED
  BY <1>1, <1>3 DEF Prefix

\* What lookup returns is a prefix of the prompt, one of the keys if there is
\* any.
LEMMA HitIs ==
  ASSUME NEW tokens \in Prompts
  PROVE  \E n \in 0 .. Len(tokens) :
           /\ Hit(tokens) = Prefix(tokens, n) /\ Len(Hit(tokens)) = n
           /\ n = 0 => Hit(tokens) = <<>>
           /\ n # 0 => Hit(tokens) # <<>> /\ Hit(tokens) \in DOMAIN entries
<1> DEFINE cp == Checkpoints(Len(tokens))
           m == Len(tokens)
<1>1. m \in Nat
  BY PipelineAssumption
<1>2. DOMAIN cp = 1 .. 5 /\ \A i \in 1 .. 5 : cp[i] \in 0 .. m
  <2>1. \A n \in Nat : /\ (n * 3) \div 4 \in 0 .. n /\ n \div 2 \in 0 .. n
                       /\ n \div 4 \in 0 .. n /\ Lesser(SystemLen, n) \in 0 .. n
    BY PipelineAssumption DEF Lesser
  <2> HIDE DEF m
  <2>2. \A n \in Nat : /\ DOMAIN Checkpoints(n) = 1 .. 5
                       /\ Checkpoints(n)[1] = n /\ Checkpoints(n)[2] = (n * 3) \div 4
                       /\ Checkpoints(n)[3] = n \div 2 /\ Checkpoints(n)[4] = n \div 4
                       /\ Checkpoints(n)[5] = Lesser(SystemLen, n)
    BY DEF Checkpoints
  <2>3. \A i \in 1 .. 5 : i = 1 \/ i = 2 \/ i = 3 \/ i = 4 \/ i = 5
    OBVIOUS
  <2>4. /\ (m * 3) \div 4 \in 0 .. m /\ m \div 2 \in 0 .. m
        /\ m \div 4 \in 0 .. m /\ Lesser(SystemLen, m) \in 0 .. m /\ m \in 0 .. m
    BY <1>1, <2>1
  <2>5. /\ DOMAIN Checkpoints(m) = 1 .. 5
        /\ Checkpoints(m)[1] = m /\ Checkpoints(m)[2] = (m * 3) \div 4
        /\ Checkpoints(m)[3] = m \div 2 /\ Checkpoints(m)[4] = m \div 4
        /\ Checkpoints(m)[5] = Lesser(SystemLen, m)
    BY <1>1, <2>2
  <2>6. \A i \in 1 .. 5 : Checkpoints(m)[i] \in 0 .. m
    BY <2>3, <2>4, <2>5
  <2>7. cp = Checkpoints(m)
    BY Zenon DEF m
  <2>8. QED
    BY <2>5, <2>6, <2>7
<1> HIDE DEF cp
<1>3. HitsAt(tokens) = {i \in DOMAIN cp : cp[i] # 0 /\ Prefix(tokens, cp[i]) \in DOMAIN entries}
  BY DEF HitsAt, cp
<1>4. CASE HitsAt(tokens) = {}
  <2>1. Hit(tokens) = <<>>
    BY <1>4 DEF Hit
  <2>2. 0 \in 0 .. Len(tokens) /\ Len(Prefix(tokens, 0)) = 0 /\ Prefix(tokens, 0) = <<>>
    <3>1. 0 \in 0 .. Len(tokens)
      BY <1>1
    <3>2. Prefix(tokens, 0) \in Seq(Tokens) /\ Len(Prefix(tokens, 0)) = 0
      BY <3>1, PrefixIs
    <3>3. QED
      BY <3>1, <3>2, EmptySeq
  <2>3. QED
    BY <2>1, <2>2
<1>5. CASE HitsAt(tokens) # {}
  <2> DEFINE H == HitsAt(tokens)
             First(i) == \A j \in H : i <= j
             f == CHOOSE i \in H : First(i)
  <2>1. f \in H
    <3>1. H \in SUBSET Nat
      BY <1>2, <1>3
    <3>2. \E i \in H : First(i)
      <4> HIDE DEF H
      <4>1. H # {}
        BY <1>5 DEF H
      <4>2. QED
        BY <3>1, <4>1, Smallest
    <3> HIDE DEF H, First
    <3>3. QED
      BY <3>2
  <2>2. Hit(tokens) = Prefix(tokens, cp[f])
    BY <1>5, Zenon DEF Hit, cp
  <2> HIDE DEF f
  <2>3. cp[f] \in 0 .. Len(tokens) /\ cp[f] # 0 /\ Prefix(tokens, cp[f]) \in DOMAIN entries
    BY <1>2, <1>3, <2>1
  <2>4. Len(Prefix(tokens, cp[f])) = cp[f]
    BY <2>3, PrefixIs
  <2>5. Prefix(tokens, cp[f]) # <<>>
    BY <2>3, <2>4, EmptySeq
  <2>6. QED
    BY <2>2, <2>3, <2>4, <2>5
<1>6. QED
  BY <1>4, <1>5

\* Chunks s of the positions start + 1 .. stop, one after the other.
Upto(s, start, i) == IF i = 1 THEN start ELSE s[i - 1][2]
Covers(s, start, stop) ==
  /\ s \in Seq(Nat \X Nat)
  /\ \A i \in 1 .. Len(s) :
       s[i][1] = Upto(s, start, i) + 1 /\ s[i][2] - s[i][1] \in 0 .. ChunkSize - 1
  /\ Upto(s, start, Len(s) + 1) = stop

\* Every chunk but the last is full, and the last ends where they are to end.
LEMMA ChunksCover ==
  ASSUME NEW from \in Nat, NEW to \in Nat, from <= to
  PROVE  /\ Covers(Chunks(from, to), from, to)
         /\ \A i \in 1 .. Len(Chunks(from, to)) : Chunks(from, to)[i][2] <= to
<1> DEFINE d == to - from
           n == (d + ChunkSize - 1) \div ChunkSize
           s == Chunks(from, to)
<1>1. ChunkSize \in Nat \ {0} /\ d \in Nat
  BY PipelineAssumption
<1>2. n \in Nat /\ n * ChunkSize <= d + ChunkSize - 1 /\ d + ChunkSize - 1 < n * ChunkSize + ChunkSize
  <2> HIDE DEF d
  <2>1. QED
    BY <1>1, Ceiling
<1>3. s = [i \in 1 .. n |->
             <<from + (i - 1) * ChunkSize + 1, Lesser(from + i * ChunkSize, to)>>]
  BY Zenon DEF Chunks
<1> HIDE DEF n, s
\* Where chunk i starts, and where it ends.
<1>4. \A i \in 1 .. n :
        /\ i * ChunkSize \in Nat /\ (i - 1) * ChunkSize \in Nat
        /\ i * ChunkSize = (i - 1) * ChunkSize + ChunkSize
        /\ from + (i - 1) * ChunkSize + 1 <= to
        /\ i = n => from + i * ChunkSize >= to
  <2> SUFFICES ASSUME NEW i \in 1 .. n
               PROVE  /\ i * ChunkSize \in Nat /\ (i - 1) * ChunkSize \in Nat
                      /\ i * ChunkSize = (i - 1) * ChunkSize + ChunkSize
                      /\ from + (i - 1) * ChunkSize + 1 <= to
                      /\ i = n => from + i * ChunkSize >= to
    OBVIOUS
  <2>1. i \in Nat /\ i - 1 \in Nat /\ i <= n /\ i - 1 <= i /\ (i - 1) + 1 = i
    BY <1>2
  <2>2. i * ChunkSize \in Nat /\ i * ChunkSize <= n * ChunkSize
    BY <1>1, <1>2, <2>1, Times
  <2>3. /\ (i - 1) * ChunkSize \in Nat
        /\ ((i - 1) + 1) * ChunkSize = (i - 1) * ChunkSize + ChunkSize
    BY <1>1, <2>1, Times
  <2>4. i * ChunkSize = (i - 1) * ChunkSize + ChunkSize
    BY <2>1, <2>3
  <2>5. n * ChunkSize \in Nat
    BY <1>1, <1>2, Times
  <2>6. (i - 1) * ChunkSize <= d - 1
    BY <1>1, <1>2, <2>2, <2>3, <2>4, <2>5
  <2>7. d - 1 < n * ChunkSize
    BY <1>1, <1>2, <2>5
  <2>8. QED
    BY <1>1, <2>2, <2>3, <2>4, <2>5, <2>6, <2>7
<1>5. DOMAIN s = 1 .. n /\ Len(s) = n
  BY <1>2, <1>3
<1>6. \A i \in 1 .. n :
        /\ s[i][1] = from + (i - 1) * ChunkSize + 1 /\ s[i][1] \in Nat
        /\ s[i][2] \in Nat /\ s[i][2] <= to
        /\ s[i][2] - s[i][1] \in 0 .. ChunkSize - 1
        /\ i < n => s[i][2] = from + i * ChunkSize
        /\ i = n => s[i][2] = to
        /\ s[i] = <<s[i][1], s[i][2]>>
  <2> SUFFICES ASSUME NEW i \in 1 .. n
               PROVE  /\ s[i][1] = from + (i - 1) * ChunkSize + 1 /\ s[i][1] \in Nat
                      /\ s[i][2] \in Nat /\ s[i][2] <= to
                      /\ s[i][2] - s[i][1] \in 0 .. ChunkSize - 1
                      /\ i < n => s[i][2] = from + i * ChunkSize
                      /\ i = n => s[i][2] = to
                      /\ s[i] = <<s[i][1], s[i][2]>>
    OBVIOUS
  <2>1. s[i] = <<from + (i - 1) * ChunkSize + 1, Lesser(from + i * ChunkSize, to)>>
    BY <1>3, Zenon
  <2>2. \E a, b \in Nat :
          /\ a = (i - 1) * ChunkSize /\ b = i * ChunkSize /\ b = a + ChunkSize
          /\ from + a + 1 <= to /\ (i = n => from + b >= to)
    BY <1>4
  <2>3. i < n => from + i * ChunkSize <= to
    <3> SUFFICES ASSUME i < n PROVE from + i * ChunkSize <= to
      OBVIOUS
    <3>1. i + 1 \in 1 .. n /\ (i + 1) - 1 = i
      BY <1>2
    <3>2. from + ((i + 1) - 1) * ChunkSize + 1 <= to
      BY <1>4, <3>1
    <3>3. from + i * ChunkSize + 1 <= to
      BY <3>1, <3>2
    <3>4. i * ChunkSize \in Nat
      BY <1>4
    <3>5. QED
      BY <3>3, <3>4
  <2>4. PICK a \in Nat, b \in Nat :
          /\ a = (i - 1) * ChunkSize /\ b = i * ChunkSize /\ b = a + ChunkSize
          /\ from + a + 1 <= to /\ (i = n => from + b >= to)
    BY <2>2
  <2>5. s[i][1] = from + a + 1 /\ s[i][2] = Lesser(from + b, to) /\ s[i] = <<s[i][1], s[i][2]>>
    BY <2>1, <2>4
  <2>6. i < n => from + b <= to
    BY <2>3, <2>4
  <2>7. /\ s[i][1] \in Nat /\ s[i][2] \in Nat /\ s[i][2] <= to
        /\ s[i][2] - s[i][1] \in 0 .. ChunkSize - 1
        /\ i < n => s[i][2] = from + b
        /\ i = n => s[i][2] = to
    <3>1. /\ b = a + ChunkSize /\ from + a + 1 <= to
          /\ (i = n => from + b >= to) /\ (i < n => from + b <= to)
      BY <2>4, <2>6
    <3>2. QED
      BY <1>1, <2>5, <3>1 DEF Lesser
  <2>8. QED
    BY <2>4, <2>5, <2>7
<1>7. s \in Seq(Nat \X Nat)
  <2>1. \A i \in 1 .. n : s[i] \in Nat \X Nat
    <3>1. \A a, b \in Nat : <<a, b>> \in Nat \X Nat
      OBVIOUS
    <3>2. \A i \in 1 .. n : s[i][1] \in Nat /\ s[i][2] \in Nat /\ s[i] = <<s[i][1], s[i][2]>>
      BY <1>6
    <3>3. \A i \in 1 .. n : <<s[i][1], s[i][2]>> \in Nat \X Nat
      BY <3>1, <3>2
    <3>4. QED
      BY <3>2, <3>3, Zenon
  <2>2. s \in [1 .. n -> Nat \X Nat]
    BY <1>3, <1>5, <2>1
  <2>3. QED
    BY <1>2, <2>2
<1>8. \A i \in 1 .. n : s[i][1] = Upto(s, from, i) + 1
  <2> SUFFICES ASSUME NEW i \in 1 .. n PROVE s[i][1] = Upto(s, from, i) + 1
    OBVIOUS
  <2>1. CASE i = 1
    <3>1. (i - 1) * ChunkSize = 0
      BY <1>1, <2>1
    <3>2. QED
      BY <1>6, <2>1, <3>1 DEF Upto
  <2>2. CASE i # 1
    <3>1. i - 1 \in 1 .. n /\ i - 1 < n
      BY <1>2, <2>2
    <3>2. s[i - 1][2] = from + (i - 1) * ChunkSize
      BY <1>6, <3>1
    <3>3. s[i][1] = from + (i - 1) * ChunkSize + 1
      BY <1>6
    <3>4. QED
      BY <2>2, <3>2, <3>3 DEF Upto
  <2>3. QED
    BY <2>1, <2>2
<1>9. Upto(s, from, n + 1) = to
  <2>1. CASE n = 0
    <3>1. n * ChunkSize = 0
      BY <1>1, <2>1
    <3>2. d = 0
      BY <1>1, <1>2, <3>1
    <3>3. QED
      BY <2>1, <3>2 DEF Upto
  <2>2. CASE n # 0
    <3>1. n \in 1 .. n /\ n + 1 # 1 /\ (n + 1) - 1 = n
      BY <1>2, <2>2
    <3>2. s[n][2] = to
      BY <1>6, <3>1
    <3>3. QED
      BY <3>1, <3>2 DEF Upto
  <2>3. QED
    BY <2>1, <2>2
<1>10. QED
  BY <1>5, <1>6, <1>7, <1>8, <1>9 DEF Covers, s

\* So do the first k chunks, up to where the last of them ends.
LEMMA FirstCover ==
  ASSUME NEW s, NEW start \in Nat, NEW stop \in Nat, Covers(s, start, stop),
         NEW k \in 1 .. Len(s)
  PROVE  Covers(SubSeq(s, 1, k), start, s[k][2])
<1> DEFINE t == SubSeq(s, 1, k)
<1>1. s \in Seq(Nat \X Nat) /\ Len(s) \in Nat /\ \A i \in 1 .. Len(s) : s[i] \in Nat \X Nat
  BY LenProperties DEF Covers
<1>2. k \in Nat /\ 1 <= k /\ k - 1 + 1 = k /\ \A i \in 1 .. k : i \in 1 .. Len(s) /\ 1 + i - 1 = i
  BY <1>1
<1>3. /\ t \in Seq(Nat \X Nat)
      /\ Len(t) = IF 1 <= k THEN k - 1 + 1 ELSE 0
      /\ \A i \in 1 .. k - 1 + 1 : t[i] = s[1 + i - 1]
  <2>1. 1 \in Int /\ k \in Int /\ \A i \in 1 .. k : s[i] \in Nat \X Nat
    BY <1>1, <1>2
  <2>2. QED
    BY <2>1, SubSeqProperties
<1> HIDE DEF t
<1>4. Len(t) = k /\ \A i \in 1 .. k : t[i] = s[i]
  BY <1>2, <1>3
<1>5. \A i \in 1 .. k + 1 : Upto(t, start, i) = Upto(s, start, i)
  <2>1. \A i \in 1 .. k + 1 : i # 1 => i - 1 \in 1 .. k
    BY <1>2
  <2>2. QED
    BY <1>4, <2>1 DEF Upto
<1>6. \A i \in 1 .. k :
        t[i][1] = Upto(t, start, i) + 1 /\ t[i][2] - t[i][1] \in 0 .. ChunkSize - 1
  <2>1. \A i \in 1 .. k : i \in 1 .. k + 1
    BY <1>2
  <2>2. QED
    BY <1>2, <1>4, <1>5, <2>1 DEF Covers
<1>7. Upto(t, start, k + 1) = s[k][2]
  BY <1>2, <1>4 DEF Upto
<1>8. QED
  BY <1>3, <1>4, <1>6, <1>7 DEF Covers, t

\* Chunks that cover the prompt of a step, or where it stopped.
LEMMA CoversFed ==
  ASSUME NEW last \in Nat, Covers(fed', result'.cached, last), last <= Len(result'.prompt),
         result'.ended = "ok" => last = Len(result'.prompt)
  PROVE  EveryTokenFedOnce'
<1>1. DOMAIN fed' = 1 .. Len(fed')
  BY LenProperties DEF Covers
<1>2. QED
  BY <1>1 DEF Covers, Upto, EveryTokenFedOnce

-----------------------------------------------------------------------------
(* Timestamps and order.                                                   *)

Stamp(es, k) == es[k].last_access
Order(es) == {p \in (DOMAIN es) \X (DOMAIN es) : Stamp(es, p[1]) < Stamp(es, p[2])}

\* es with a later timestamp for key, which may be new.
Stamped(es, es2, key, u) ==
  /\ DOMAIN es2 = DOMAIN es \cup {key}
  /\ es2 \in [DOMAIN es2 -> Entry]
  /\ Stamp(es2, key) = u
  /\ \A k \in DOMAIN es : k # key => es2[k] = es[k]

LEMMA SamePairs ==
  ASSUME NEW A, NEW B,
         \A p \in A : p = <<p[1], p[2]>>, \A p \in B : p = <<p[1], p[2]>>,
         \A x, y : <<x, y>> \in A <=> <<x, y>> \in B
  PROVE  A = B
<1>1. \A p \in A : p \in B
  <2> SUFFICES ASSUME NEW p \in A PROVE p \in B
    OBVIOUS
  <2>1. p = <<p[1], p[2]>>
    OBVIOUS
  <2>2. <<p[1], p[2]>> \in B
    BY <2>1, Zenon
  <2>3. QED
    BY <2>1, <2>2, Zenon
<1>2. \A p \in B : p \in A
  <2> SUFFICES ASSUME NEW p \in B PROVE p \in A
    OBVIOUS
  <2>1. p = <<p[1], p[2]>>
    OBVIOUS
  <2>2. <<p[1], p[2]>> \in A
    BY <2>1, Zenon
  <2>3. QED
    BY <2>1, <2>2, Zenon
<1>3. QED
  BY <1>1, <1>2

\* The key stamped last is last in the order.
LEMMA StampedLast ==
  ASSUME NEW es, NEW es2, NEW t \in Nat, NEW u \in Nat, NEW key \in Prompts,
         Timed(es, t), t < u, Stamped(es, es2, key, u)
  PROVE  /\ Timed(es2, u)
         /\ Order(es2) = Lru!Last(Order(es), DOMAIN es, key)
<1>1. /\ DOMAIN es2 = DOMAIN es \cup {key} /\ Stamp(es2, key) = u
      /\ \A k \in DOMAIN es : k # key => Stamp(es2, k) = Stamp(es, k)
  BY DEF Stamped, Stamp
<1>2. /\ \A k \in DOMAIN es : Stamp(es, k) \in Nat /\ Stamp(es, k) <= t
      /\ \A k, q \in DOMAIN es : Stamp(es, k) = Stamp(es, q) => k = q
      /\ DOMAIN es \subseteq Prompts
  BY DEF Timed, Stamp, Entry
<1>3. Timed(es2, u)
  <2>1. \A k \in DOMAIN es2 : Stamp(es2, k) <= u
    BY <1>1, <1>2
  <2>2. \A k, q \in DOMAIN es2 : Stamp(es2, k) = Stamp(es2, q) => k = q
    BY <1>1, <1>2
  <2>3. QED
    BY <1>1, <1>2, <2>1, <2>2 DEF Timed, Stamped, Stamp
<1>4. \A k, q : <<k, q>> \in Order(es2) <=> <<k, q>> \in Lru!Last(Order(es), DOMAIN es, key)
  <2> SUFFICES ASSUME NEW k, NEW q
               PROVE  <<k, q>> \in Order(es2) <=> <<k, q>> \in Lru!Last(Order(es), DOMAIN es, key)
    OBVIOUS
  <2>1. <<k, q>> \in Order(es2) <=>
          k \in DOMAIN es2 /\ q \in DOMAIN es2 /\ Stamp(es2, k) < Stamp(es2, q)
    BY DEF Order
  <2>2. <<k, q>> \in Order(es) <=>
          k \in DOMAIN es /\ q \in DOMAIN es /\ Stamp(es, k) < Stamp(es, q)
    BY DEF Order
  <2>3. <<k, q>> \in Lru!Last(Order(es), DOMAIN es, key) <=>
          \/ <<k, q>> \in Order(es) /\ k # key /\ q # key
          \/ k \in DOMAIN es \ {key} /\ q = key
    BY DEF Lru!Last, Lru!Without
  <2>4. QED
    BY <1>1, <1>2, <2>1, <2>2, <2>3
<1>5. /\ \A p \in Order(es2) : p = <<p[1], p[2]>>
      /\ \A p \in Lru!Last(Order(es), DOMAIN es, key) : p = <<p[1], p[2]>>
  BY DEF Order, Lru!Last, Lru!Without
<1>6. Order(es2) = Lru!Last(Order(es), DOMAIN es, key)
  BY <1>4, <1>5, SamePairs
<1>7. QED
  BY <1>3, <1>6

\* Without a key, the order is that of the others.
LEMMA RemovedOrder ==
  ASSUME NEW es, NEW t \in Nat, NEW lru, Timed(es, t)
  PROVE  LET es2 == [k \in DOMAIN es \ {lru} |-> es[k]]
         IN  /\ Timed(es2, t) /\ DOMAIN es2 = DOMAIN es \ {lru}
             /\ Order(es2) = Lru!Without(Order(es), lru)
<1> DEFINE es2 == [k \in DOMAIN es \ {lru} |-> es[k]]
<1>1. DOMAIN es2 = DOMAIN es \ {lru} /\ \A k \in DOMAIN es2 : es2[k] = es[k]
  OBVIOUS
<1>2. Timed(es2, t)
  BY DEF Timed
<1> HIDE DEF es2
<1>3. \A k \in DOMAIN es2 : Stamp(es2, k) = Stamp(es, k)
  BY <1>1 DEF Stamp
<1>4. Order(es2) = Lru!Without(Order(es), lru)
  BY <1>1, <1>3 DEF Order, Lru!Without
<1>5. QED
  BY <1>1, <1>2, <1>4 DEF es2

\* The key with the smallest timestamp is the oldest.
LEMMA SmallestOldest ==
  ASSUME NEW es, NEW t \in Nat, Timed(es, t), DOMAIN es # {}
  PROVE  LET lru == CHOOSE k \in DOMAIN es :
                      \A q \in DOMAIN es : es[k].last_access <= es[q].last_access
         IN  lru \in Lru!Oldest(Order(es), DOMAIN es)
<1> DEFINE First(k) == \A q \in DOMAIN es : es[k].last_access <= es[q].last_access
           lru == CHOOSE k \in DOMAIN es : First(k)
<1>1. /\ \A k \in DOMAIN es : Stamp(es, k) \in Nat
      /\ \A k, q \in DOMAIN es : Stamp(es, k) = Stamp(es, q) => k = q
  BY DEF Timed, Stamp, Entry
<1>2. \E k \in DOMAIN es : First(k)
  <2>1. PICK m \in {Stamp(es, k) : k \in DOMAIN es} :
          \A n \in {Stamp(es, k) : k \in DOMAIN es} : m <= n
    <3> DEFINE T == {Stamp(es, k) : k \in DOMAIN es}
    <3>1. T \in SUBSET Nat /\ T # {}
      BY <1>1
    <3> HIDE DEF T
    <3>2. \E m \in T : \A n \in T : m <= n
      BY <3>1, Smallest
    <3>3. QED
      BY <3>2 DEF T
  <2>2. PICK k \in DOMAIN es : m = Stamp(es, k)
    BY <2>1
  <2>3. QED
    BY <2>1, <2>2 DEF Stamp
<1>3. lru \in DOMAIN es /\ First(lru)
  <2> HIDE DEF First
  <2>1. QED
    BY <1>2
<1>4. \A q \in DOMAIN es : Stamp(es, lru) <= Stamp(es, q)
  BY <1>3 DEF Stamp
<1> HIDE DEF lru
<1>5. \A q \in DOMAIN es \ {lru} : Stamp(es, lru) < Stamp(es, q)
  BY <1>1, <1>3, <1>4
<1>6. lru \in Lru!Oldest(Order(es), DOMAIN es)
  BY <1>3, <1>5 DEF Lru!Oldest, Order
<1>7. QED
  BY <1>6 DEF lru

-----------------------------------------------------------------------------
(* What lookup and store do to the cache.                                  *)

\* A hit stamps its key.
LEMMA LookupStamps ==
  ASSUME NEW es, NEW t \in Nat, NEW u \in Nat, NEW key \in DOMAIN es,
         key # <<>>, Timed(es, t)
  PROVE  /\ Stamped(es, LookedUp(es, key, u), key, u)
         /\ DOMAIN LookedUp(es, key, u) = DOMAIN es
<1> DEFINE es2 == [es EXCEPT ![key].last_access = u]
<1>1. LookedUp(es, key, u) = es2
  BY Zenon DEF LookedUp
<1>2. es \in [DOMAIN es -> Entry]
  BY DEF Timed
<1>3. DOMAIN es2 = DOMAIN es
  OBVIOUS
<1>4. es[key] \in Entry /\ es2[key] = [es[key] EXCEPT !.last_access = u]
  BY <1>2
<1>5. es2[key] \in Entry /\ es2[key].last_access = u
  BY <1>4 DEF Entry
<1>6. \A k \in DOMAIN es : k # key => es2[k] = es[k]
  OBVIOUS
<1>7. es2 \in [DOMAIN es -> Entry]
  <2>1. \A k \in DOMAIN es : es2[k] \in Entry
    BY <1>2, <1>5, <1>6
  <2>2. QED
    BY <2>1
<1> HIDE DEF es2
<1>8. QED
  BY <1>1, <1>3, <1>5, <1>6, <1>7 DEF Stamped, Stamp

\* Eviction takes nothing, or the oldest key of a full cache.
LEMMA EvictedIs ==
  ASSUME NEW es, NEW t \in Nat, Timed(es, t), Fits(es)
  PROVE  /\ Timed(Evicted(es), t) /\ IsFiniteSet(DOMAIN Evicted(es))
         /\ Cardinality(DOMAIN Evicted(es)) + 1 <= Room
         /\ \/ /\ ~(Cardinality(DOMAIN es) >= MaxEntries /\ DOMAIN es # {})
               /\ Evicted(es) = es
            \/ /\ Cardinality(DOMAIN es) >= MaxEntries
               /\ \E k \in Lru!Oldest(Order(es), DOMAIN es) :
                    /\ DOMAIN Evicted(es) = DOMAIN es \ {k}
                    /\ Order(Evicted(es)) = Lru!Without(Order(es), k)
<1> DEFINE n == Cardinality(DOMAIN es)
           lru == CHOOSE k \in DOMAIN es :
                    \A q \in DOMAIN es : es[k].last_access <= es[q].last_access
           es2 == [k \in DOMAIN es \ {lru} |-> es[k]]
<1>1. /\ IsFiniteSet(DOMAIN es) /\ n \in Nat /\ n <= Room
      /\ (n = 0 <=> DOMAIN es = {})
  BY FS_CardinalityType, FS_EmptySet DEF Fits
<1>2. MaxEntries \in Nat
  BY PipelineAssumption
<1>3. CASE ~(n >= MaxEntries /\ DOMAIN es # {})
  <2>1. Evicted(es) = es
    BY <1>3, Zenon DEF Evicted
  <2> HIDE DEF n
  <2>2. n + 1 <= Room
    <3>1. \A a, b \in Nat : (a < b \/ a = 0) => a + 1 <= (IF b = 0 THEN 1 ELSE b)
      OBVIOUS
    <3>2. n \in Nat /\ (~(n >= MaxEntries) \/ n = 0)
      BY <1>1, <1>3
    <3>3. n < MaxEntries \/ n = 0
      BY <1>2, <3>2
    <3>4. QED
      BY <1>2, <3>1, <3>2, <3>3 DEF Room
  <2>3. QED
    BY <1>1, <1>3, <2>1, <2>2 DEF n
<1>4. CASE n >= MaxEntries /\ DOMAIN es # {}
  <2>1. Evicted(es) = es2
    BY <1>4, Zenon DEF Evicted
  <2>2. lru \in Lru!Oldest(Order(es), DOMAIN es)
    BY <1>4, SmallestOldest
  <2>3. lru \in DOMAIN es
    BY <2>2 DEF Lru!Oldest
  <2>4. /\ Timed(es2, t) /\ DOMAIN es2 = DOMAIN es \ {lru}
        /\ Order(es2) = Lru!Without(Order(es), lru)
    <3> HIDE DEF lru
    <3>1. QED
      BY RemovedOrder
  <2> HIDE DEF lru, es2
  <2>5. IsFiniteSet(DOMAIN es2) /\ Cardinality(DOMAIN es2) = n - 1
    BY <1>1, <2>3, <2>4, FS_RemoveElement
  <2> HIDE DEF n
  <2>6. n - 1 + 1 <= Room
    BY <1>1
  <2>7. QED
    BY <1>4, <2>1, <2>2, <2>4, <2>5, <2>6 DEF n
<1>5. QED
  BY <1>3, <1>4

\* A store stamps its key, after the eviction.
LEMMA StoreStamps ==
  ASSUME NEW es, NEW t \in Nat, NEW u \in Nat, NEW key \in Prompts, NEW id \in Nat,
         Timed(es, t), Fits(es)
  PROVE  Stamped(Evicted(es), Stored(es, key, id, u), key, u)
<1> DEFINE kept == Evicted(es)
           es2 == [k \in DOMAIN kept \cup {key} |->
                     IF k = key THEN [state_id |-> id, last_access |-> u] ELSE kept[k]]
<1>1. Stored(es, key, id, u) = es2
  BY Zenon DEF Stored
<1>2. kept \in [DOMAIN kept -> Entry]
  BY EvictedIs DEF Timed
<1> HIDE DEF kept
<1>3. DOMAIN es2 = DOMAIN kept \cup {key}
  OBVIOUS
<1>4. es2[key] = [state_id |-> id, last_access |-> u]
  OBVIOUS
<1>5. es2[key] \in Entry /\ es2[key].last_access = u
  BY <1>4 DEF Entry
<1>6. \A k \in DOMAIN kept : k # key => es2[k] = kept[k]
  OBVIOUS
<1>7. es2 \in [DOMAIN es2 -> Entry]
  <2>1. \A k \in DOMAIN kept \cup {key} : es2[k] \in Entry
    BY <1>2, <1>5, <1>6
  <2>2. QED
    BY <2>1
<1> HIDE DEF es2
<1>8. Stamped(kept, es2, key, u)
  BY <1>3, <1>5, <1>6, <1>7 DEF Stamped, Stamp
<1>9. QED
  BY <1>1, <1>8 DEF kept

\* The cache and the order after a use of key, <<>> for none.
Served(es, key) ==
  IF key = <<>> THEN Order(es) ELSE Lru!Last(Order(es), DOMAIN es, key)

LEMMA LookupServes ==
  ASSUME NEW es, NEW t \in Nat, NEW u \in Nat, NEW key, key = <<>> \/ key \in DOMAIN es,
         Timed(es, t), Fits(es), t < u
  PROVE  /\ Timed(LookedUp(es, key, u), u) /\ Fits(LookedUp(es, key, u))
         /\ DOMAIN LookedUp(es, key, u) = DOMAIN es
         /\ Order(LookedUp(es, key, u)) = Served(es, key)
<1>1. CASE key = <<>>
  <2>1. LookedUp(es, key, u) = es
    BY <1>1, Zenon DEF LookedUp
  <2>2. Timed(es, u)
    <3>1. \A k \in DOMAIN es : es[k].last_access \in Nat /\ es[k].last_access <= t
      BY DEF Timed, Entry
    <3>2. \A k \in DOMAIN es : es[k].last_access <= u
      BY <3>1
    <3>3. QED
      BY <3>2 DEF Timed
  <2>3. QED
    BY <1>1, <2>1, <2>2 DEF Served
<1>2. CASE key # <<>>
  <2> DEFINE es2 == LookedUp(es, key, u)
  <2>1. key \in DOMAIN es /\ key \in Prompts
    BY <1>2 DEF Timed
  <2>2. Stamped(es, es2, key, u) /\ DOMAIN es2 = DOMAIN es
    BY <1>2, <2>1, LookupStamps
  <2> HIDE DEF es2
  <2>3. Timed(es2, u) /\ Order(es2) = Lru!Last(Order(es), DOMAIN es, key)
    BY <2>1, <2>2, StampedLast
  <2>4. Fits(es2)
    BY <2>2 DEF Fits
  <2>5. QED
    BY <1>2, <2>2, <2>3, <2>4 DEF Served, es2
<1>3. QED
  BY <1>1, <1>2

\* A cache of keys in that order takes in new: order2 and keys2 are what the
\* abstract cache has after it.
Takes(order, keys, new, order2, keys2) ==
  \/ /\ ~(Cardinality(keys) >= MaxEntries /\ keys # {})
     /\ keys2 = keys \cup {new}
     /\ order2 = Lru!Last(order, keys, new)
  \/ /\ Cardinality(keys) >= MaxEntries
     /\ \E k \in Lru!Oldest(order, keys) :
          /\ keys2 = (keys \ {k}) \cup {new}
          /\ order2 = Lru!Last(Lru!Without(order, k), keys \ {k}, new)

LEMMA StoreTakes ==
  ASSUME NEW es, NEW t \in Nat, NEW u \in Nat, NEW key \in Prompts, NEW id \in Nat,
         Timed(es, t), Fits(es), t < u
  PROVE  LET es2 == Stored(es, key, id, u)
         IN  /\ Timed(es2, u) /\ Fits(es2)
             /\ Takes(Order(es), DOMAIN es, key, Order(es2), DOMAIN es2)
<1> DEFINE es2 == Stored(es, key, id, u)
           kept == Evicted(es)
<1>1. /\ Timed(kept, t) /\ IsFiniteSet(DOMAIN kept)
      /\ Cardinality(DOMAIN kept) + 1 <= Room
  BY EvictedIs
<1>2. \/ /\ ~(Cardinality(DOMAIN es) >= MaxEntries /\ DOMAIN es # {})
         /\ kept = es
      \/ /\ Cardinality(DOMAIN es) >= MaxEntries
         /\ \E k \in Lru!Oldest(Order(es), DOMAIN es) :
              /\ DOMAIN kept = DOMAIN es \ {k}
              /\ Order(kept) = Lru!Without(Order(es), k)
  BY EvictedIs
<1>3. Stamped(kept, es2, key, u)
  BY StoreStamps
<1> HIDE DEF es2, kept
<1>4. Timed(es2, u) /\ Order(es2) = Lru!Last(Order(kept), DOMAIN kept, key)
  BY <1>1, <1>3, StampedLast
<1>5. DOMAIN es2 = DOMAIN kept \cup {key}
  BY <1>3 DEF Stamped
<1>6. Fits(es2)
  <2>1. /\ IsFiniteSet(DOMAIN es2)
        /\ Cardinality(DOMAIN es2) =
             IF key \in DOMAIN kept THEN Cardinality(DOMAIN kept)
                                    ELSE Cardinality(DOMAIN kept) + 1
    BY <1>1, <1>5, FS_AddElement
  <2>2. Cardinality(DOMAIN kept) \in Nat
    BY <1>1, FS_CardinalityType
  <2>3. Room \in Nat
    BY PipelineAssumption DEF Room
  <2>4. Cardinality(DOMAIN es2) <= Room
    BY <1>1, <2>1, <2>2, <2>3
  <2>5. QED
    BY <2>1, <2>4 DEF Fits
<1>7. Takes(Order(es), DOMAIN es, key, Order(es2), DOMAIN es2)
  <2>1. CASE ~(Cardinality(DOMAIN es) >= MaxEntries /\ DOMAIN es # {}) /\ kept = es
    BY <1>4, <1>5, <2>1, Zenon DEF Takes
  <2>2. CASE /\ Cardinality(DOMAIN es) >= MaxEntries
             /\ \E k \in Lru!Oldest(Order(es), DOMAIN es) :
                  /\ DOMAIN kept = DOMAIN es \ {k}
                  /\ Order(kept) = Lru!Without(Order(es), k)
    <3>1. PICK k \in Lru!Oldest(Order(es), DOMAIN es) :
            /\ DOMAIN kept = DOMAIN es \ {k}
            /\ Order(kept) = Lru!Without(Order(es), k)
      BY <2>2
    <3>2. /\ DOMAIN es2 = (DOMAIN es \ {k}) \cup {key}
          /\ Order(es2) = Lru!Last(Lru!Without(Order(es), k), DOMAIN es \ {k}, key)
      BY <1>4, <1>5, <3>1, Zenon
    <3>3. QED
      BY <2>2, <3>2, Zenon DEF Takes
  <2>3. QED
    BY <1>2, <2>1, <2>2, Zenon
<1>8. QED
  BY <1>4, <1>6, <1>7 DEF es2

-----------------------------------------------------------------------------
(* The invariant holds.                                                    *)

LEMMA InitInv == Init => PInv
<1> SUFFICES ASSUME Init PROVE PInv
  OBVIOUS
<1>1. /\ DOMAIN entries = {} /\ access_counter = 0 /\ state_counter = 0 /\ fed = <<>>
      /\ result = [prompt |-> <<>>, cached |-> 0, ended |-> "none"]
  BY DEF Init
<1>2. PipelineTypeOK
  BY <1>1, EmptySeq DEF PipelineTypeOK
<1>3. Timed(entries, access_counter)
  BY DEF Timed, Init
<1>4. Fits(entries)
  BY <1>1, FS_EmptySet, PipelineAssumption DEF Fits, Room
<1>5. EveryTokenFedOnce
  BY <1>1, EmptySeq DEF EveryTokenFedOnce
<1>6. QED
  BY <1>2, <1>3, <1>4, <1>5 DEF PInv

\* What a run starts with: nothing if the cache is off.
Start(tokens, enabled) == IF enabled THEN Hit(tokens) ELSE <<>>

LEMMA StartIs ==
  ASSUME NEW tokens \in Prompts, NEW enabled \in BOOLEAN
  PROVE  /\ Len(Start(tokens, enabled)) \in 0 .. Len(tokens)
         /\ Prefix(tokens, Len(Start(tokens, enabled))) = Start(tokens, enabled)
         /\ \/ Start(tokens, enabled) = <<>>
            \/ enabled /\ Start(tokens, enabled) \in DOMAIN entries
<1>1. tokens \in Seq(Tokens) /\ Len(tokens) \in Nat
  BY PipelineAssumption
<1>2. Prefix(tokens, 0) = <<>> /\ Len(<<>>) = 0 /\ 0 \in 0 .. Len(tokens)
  <2>1. Prefix(tokens, 0) \in Seq(Tokens) /\ Len(Prefix(tokens, 0)) = 0
    BY <1>1, PrefixIs
  <2>2. QED
    BY <1>1, <2>1, EmptySeq
<1>3. CASE enabled
  <2>1. PICK n \in 0 .. Len(tokens) :
          /\ Hit(tokens) = Prefix(tokens, n) /\ Len(Hit(tokens)) = n
          /\ n = 0 => Hit(tokens) = <<>>
          /\ n # 0 => Hit(tokens) # <<>> /\ Hit(tokens) \in DOMAIN entries
    BY HitIs
  <2>2. QED
    BY <1>3, <2>1 DEF Start
<1>4. CASE ~enabled
  BY <1>2, <1>4 DEF Start
<1>5. QED
  BY <1>3, <1>4

\* What a run does to the cache, whatever becomes of it: the lookup first.
Before(tokens, enabled) == IF enabled THEN access_counter + 1 ELSE access_counter
Looked(tokens, enabled) ==
  IF enabled THEN LookedUp(entries, Hit(tokens), access_counter + 1) ELSE entries

LEMMA LookedIs ==
  ASSUME PInv, NEW tokens \in Prompts, NEW enabled \in BOOLEAN
  PROVE  LET es == Looked(tokens, enabled)
         IN  /\ Before(tokens, enabled) \in Nat
             /\ Timed(es, Before(tokens, enabled)) /\ Fits(es)
             /\ DOMAIN es = DOMAIN entries
             /\ Order(es) = Served(entries, Start(tokens, enabled))
<1>1. access_counter \in Nat /\ Timed(entries, access_counter) /\ Fits(entries)
  BY DEF PInv, PipelineTypeOK
<1>2. CASE enabled
  <2>1. Start(tokens, enabled) = Hit(tokens)
    BY <1>2 DEF Start
  <2>2. Hit(tokens) = <<>> \/ Hit(tokens) \in DOMAIN entries
    BY <2>1, StartIs
  <2>3. access_counter + 1 \in Nat /\ access_counter < access_counter + 1
    BY <1>1
  <2>4. LET es == LookedUp(entries, Hit(tokens), access_counter + 1)
        IN  /\ Timed(es, access_counter + 1) /\ Fits(es)
            /\ DOMAIN es = DOMAIN entries
            /\ Order(es) = Served(entries, Hit(tokens))
    BY <1>1, <2>2, <2>3, LookupServes
  <2>5. QED
    BY <1>2, <2>1, <2>3, <2>4 DEF Looked, Before
<1>3. CASE ~enabled
  <2>1. Start(tokens, enabled) = <<>> /\ Looked(tokens, enabled) = entries
    BY <1>3 DEF Start, Looked
  <2>2. Served(entries, <<>>) = Order(entries)
    BY DEF Served
  <2>3. QED
    BY <1>1, <1>3, <2>1, <2>2 DEF Before
<1>4. QED
  BY <1>2, <1>3

LEMMA RunIs ==
  ASSUME PInv, NEW tokens \in Prompts, NEW enabled \in BOOLEAN, Run(tokens, enabled)
  PROVE  /\ PInv'
         /\ Prefix(result.prompt, result.cached)' = Start(tokens, enabled)
         /\ Takes(Served(entries, Start(tokens, enabled)), DOMAIN entries, tokens,
                  Order(entries'), DOMAIN entries')
<1> DEFINE hit == Start(tokens, enabled)
           es == Looked(tokens, enabled)
           t == Before(tokens, enabled)
<1>1. /\ access_counter' = t + 1 /\ state_counter' = state_counter + 1
      /\ entries' = Stored(es, tokens, state_counter', access_counter')
      /\ fed' = Chunks(Len(hit), Len(tokens))
      /\ result' = [prompt |-> tokens, cached |-> Len(hit), ended |-> "ok"]
  <2>1. CASE enabled
    BY <2>1 DEF Run, Start, Looked, Before, StoredKey
  <2>2. CASE ~enabled
    BY <2>2 DEF Run, Start, Looked, Before, StoredKey, PInv, PipelineTypeOK
  <2>3. QED
    BY <2>1, <2>2
<1>2. /\ Len(hit) \in 0 .. Len(tokens) /\ Prefix(tokens, Len(hit)) = hit
  BY StartIs
<1>3. t \in Nat /\ Timed(es, t) /\ Fits(es) /\ DOMAIN es = DOMAIN entries
      /\ Order(es) = Served(entries, hit)
  BY LookedIs
<1>4. tokens \in Seq(Tokens) /\ Len(tokens) \in Nat
  BY PipelineAssumption
<1>5. access_counter' \in Nat /\ t < access_counter' /\ state_counter' \in Nat
  <2> HIDE DEF t
  <2>1. QED
    BY <1>1, <1>3 DEF PInv, PipelineTypeOK
<1> HIDE DEF hit, es, t
<1>6. /\ Timed(entries', access_counter') /\ Fits(entries')
      /\ Takes(Order(es), DOMAIN es, tokens, Order(entries'), DOMAIN entries')
  <2> DEFINE u == access_counter'
             id == state_counter'
  <2>1. u \in Nat /\ id \in Nat /\ t < u /\ entries' = Stored(es, tokens, id, u)
    BY <1>1, <1>5
  <2> HIDE DEF u, id
  <2>2. LET es2 == Stored(es, tokens, id, u)
        IN  /\ Timed(es2, u) /\ Fits(es2)
            /\ Takes(Order(es), DOMAIN es, tokens, Order(es2), DOMAIN es2)
    BY <1>3, <2>1, StoreTakes
  <2>3. QED
    BY <2>1, <2>2, Zenon DEF u
<1>7. Covers(fed', Len(hit), Len(tokens))
  <2>1. Len(hit) \in Nat /\ Len(hit) <= Len(tokens)
    BY <1>2, <1>4
  <2>2. Covers(Chunks(Len(hit), Len(tokens)), Len(hit), Len(tokens))
    BY <1>4, <2>1, ChunksCover
  <2>3. QED
    BY <1>1, <2>2
<1>8. EveryTokenFedOnce'
  BY <1>1, <1>2, <1>4, <1>7, CoversFed
<1>9. PipelineTypeOK'
  BY <1>1, <1>2, <1>4, <1>5, <1>7 DEF PipelineTypeOK, Covers
<1>10. PInv'
  BY <1>6, <1>8, <1>9 DEF PInv, Timed, Fits
<1>11. Prefix(result.prompt, result.cached)' = hit
  BY <1>1, <1>2 DEF Prefix
<1>12. QED
  BY <1>3, <1>6, <1>10, <1>11 DEF hit

LEMMA RunFailsIs ==
  ASSUME PInv, NEW tokens \in Prompts, NEW enabled \in BOOLEAN, RunFails(tokens, enabled)
  PROVE  /\ PInv'
         /\ Prefix(result.prompt, result.cached)' = Start(tokens, enabled)
         /\ DOMAIN entries' = DOMAIN entries
         /\ Order(entries') = Served(entries, Start(tokens, enabled))
<1> DEFINE hit == Start(tokens, enabled)
           es == Looked(tokens, enabled)
           t == Before(tokens, enabled)
           chunks == Chunks(Len(hit), Len(tokens))
<1>1. /\ access_counter' = t /\ state_counter' = state_counter
      /\ entries' = es
      /\ \E n \in 1 .. Len(chunks) : fed' = SubSeq(chunks, 1, n)
      /\ result' = [prompt |-> tokens, cached |-> Len(hit), ended |-> "error"]
  <2>1. CASE enabled
    BY <2>1 DEF RunFails, Start, Looked, Before
  <2>2. CASE ~enabled
    BY <2>2 DEF RunFails, Start, Looked, Before
  <2>3. QED
    BY <2>1, <2>2
<1>2. /\ Len(hit) \in 0 .. Len(tokens) /\ Prefix(tokens, Len(hit)) = hit
  BY StartIs
<1>3. t \in Nat /\ Timed(es, t) /\ Fits(es) /\ DOMAIN es = DOMAIN entries
      /\ Order(es) = Served(entries, hit)
  BY LookedIs
<1>4. tokens \in Seq(Tokens) /\ Len(tokens) \in Nat
  BY PipelineAssumption
<1> HIDE DEF hit, es, t
<1>5. Covers(chunks, Len(hit), Len(tokens)) /\ \A i \in 1 .. Len(chunks) : chunks[i][2] <= Len(tokens)
  <2>1. Len(hit) \in Nat /\ Len(hit) <= Len(tokens)
    BY <1>2, <1>4
  <2>2. QED
    BY <1>4, <2>1, ChunksCover
<1> HIDE DEF chunks
<1>6. PICK n \in 1 .. Len(chunks) : fed' = SubSeq(chunks, 1, n)
  BY <1>1
<1>7. chunks[n][2] \in Nat /\ chunks[n][2] <= Len(tokens)
  <2>1. chunks[n] \in Nat \X Nat
    BY <1>5, <1>6 DEF Covers
  <2>2. QED
    BY <1>5, <1>6, <2>1
<1>8. Covers(fed', Len(hit), chunks[n][2])
  BY <1>2, <1>4, <1>5, <1>6, FirstCover
<1>9. EveryTokenFedOnce'
  BY <1>1, <1>7, <1>8, CoversFed
<1>10. PipelineTypeOK'
  BY <1>1, <1>2, <1>3, <1>4, <1>8 DEF PInv, PipelineTypeOK, Covers
<1>11. PInv'
  BY <1>1, <1>3, <1>9, <1>10 DEF PInv, Timed, Fits
<1>12. Prefix(result.prompt, result.cached)' = hit
  BY <1>1, <1>2 DEF Prefix
<1>13. QED
  BY <1>1, <1>3, <1>11, <1>12 DEF hit

LEMMA ResetInv ==
  ASSUME PInv, Reset
  PROVE  PInv' /\ DOMAIN entries' = {} /\ UNCHANGED <<fed, result>>
<1>1. /\ DOMAIN entries' = {} /\ access_counter' = 0 /\ state_counter' = 0
      /\ fed' = fed /\ result' = result
  BY DEF Reset
<1>2. PipelineTypeOK'
  BY <1>1 DEF PInv, PipelineTypeOK
<1>3. Timed(entries, access_counter)'
  BY DEF Timed, Reset
<1>4. Fits(entries)'
  BY <1>1, FS_EmptySet, PipelineAssumption DEF Fits, Room
<1>5. EveryTokenFedOnce'
  BY <1>1 DEF PInv, EveryTokenFedOnce
<1>6. QED
  BY <1>1, <1>2, <1>3, <1>4, <1>5 DEF PInv

LEMMA Inductive == PInv /\ [Next]_vars => PInv'
<1> SUFFICES ASSUME PInv, [Next]_vars PROVE PInv'
  OBVIOUS
<1>1. CASE \E tokens \in Prompts, enabled \in BOOLEAN : Run(tokens, enabled)
  BY <1>1, RunIs
<1>2. CASE \E tokens \in Prompts, enabled \in BOOLEAN : RunFails(tokens, enabled)
  BY <1>2, RunFailsIs
<1>3. CASE Reset
  BY <1>3, ResetInv
<1>4. CASE UNCHANGED vars
  BY <1>4 DEF vars, PInv, PipelineTypeOK, Timed, Fits, EveryTokenFedOnce
<1>5. QED
  BY <1>1, <1>2, <1>3, <1>4 DEF Next

LEMMA Always == Spec => []PInv
<1>1. Init => PInv
  BY InitInv
<1>2. PInv /\ [Next]_vars => PInv'
  BY Inductive
<1>3. QED
  BY <1>1, <1>2, PTL DEF Spec

\* The values of the pipeline's variables: the keys are prompts, no two of
\* them were last used at the same time, and none after the last use.
THEOREM PipelineTypes == Spec => [](PipelineTypeOK /\ Timed(entries, access_counter))
<1>1. PInv => PipelineTypeOK /\ Timed(entries, access_counter)
  BY DEF PInv
<1>2. QED
  BY <1>1, Always, PTL

\* run feeds forward_fn every token after the cached prefix exactly once and
\* in order, and a run that fails has fed a prefix of them.
THEOREM FedOnce == Spec => []EveryTokenFedOnce
<1>1. PInv => EveryTokenFedOnce
  BY DEF PInv
<1>2. QED
  BY <1>1, Always, PTL

\* store never lets the cache grow past max_entries; at a limit of 0 it still
\* keeps the entry it has just inserted.
THEOREM CacheBounded == Spec => []Fits(entries)
<1>1. PInv => Fits(entries)
  BY DEF PInv
<1>2. QED
  BY <1>1, Always, PTL

-----------------------------------------------------------------------------
(* The cache implements LruOrder.                                          *)

\* A step that was served from k, and stored what the run ends with if it did.
LEMMA ServeStep ==
  ASSUME NEW k, k = <<>> \/ k \in DOMAIN entries,
         Prefix(result.prompt, result.cached)' = k,
         \/ Order(entries') = Served(entries, k) /\ DOMAIN entries' = DOMAIN entries
         \/ \E new \in Prompts :
              Takes(Served(entries, k), DOMAIN entries, new, Order(entries'), DOMAIN entries')
  PROVE  Lru!Serve(k)
<1>1. Served(entries, k) = Lru!Used(k)
  BY Zenon DEF Served, Lru!Used, Order, Stamp
<1>2. ASSUME Order(entries') = Served(entries, k) /\ DOMAIN entries' = DOMAIN entries
      PROVE  Lru!Serve(k)
  BY <1>1, <1>2 DEF Lru!Serve, Order, Stamp
<1>3. ASSUME NEW new \in Prompts,
             Takes(Served(entries, k), DOMAIN entries, new, Order(entries'), DOMAIN entries')
      PROVE  Lru!Serve(k)
  <2>1. Takes(Lru!Used(k), DOMAIN entries, new, Order(entries'), DOMAIN entries')
    BY <1>1, <1>3
  <2>2. \A S : Lru!Cardinality(S) = Cardinality(S)
    BY Zenon DEF Cardinality, Lru!Cardinality
  <2>3. QED
    BY <1>3, <2>1, <2>2 DEF Takes, Lru!Put, Lru!Serve, Order, Stamp
<1>4. QED
  BY <1>2, <1>3

LEMMA LruInit == Init => Lru!Init
<1> SUFFICES ASSUME Init PROVE Lru!Init
  OBVIOUS
<1>1. DOMAIN entries = {} /\ result.prompt = <<>> /\ result.cached = 0
  BY DEF Init
<1>2. Prefix(<<>>, 0) = <<>>
  <2>1. /\ SubSeq(<<>>, 1, 0) \in Seq(Tokens)
        /\ Len(SubSeq(<<>>, 1, 0)) = IF 1 <= 0 THEN 0 - 1 + 1 ELSE 0
    <3>1. <<>> \in Seq(Tokens) /\ 1 \in Int /\ 0 \in Int /\ \A i \in 1 .. 0 : <<>>[i] \in Tokens
      OBVIOUS
    <3>2. QED
      BY <3>1, SubSeqProperties
  <2>2. QED
    BY <2>1, EmptySeq DEF Prefix
<1>3. QED
  BY <1>1, <1>2 DEF Lru!Init

LEMMA LruStep == PInv /\ [Next]_vars => [Lru!Next]_Lru!lvars
<1> SUFFICES ASSUME PInv, [Next]_vars PROVE [Lru!Next]_Lru!lvars
  OBVIOUS
<1>1. ASSUME NEW k \in Prompts \cup {<<>>}, Lru!Serve(k) PROVE Lru!Next
  BY <1>1, Zenon DEF Lru!Next
<1>2. DOMAIN entries \subseteq Prompts
  BY DEF PInv, Timed
<1>3. ASSUME NEW tokens \in Prompts, NEW enabled \in BOOLEAN, Run(tokens, enabled)
      PROVE  Lru!Next
  <2>0. PICK k : k = Start(tokens, enabled)
    OBVIOUS
  <2>1. k = <<>> \/ k \in DOMAIN entries
    BY <2>0, StartIs
  <2>2. Prefix(result.prompt, result.cached)' = k
    BY <1>3, <2>0, RunIs
  <2>3. Takes(Served(entries, k), DOMAIN entries, tokens, Order(entries'), DOMAIN entries')
    BY <1>3, <2>0, RunIs
  <2>4. Lru!Serve(k)
    BY <2>1, <2>2, <2>3, ServeStep
  <2>5. QED
    BY <1>1, <1>2, <2>1, <2>4
<1>4. ASSUME NEW tokens \in Prompts, NEW enabled \in BOOLEAN, RunFails(tokens, enabled)
      PROVE  Lru!Next
  <2>0. PICK k : k = Start(tokens, enabled)
    OBVIOUS
  <2>1. k = <<>> \/ k \in DOMAIN entries
    BY <2>0, StartIs
  <2>2. Prefix(result.prompt, result.cached)' = k
    BY <1>4, <2>0, RunFailsIs
  <2>3. Order(entries') = Served(entries, k) /\ DOMAIN entries' = DOMAIN entries
    BY <1>4, <2>0, RunFailsIs
  <2>4. Lru!Serve(k)
    BY <2>1, <2>2, <2>3, ServeStep
  <2>5. QED
    BY <1>1, <1>2, <2>1, <2>4
<1>5. CASE Reset
  <2>1. DOMAIN entries' = {} /\ UNCHANGED <<fed, result>>
    BY <1>5, ResetInv
  <2>2. Lru!Clear
    BY <2>1 DEF Lru!Clear
  <2>3. QED
    BY <2>2 DEF Lru!Next
<1>6. CASE UNCHANGED vars
  BY <1>6 DEF vars, Lru!lvars
<1>7. QED
  BY <1>3, <1>4, <1>5, <1>6 DEF Next

\* The timestamps keep least-recently-used order: what store evicts is what a
\* cache that knows the order of all uses gives up, with every hit counted as
\* a use, also when forward_fn then failed.
THEOREM LruImplemented == Spec => ImplementsLru
<1>1. Init => Lru!Init
  BY LruInit
<1>2. PInv /\ [Next]_vars => [Lru!Next]_Lru!lvars
  BY LruStep
<1>3. QED
  BY <1>1, <1>2, Always, PTL DEF Spec, ImplementsLru, Lru!Spec
=============================================================================
