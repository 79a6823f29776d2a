---------------------------- MODULE LayersProofs ----------------------------
(***************************************************************************)
(* Proofs about the layers of the model library: attention over its caches *)
(* for every window, every length of chunks and any number of rows; the    *)
(* gated delta layer for every kernel, every number of heads and calls of  *)
(* any length; routing for batches of any size over any number of experts; *)
(* and the sampler for every vocabulary, top_k and top_p.                  *)
(***************************************************************************)
EXTENDS MCLayers, SequenceTheorems, FiniteSetTheorems, WellFoundedInduction, TLAPS

-----------------------------------------------------------------------------
(* Attention.                                                              *)

Caches == [k : Seq(Nat), v : Seq(Nat), len : Nat, write_pos : Nat]

\* What keeps K and V of a concat or fp8 cache from meeting again once they
\* have come apart: K is longer, and stays longer.
PairsInv ==
  kind # "rotating" => cache.k = cache.v \/ Len(cache.v) < Len(cache.k)

-----------------------------------------------------------------------------
(* Rows.                                                                   *)

\* m consecutive positions from a + 1 on.
Run(a, m) == [i \in 1 .. m |-> a + i]

\* A run is a sequence of m positions.
LEMMA RunType ==
  ASSUME NEW a \in Nat, NEW m \in Nat
  PROVE  Run(a, m) \in Seq(Nat) /\ Len(Run(a, m)) = m
BY DEF Run

\* A run and the run after it are one run.
LEMMA RunConcat ==
  ASSUME NEW a \in Nat, NEW m \in Nat, NEW n \in Nat
  PROVE  Run(a, m) \o Run(a + m, n) = Run(a, m + n)
BY DEF Run

\* A slice up to the end of a run is a run.
LEMMA RunSlice ==
  ASSUME NEW a \in Nat, NEW m \in Nat, NEW s \in 0 .. m
  PROVE  Slice(Run(a, m), s, m) = Run(a + s, m - s)
BY DEF Run, Slice

\* Of m rows that end at f, and n more, the last w.
LEMMA CutOff ==
  ASSUME NEW f \in Nat, NEW m \in 0 .. f, NEW n \in Nat, NEW w \in Nat, m + n > w
  PROVE  /\ f - m \in Nat /\ (m + n) - w \in 0 .. (m + n)
         /\ (f - m) + ((m + n) - w) = f + n - w
         /\ (m + n) - ((m + n) - w) = w
         /\ f + n \in Nat /\ f + n - w \in Nat
OBVIOUS

\* Two sequences concatenated.
LEMMA ConcatType ==
  ASSUME NEW s \in Seq(Nat), NEW t \in Seq(Nat)
  PROVE  /\ s \o t \in Seq(Nat) /\ Len(s \o t) = Len(s) + Len(t)
         /\ Len(s) \in Nat /\ Len(t) \in Nat
OBVIOUS

\* A slice of a sequence is one, and one up to the end has the length asked.
LEMMA SliceType ==
  ASSUME NEW rows \in Seq(Nat), NEW s \in Nat, NEW e \in Nat
  PROVE  /\ Slice(rows, s, e) \in Seq(Nat)
         /\ e = Len(rows) /\ s <= e => Len(Slice(rows, s, e)) = e - s
BY DEF Slice

-----------------------------------------------------------------------------
(* What append leaves.                                                     *)

\* Done and Failed taken apart.
LEMMA Outcomes ==
  \A c : /\ Done(c).ok /\ Done(c).cache = c
         /\ ~Failed(c).ok /\ Failed(c).cache = c
BY DEF Done, Failed

\* The types of the pieces append is made from.
LEMMA Pieces ==
  ASSUME TypeOK, NEW n \in Nat
  PROVE  /\ cache \in Caches
         /\ cache.k \in Seq(Nat) /\ cache.v \in Seq(Nat)
         /\ cache.len \in Nat /\ cache.write_pos \in Nat
         /\ cache.len + n \in Nat
         /\ Chunk(n) \in Seq(Nat) /\ Len(Chunk(n)) = n
         /\ cache.k \o Chunk(n) \in Seq(Nat)
         /\ cache.v \o Chunk(n) \in Seq(Nat)
         /\ Len(cache.k \o Chunk(n)) = Len(cache.k) + n
         /\ Len(cache.v \o Chunk(n)) = Len(cache.v) + n
         /\ Len(cache.k) \in Nat /\ Len(cache.v) \in Nat
<1>1. cache \in Caches
  BY DEF TypeOK, Caches
<1>2. /\ cache.k \in Seq(Nat) /\ cache.v \in Seq(Nat)
      /\ cache.len \in Nat /\ cache.write_pos \in Nat
  BY <1>1 DEF Caches
<1>3. Chunk(n) \in Seq(Nat) /\ Len(Chunk(n)) = n
  BY DEF Chunk, TypeOK
<1>4. /\ cache.k \o Chunk(n) \in Seq(Nat)
      /\ Len(cache.k \o Chunk(n)) = Len(cache.k) + n
      /\ Len(cache.k) \in Nat
  <2> DEFINE s == cache.k
             c == Chunk(n)
  <2>1. s \in Seq(Nat) /\ c \in Seq(Nat) /\ Len(c) = n
    BY <1>2, <1>3
  <2> HIDE DEF s, c
  <2>2. s \o c \in Seq(Nat) /\ Len(s \o c) = Len(s) + n /\ Len(s) \in Nat
    BY <2>1, ConcatType
  <2>3. QED
    BY <2>2 DEF s, c
<1>5. /\ cache.v \o Chunk(n) \in Seq(Nat)
      /\ Len(cache.v \o Chunk(n)) = Len(cache.v) + n
      /\ Len(cache.v) \in Nat
  <2> DEFINE s == cache.v
             c == Chunk(n)
  <2>1. s \in Seq(Nat) /\ c \in Seq(Nat) /\ Len(c) = n
    BY <1>2, <1>3
  <2> HIDE DEF s, c
  <2>2. s \o c \in Seq(Nat) /\ Len(s \o c) = Len(s) + n /\ Len(s) \in Nat
    BY <2>1, ConcatType
  <2>3. QED
    BY <2>2 DEF s, c
<1>6. cache.len + n \in Nat
  BY <1>2
<1> QED
  BY <1>1, <1>2, <1>3, <1>4, <1>5, <1>6

\* Whatever append returns, the fields keep their types, and a rotating cache
\* its bound.
LEMMA AppendTypes ==
  ASSUME TypeOK, NEW n \in Nat, NEW out \in AppendTo(n)
  PROVE  /\ out.cache \in Caches
         /\ kind = "rotating" => Len(out.cache.k) <= Window
<1> DEFINE full_k == cache.k \o Chunk(n)
           full_v == cache.v \o Chunk(n)
           size == Len(full_k)
           new_k == Slice(full_k, size - Window, size)
           new_v == Slice(full_v, size - Window, size)
           total == cache.len + n
<1>0. /\ cache \in Caches
      /\ cache.k \in Seq(Nat) /\ cache.v \in Seq(Nat)
      /\ cache.len \in Nat /\ cache.write_pos \in Nat
      /\ Chunk(n) \in Seq(Nat) /\ Len(Chunk(n)) = n
      /\ kind = "rotating" => Len(cache.k) <= Window
  BY Pieces DEF TypeOK
<1>1. /\ full_k \in Seq(Nat) /\ full_v \in Seq(Nat) /\ size \in Nat
      /\ total \in Nat /\ Window \in Nat
  <2>1. full_k \in Seq(Nat) /\ full_v \in Seq(Nat) /\ total \in Nat
    BY Pieces
  <2> QED
    BY <2>1, SizesAssumption
<1>2. size > Window => /\ new_k \in Seq(Nat) /\ new_v \in Seq(Nat)
                       /\ Len(new_k) = Window
  <2> SUFFICES ASSUME size > Window
               PROVE  /\ new_k \in Seq(Nat) /\ new_v \in Seq(Nat)
                      /\ Len(new_k) = Window
    OBVIOUS
  <2>1. size - Window \in Nat /\ size - Window <= size /\ size - (size - Window) = Window
    BY <1>1
  <2>2. size = Len(full_k)
    OBVIOUS
  <2> HIDE DEF full_k, full_v, size
  <2> QED
    BY <1>1, <2>1, <2>2, SliceType
<1> HIDE DEF full_k, full_v, size, new_k, new_v, total
<1>3. CASE kind \in {"concat", "fp8"}
  <2>1. out \in ConcatAppend(cache, n)
    BY <1>3 DEF AppendTo, Fp8Append
  <2>2. out.cache \in {cache, Fields(full_k, full_v, total, 0),
                       Fields(full_k, cache.v, cache.len, 0)}
    BY <2>1, Outcomes DEF ConcatAppend, full_k, full_v, total
  <2> QED
    BY <1>0, <1>1, <1>3, <2>2 DEF Fields, Caches
<1>4. CASE kind = "rotating"
  <2>1. out \in RotatingAppend(cache, n)
    BY <1>4 DEF AppendTo
  <2>2. \/ out.cache \in {cache, Fields(cache.k, cache.v, total, cache.write_pos)}
        \/ n <= Window /\ out.cache = Fields(Chunk(n), Chunk(n), n, n)
        \/ ~(size > Window) /\ out.cache = Fields(full_k, full_v, total, size)
        \/ /\ size > Window
           /\ out.cache \in {Fields(new_k, cache.v, total, cache.write_pos),
                             Fields(new_k, new_v, total, Window)}
    BY <2>1, Outcomes DEF RotatingAppend, full_k, full_v, size, new_k, new_v, total
  <2>3. ~(size > Window) => Len(full_k) <= Window
    BY <1>1 DEF size
  <2> QED
    BY <1>0, <1>1, <1>2, <1>4, <2>2, <2>3, SMTT(30) DEF Fields, Caches
<1> QED
  BY <1>3, <1>4 DEF Kinds, TypeOK

\* A cache that holds its window holds, after an append that succeeds, the
\* window of the longer sequence.
LEMMA AppendKeepsWindow ==
  ASSUME TypeOK, WindowKept, clean,
         NEW n \in Nat \ {0}, NEW out \in AppendTo(n), out.ok
  PROVE  /\ out.cache.k = Rows(fed + n)
         /\ out.cache.v = Rows(fed + n)
         /\ out.cache.len = fed + n
         /\ kind = "rotating" => out.cache.write_pos = Held(fed + n)
<1>1. /\ fed \in Nat /\ cache \in Caches /\ kind \in Kinds
      /\ Window \in Nat /\ Window > 0
  BY SizesAssumption DEF TypeOK, Caches
<1>2. cache.k = Rows(fed) /\ cache.v = Rows(fed) /\ cache.len = fed
  BY DEF WindowKept
<1>3. \A t \in Nat : /\ Held(t) \in 0 .. t
                     /\ Rows(t) = Run(t - Held(t), Held(t))
  BY <1>1 DEF Held, Rows, Run
<1>4. Chunk(n) = Run(fed, n)
  BY DEF Chunk, Run
<1>5. Rows(fed) \o Chunk(n) = Run(fed - Held(fed), Held(fed) + n)
  <2>1. fed - Held(fed) \in Nat /\ Held(fed) \in Nat
    BY <1>1, <1>3
  <2>2. fed = (fed - Held(fed)) + Held(fed)
    BY <1>1, <1>3
  <2>3. Run(fed - Held(fed), Held(fed)) \o Run((fed - Held(fed)) + Held(fed), n)
          = Run(fed - Held(fed), Held(fed) + n)
    BY <2>1, RunConcat
  <2>4. Rows(fed) = Run(fed - Held(fed), Held(fed))
    BY <1>1, <1>3
  <2> QED
    BY <1>4, <2>2, <2>3, <2>4
<1>6. CASE kind \in {"concat", "fp8"}
  <2>1. out \in ConcatAppend(cache, n)
    BY <1>6 DEF AppendTo, Fp8Append
  <2>2. out.cache = Fields(cache.k \o Chunk(n), cache.v \o Chunk(n), cache.len + n, 0)
    BY <2>1, Outcomes DEF ConcatAppend
  <2>3. Rows(fed) \o Chunk(n) = Rows(fed + n)
    BY <1>1, <1>3, <1>5, <1>6 DEF Held
  <2> QED
    BY <1>2, <1>6, <2>2, <2>3 DEF Fields
<1>7. CASE kind = "rotating"
  <2> DEFINE full == Rows(fed) \o Chunk(n)
             size == Len(full)
             new == Slice(full, size - Window, size)
  <2>1. out \in RotatingAppend(cache, n)
    BY <1>7 DEF AppendTo
  <2>2. size = Held(fed) + n /\ size \in Nat /\ full \in Seq(Nat)
    <3>1. fed - Held(fed) \in Nat /\ Held(fed) + n \in Nat /\ Held(fed) \in Nat
      BY <1>1, <1>3
    <3> HIDE DEF full
    <3>2. full \in Seq(Nat) /\ Len(full) = Held(fed) + n
      BY <1>5, <3>1, RunType DEF full
    <3> QED
      BY <3>1, <3>2
  <2>3. CASE cache.len = 0 /\ n <= Window
    <3>1. out.cache = Fields(Chunk(n), Chunk(n), n, n)
      BY <2>1, <2>3, Outcomes DEF RotatingAppend
    <3>2. fed = 0 /\ Held(n) = n
      BY <1>1, <1>2, <2>3 DEF Held
    <3>3. Chunk(n) = Rows(n)
      BY <1>3, <1>4, <3>2
    <3> QED
      BY <3>1, <3>2, <3>3 DEF Fields
  <2>4. CASE ~(cache.len = 0 /\ n <= Window) /\ size > Window
    <3>0. /\ fed - Held(fed) \in Nat
          /\ (Held(fed) + n) - Window \in 0 .. (Held(fed) + n)
          /\ fed - Held(fed) + ((Held(fed) + n) - Window) = fed + n - Window
          /\ (Held(fed) + n) - ((Held(fed) + n) - Window) = Window
          /\ fed + n \in Nat /\ fed + n - Window \in Nat
      <4>1. Held(fed) \in 0 .. fed
        BY <1>1, <1>3
      <4> HIDE DEF full, size, new
      <4>2. Held(fed) + n > Window
        BY <2>2, <2>4
      <4> QED
        BY <1>1, <4>1, <4>2, CutOff
    <3>1. out.cache = Fields(new, new, cache.len + n, Window)
      BY <1>2, <2>1, <2>4, Outcomes DEF RotatingAppend
    <3>2. Held(fed + n) = Window
      BY <1>1, <1>3, <1>7, <2>2, <2>4 DEF Held
    <3>3. new = Run(fed + n - Window, Window)
      <4>1. /\ fed - Held(fed) \in Nat /\ size - Window \in 0 .. size
            /\ fed - Held(fed) + (size - Window) = fed + n - Window
            /\ size - (size - Window) = Window
        <5> HIDE DEF full, size
        <5> QED
          BY <2>2, <3>0
      <4>2. full = Run(fed - Held(fed), size)
        BY <1>5, <2>2
      <4> HIDE DEF full, size
      <4>3. Slice(Run(fed - Held(fed), size), size - Window, size)
              = Run(fed - Held(fed) + (size - Window), size - (size - Window))
        BY <2>2, <4>1, RunSlice
      <4> QED
        BY <4>1, <4>2, <4>3
    <3>4. new = Rows(fed + n) /\ new \in Seq(Nat)
      <4>1. fed + n \in Nat /\ fed + n - Window \in Nat
        BY <3>0
      <4>2. Rows(fed + n) = Run(fed + n - Window, Window)
        <5>1. \A t \in Nat : Held(t) = Window => Rows(t) = Run(t - Window, Window)
          BY <1>3
        <5> QED
          BY <1>1, <3>2, <4>1, <5>1
      <4>3. Run(fed + n - Window, Window) \in Seq(Nat)
        BY <1>1, <4>1, RunType
      <4> HIDE DEF new
      <4> QED
        BY <3>3, <4>2, <4>3
    <3> HIDE DEF new
    <3> QED
      BY <1>1, <1>2, <3>1, <3>2, <3>4 DEF Fields
  <2>5. CASE ~(cache.len = 0 /\ n <= Window) /\ ~(size > Window)
    <3>1. out.cache = Fields(full, full, cache.len + n, size)
      BY <1>2, <2>1, <2>5, Outcomes DEF RotatingAppend
    <3>2. Held(fed) = fed /\ Held(fed + n) = fed + n
      BY <1>1, <1>7, <2>2, <2>5 DEF Held
    <3>3. full = Rows(fed + n) /\ size = Held(fed + n)
      BY <1>1, <1>3, <1>5, <2>2, <3>2
    <3> HIDE DEF full, size
    <3> QED
      BY <1>1, <1>2, <2>2, <3>1, <3>3 DEF Fields
  <2> QED
    BY <2>3, <2>4, <2>5
<1> QED
  BY <1>1, <1>6, <1>7 DEF Kinds

-----------------------------------------------------------------------------
(* What attention sees.                                                    *)

\* The first places of a run, paired with themselves, by their positions.
LEMMA RunPairs ==
  ASSUME NEW a \in Nat, NEW m \in Nat, NEW e \in Int, e <= m
  PROVE  {<<Run(a, m)[j], Run(a, m)[j]>> : j \in 1 .. e}
           = {<<q, q>> : q \in a + 1 .. a + e}
<1>1. \A j \in 1 .. e : Run(a, m)[j] = a + j /\ a + j \in a + 1 .. a + e
  BY DEF Run
<1>2. \A q \in a + 1 .. a + e : q - a \in 1 .. e /\ a + (q - a) = q
  OBVIOUS
<1> QED
  BY <1>1, <1>2

\* The windows of two queries: the earlier one begins no later, and where
\* nothing was cut off both begin at the first token.
LEMMA WindowsBegin ==
  ASSUME kind \in Kinds, NEW t \in Nat, NEW p \in 0 .. t
  PROVE  /\ Held(t) \in 0 .. t /\ Held(p) \in 0 .. p
         /\ p - Held(p) <= t - Held(t)
         /\ t = Held(t) => p = Held(p)
BY SizesAssumption DEF Held

\* A cache that holds the window of t tokens shows the last n queries what
\* AttendsWindow asks for.
LEMMA SdpaWindow ==
  ASSUME kind \in Kinds, NEW t \in Nat, NEW n \in 1 .. t, NEW i \in 1 .. n,
         NEW c, c.k = Rows(t), c.v = Rows(t)
  PROVE  LET p == t - n + i
             window == {<<q, q>> : q \in p - Held(p) + 1 .. p}
         IN  /\ Sdpa(c, n)[i] \subseteq window
             /\ i = n \/ t = Held(t) => Sdpa(c, n)[i] = window
<1> DEFINE p == t - n + i
           a == t - Held(t)
           e == Held(t) - (n - i)
<1>1. p \in 0 .. t
  OBVIOUS
<1>2. /\ Held(t) \in 0 .. t /\ Held(p) \in 0 .. p
      /\ p - Held(p) <= t - Held(t)
      /\ t = Held(t) => p = Held(p)
  BY <1>1, WindowsBegin
<1>3. a \in Nat /\ Held(t) \in Nat /\ e \in Int /\ e <= Held(t) /\ a + e = p
  BY <1>2
<1>4. Rows(t) = Run(a, Held(t)) /\ Len(Rows(t)) = Held(t)
  BY <1>3, RunType DEF Rows, Run
<1>5. Sdpa(c, n)[i] = {<<q, q>> : q \in a + 1 .. p}
  <2>1. Sdpa(c, n)[i] = {<<Run(a, Held(t))[j], Run(a, Held(t))[j]>> : j \in 1 .. e}
    <3>1. \A j \in 1 .. e : j <= Len(c.v)
      BY <1>3, <1>4
    <3>2. \A j \in 1 .. e : Pair(c, j) = <<Run(a, Held(t))[j], Run(a, Held(t))[j]>>
      BY <1>4, <3>1 DEF Pair
    <3>3. Sdpa(c, n)[i] = {Pair(c, j) : j \in 1 .. e}
      BY <1>4 DEF Sdpa
    <3>4. QED
      <4> HIDE DEF e
      <4>1. QED
        BY <3>2, <3>3
  <2> HIDE DEF p, a, e
  <2>2. {<<Run(a, Held(t))[j], Run(a, Held(t))[j]>> : j \in 1 .. e}
          = {<<q, q>> : q \in a + 1 .. a + e}
    BY <1>3, RunPairs
  <2> QED
    BY <1>3, <2>1, <2>2
<1>6. a + 1 .. p \subseteq p - Held(p) + 1 .. p
  BY <1>1, <1>2
<1>7. i = n \/ t = Held(t) => a + 1 .. p = p - Held(p) + 1 .. p
  <2>1. i = n => p = t
    OBVIOUS
  <2>2. t = Held(t) => a = 0 /\ p - Held(p) = 0
    BY <1>1, <1>2
  <2> QED
    BY <2>1, <2>2
<1> HIDE DEF p, a, e
<1> QED
  BY <1>5, <1>6, <1>7 DEF p

-----------------------------------------------------------------------------
(* The theorems.                                                           *)

\* Every field has its type, in every state.
THEOREM TypeCorrect == Spec => []TypeOK
<1>1. Init => TypeOK
  BY SizesAssumption DEF Init, TypeOK, Empty, Fields
<1>2. TypeOK /\ [Next]_vars => TypeOK'
  <2> SUFFICES ASSUME TypeOK, [Next]_vars PROVE TypeOK'
    OBVIOUS
  <2>1. ASSUME NEW n \in 1 .. MaxChunk, Attend(n) PROVE TypeOK'
    <3>1. PICK out \in AppendTo(n) :
            cache' = out.cache /\ seen' = Sdpa(out.cache, n)
      BY <2>1 DEF Attend
    <3>2. cache' \in Caches /\ (kind = "rotating" => Len(cache'.k) <= Window)
      BY <3>1, AppendTypes
    <3>3. Sdpa(cache', n) \in Seq(SUBSET (Nat \X Nat))
      <4>1. ASSUME NEW i \in 1 .. n
            PROVE  {Pair(cache', j) : j \in 1 .. Len(cache'.k) - (n - i)}
                     \subseteq Nat \X Nat
        <5>1. cache'.k \in Seq(Nat) /\ cache'.v \in Seq(Nat)
          BY <3>1, <3>2 DEF Caches
        <5>2. \A j \in 1 .. Len(cache'.k) - (n - i) : Pair(cache', j) \in Nat \X Nat
          <6> TAKE j \in 1 .. Len(cache'.k) - (n - i)
          <6>1. j \in 1 .. Len(cache'.k) /\ cache'.k[j] \in Nat
            BY <5>1
          <6>2. j <= Len(cache'.v) => cache'.v[j] \in Nat
            BY <5>1, <6>1
          <6>3. QED
            BY <6>1, <6>2 DEF Pair
        <5> QED
          BY <5>2
      <4> DEFINE At(i) == {Pair(cache', j) : j \in 1 .. Len(cache'.k) - (n - i)}
      <4>2. \A i \in 1 .. n : At(i) \in SUBSET (Nat \X Nat)
        BY <4>1
      <4>3. Sdpa(cache', n) = [i \in 1 .. n |-> At(i)]
        BY DEF Sdpa
      <4> HIDE DEF At
      <4> QED
        BY <4>2, <4>3
    <3>4. kind' = kind /\ kind' \in Kinds /\ fed' \in Nat /\ clean' \in BOOLEAN
      BY <2>1 DEF Attend, TypeOK
    <3> QED
      BY <3>1, <3>2, <3>3, <3>4 DEF TypeOK, Caches
  <2>2. ASSUME NEW n \in 1 .. MaxChunk, AttendFails(n) PROVE TypeOK'
    <3>1. cache' \in Caches /\ (kind = "rotating" => Len(cache'.k) <= Window)
      BY <2>2, AppendTypes DEF AttendFails
    <3>2. seen' = <<>> /\ clean' \in BOOLEAN /\ kind' = kind /\ fed' = fed
      BY <2>2 DEF AttendFails, TypeOK
    <3> QED
      BY <3>1, <3>2 DEF TypeOK, Caches
  <2>3. ASSUME Reset PROVE TypeOK'
    BY <2>3, SizesAssumption DEF Reset, TypeOK, Empty, Fields
  <2>4. ASSUME UNCHANGED vars PROVE TypeOK'
    BY <2>4 DEF vars, TypeOK
  <2> QED
    BY <2>1, <2>2, <2>3, <2>4 DEF Next
<1> QED
  BY <1>1, <1>2, PTL DEF Spec

\* Unless a call failed half way, K and V hold exactly the rows of the last
\* tokens (concat.rs, fp8.rs: all; rotating.rs: window_size), and the last
\* query attends over all of them and nothing else.
THEOREM WindowRight == Spec => [](WindowKept /\ AttendsWindow)
<1> DEFINE Inv == WindowKept /\ AttendsWindow
<1>1. Init => Inv
  BY SizesAssumption
     DEF Init, WindowKept, AttendsWindow, Rows, Held, CacheLen, Empty, Fields
<1>2. TypeOK /\ Inv /\ [Next]_vars => Inv'
  <2> SUFFICES ASSUME TypeOK, Inv, [Next]_vars PROVE Inv'
    OBVIOUS
  <2>1. ASSUME NEW n \in 1 .. MaxChunk, Attend(n) PROVE Inv'
    <3> SUFFICES ASSUME clean PROVE Inv'
      BY <2>1 DEF Attend, WindowKept, AttendsWindow
    <3>1. PICK out \in AppendTo(n) :
            out.ok /\ cache' = out.cache /\ seen' = Sdpa(out.cache, n)
      BY <2>1 DEF Attend
    <3>2. /\ kind' = kind /\ fed' = fed + n
          /\ n \in Nat \ {0} /\ fed \in Nat /\ kind \in Kinds
      BY <2>1 DEF Attend, TypeOK
    <3>3. /\ cache'.k = Rows(fed + n)
          /\ cache'.v = Rows(fed + n)
          /\ cache'.len = fed + n
          /\ kind = "rotating" => cache'.write_pos = Held(fed + n)
      BY <3>1, <3>2, AppendKeepsWindow
    <3>4. WindowKept'
      <4>1. \A t \in Nat : Held(t)' = Held(t) /\ Rows(t)' = Rows(t)
        BY <3>2 DEF Held, Rows
      <4>2. CacheLen' = Held(fed + n)
        BY <3>2, <3>3, SizesAssumption DEF CacheLen, Held
      <4> QED
        BY <3>2, <3>3, <4>2 DEF WindowKept, Rows, Held
    <3>5. AttendsWindow'
      <4>1. PICK t \in Nat : t = fed + n
        BY <3>2
      <4>2. \A i \in 1 .. n :
              LET p == t - n + i
                  window == {<<q, q>> : q \in p - Held(p) + 1 .. p}
              IN  /\ seen'[i] \subseteq window
                  /\ i = n \/ t = Held(t) => seen'[i] = window
        <5> TAKE i \in 1 .. n
        <5>1. /\ out.cache.k = Rows(t) /\ out.cache.v = Rows(t)
              /\ n \in 1 .. t /\ kind \in Kinds
          BY <3>1, <3>2, <3>3, <4>1
        <5>2. LET p == t - n + i
                  window == {<<q, q>> : q \in p - Held(p) + 1 .. p}
              IN  /\ Sdpa(out.cache, n)[i] \subseteq window
                  /\ i = n \/ t = Held(t) => Sdpa(out.cache, n)[i] = window
          BY <3>2, <5>1, SdpaWindow
        <5>3. seen'[i] = Sdpa(out.cache, n)[i]
          BY <3>1
        <5>4. QED
          BY <5>2, <5>3
      <4>3. DOMAIN seen' = 1 .. n /\ Len(seen') = n
        BY <3>1, <3>2 DEF Sdpa
      <4>4. \A i \in DOMAIN seen' :
              LET p == fed' - Len(seen') + i
                  window == {<<q, q>> : q \in p - Held(p) + 1 .. p}
              IN  /\ seen'[i] \subseteq window
                  /\ i = Len(seen') \/ fed' = Held(fed') => seen'[i] = window
        BY <3>2, <4>1, <4>2, <4>3
      <4>5. kind' = kind
        BY <3>2
      <4> QED
        BY <4>4, <4>5 DEF AttendsWindow, Held
    <3> QED
      BY <3>4, <3>5
  <2>2. ASSUME NEW n \in 1 .. MaxChunk, AttendFails(n) PROVE Inv'
    <3>1. /\ clean' => clean /\ cache' = cache
          /\ seen' = <<>> /\ kind' = kind /\ fed' = fed
      BY <2>2 DEF AttendFails
    <3> QED
      BY <3>1 DEF WindowKept, AttendsWindow, Rows, Held, CacheLen
  <2>3. ASSUME Reset PROVE Inv'
    BY <2>3, SizesAssumption
       DEF Reset, WindowKept, AttendsWindow, Rows, Held, CacheLen, Empty, Fields
  <2>4. ASSUME UNCHANGED vars PROVE Inv'
    BY <2>4 DEF vars, WindowKept, AttendsWindow, Rows, Held, CacheLen
  <2> QED
    BY <2>1, <2>2, <2>3, <2>4 DEF Next
<1> QED
  BY <1>1, <1>2, TypeCorrect, PTL DEF Spec

\* No query sees past itself or outside its window, and the last one sees its
\* window whole (gqa_attention over any of the caches).
THEOREM AttendedRight == Spec => []AttendsWindow
BY WindowRight, PTL

\* In a concat or fp8 cache a value left out by an error shows in the lengths
\* until a reset: K and V of one length are of the same tokens.
THEOREM PairsRight == Spec => []PairsMatch
<1> DEFINE Inv == PairsInv /\ PairsMatch
<1>1. Init => Inv
  BY DEF Init, PairsInv, PairsMatch, Empty, Fields
<1>2. TypeOK /\ Inv /\ [Next]_vars => Inv'
  <2> SUFFICES ASSUME TypeOK, Inv, [Next]_vars, kind # "rotating" PROVE Inv'
    BY DEF Next, Attend, AttendFails, Reset, vars, PairsInv, PairsMatch
  <2>1. ASSUME NEW n \in 1 .. MaxChunk, NEW out \in AppendTo(n)
        PROVE  out.cache.k = out.cache.v \/ Len(out.cache.v) < Len(out.cache.k)
    <3>1. out \in ConcatAppend(cache, n)
      BY DEF AppendTo, Fp8Append, Kinds, TypeOK
    <3>2. n \in Nat /\ n > 0
      OBVIOUS
    <3>3. \/ out.cache = cache
          \/ out.cache = Fields(cache.k \o Chunk(n), cache.v \o Chunk(n), cache.len + n, 0)
          \/ out.cache = Fields(cache.k \o Chunk(n), cache.v, cache.len, 0)
      BY <3>1, Outcomes DEF ConcatAppend
    <3>4. /\ Len(cache.k \o Chunk(n)) = Len(cache.k) + n
          /\ Len(cache.v \o Chunk(n)) = Len(cache.v) + n
          /\ Len(cache.k) \in Nat /\ Len(cache.v) \in Nat
      BY <3>2, Pieces
    <3>5. cache.k = cache.v \/ Len(cache.v) < Len(cache.k)
      BY DEF PairsInv
    <3>6. CASE out.cache = cache
      BY <3>5, <3>6
    <3>7. CASE out.cache = Fields(cache.k \o Chunk(n), cache.v \o Chunk(n), cache.len + n, 0)
      <4>1. out.cache.k = cache.k \o Chunk(n) /\ out.cache.v = cache.v \o Chunk(n)
        BY <3>7 DEF Fields
      <4>2. Len(cache.v) < Len(cache.k)
              => Len(cache.v \o Chunk(n)) < Len(cache.k \o Chunk(n))
        BY <3>2, <3>4
      <4> QED
        BY <3>5, <4>1, <4>2
    <3>8. CASE out.cache = Fields(cache.k \o Chunk(n), cache.v, cache.len, 0)
      <4>1. out.cache.k = cache.k \o Chunk(n) /\ out.cache.v = cache.v
        BY <3>8 DEF Fields
      <4>2. Len(cache.v) <= Len(cache.k)
        BY <3>4, <3>5
      <4> QED
        BY <3>2, <3>4, <4>1, <4>2
    <3> QED
      BY <3>3, <3>6, <3>7, <3>8
  <2>2. ASSUME NEW n \in 1 .. MaxChunk, Attend(n) PROVE Inv'
    <3>1. PICK out \in AppendTo(n) :
            cache' = out.cache /\ seen' = Sdpa(out.cache, n)
      BY <2>2 DEF Attend
    <3>2. ASSUME Len(cache'.k) = Len(cache'.v)
          PROVE  /\ cache'.k = cache'.v
                 /\ \A i \in DOMAIN seen' : \A pair \in seen'[i] : pair[1] = pair[2]
      <4>1. cache'.k \in Seq(Nat) /\ cache'.v \in Seq(Nat)
        BY <3>1, AppendTypes DEF Caches
      <4>2. cache'.k = cache'.v
        BY <2>1, <3>1, <3>2, <4>1
      <4>3. ASSUME NEW i \in 1 .. n, NEW j \in 1 .. Len(cache'.k) - (n - i)
            PROVE  Pair(cache', j)[1] = Pair(cache', j)[2]
        <5>1. j <= Len(cache'.v)
          BY <4>1, <4>2
        <5>2. QED
          BY <4>2, <5>1 DEF Pair
      <4>4. \A i \in DOMAIN seen' : \A pair \in seen'[i] : pair[1] = pair[2]
        BY <3>1, <4>3 DEF Sdpa
      <4> QED
        BY <4>2, <4>4
    <3>3. PairsInv'
      BY <2>1, <3>1 DEF PairsInv
    <3> QED
      BY <3>2, <3>3 DEF PairsMatch
  <2>3. ASSUME NEW n \in 1 .. MaxChunk, AttendFails(n) PROVE Inv'
    <3>1. PICK out \in AppendTo(n) : cache' = out.cache
      BY <2>3 DEF AttendFails
    <3>2. seen' = <<>>
      BY <2>3 DEF AttendFails
    <3>3. cache'.k \in Seq(Nat) /\ cache'.v \in Seq(Nat)
      BY <3>1, AppendTypes DEF Caches
    <3>4. Len(cache'.k) = Len(cache'.v) => cache'.k = cache'.v
      BY <2>1, <3>1, <3>3
    <3> QED
      BY <2>1, <3>1, <3>2, <3>4 DEF PairsInv, PairsMatch
  <2>4. ASSUME Reset PROVE Inv'
    BY <2>4 DEF Reset, PairsInv, PairsMatch, Empty, Fields
  <2>5. ASSUME UNCHANGED vars PROVE Inv'
    BY <2>5 DEF vars, PairsInv, PairsMatch
  <2> QED
    BY <2>2, <2>3, <2>4, <2>5 DEF Next
<1> QED
  BY <1>1, <1>2, TypeCorrect, PTL DEF Spec

-----------------------------------------------------------------------------
(* The gated delta layer.                                                  *)

Updates == [rows : Seq(Nat), gates : Nat, heads : Seq(Nat)]

GdnTypeOK ==
  /\ conv_buf \in Seq(Nat)
  /\ conv_buf = <<>> \/ Len(conv_buf) = keep
  /\ h \in Seq(Updates)
  /\ through \in Nat
  /\ answers \in Seq(Seq(Updates))
  /\ failures \in Nat
  /\ since \in Nat

\* Row i of a window that starts behind token t; zeros before the first token.
Row(t, i) == IF t + i > keep THEN t + i - keep ELSE 0
RowsKept(t) == [i \in 1 .. keep |-> Row(t, i)]
Upto(t) == [p \in 1 .. t |-> Update(p)]

\* As long as no call has failed half way, the state is that of one long call.
StateInv ==
  failures = 0 =>
    /\ h = Upto(through)
    /\ conv_buf = RowsKept(through) \/ (conv_buf = <<>> /\ (through = 0 \/ keep = 0))

\* The rows of the window that came in since the last failure are the last
\* tokens, each at its place.
WindowInv ==
  /\ since <= through /\ since <= Len(h)
  /\ conv_buf = <<>> => since = 0 \/ keep = 0
  /\ \A i \in 1 .. keep : keep - i < since => conv_buf[i] = through - keep + i

IInv == GdnTypeOK /\ StateInv /\ ChunksDontShow /\ WindowInv /\ DamageEnds

-----------------------------------------------------------------------------
(* Sequences.                                                              *)

\* A piece of a sequence, by its length and its elements.
LEMMA Piece ==
  ASSUME NEW S, NEW s \in Seq(S), NEW m \in Nat, NEW k \in Nat, m + k <= Len(s)
  PROVE  /\ SubSeq(s, m + 1, m + k) \in Seq(S)
         /\ SubSeq(s, m + 1, m + k) = [i \in 1 .. k |-> s[m + i]]
         /\ Len(SubSeq(s, m + 1, m + k)) = k
<1>1. \A i \in m + 1 .. m + k : s[i] \in S
  BY ElementOfSeq
<1> DEFINE u == SubSeq(s, m + 1, m + k)
<1>2. /\ u \in Seq(S) /\ Len(u) = k
      /\ \A i \in 1 .. k : u[i] = s[m + i]
  <2>1. /\ u \in Seq(S)
        /\ Len(u) = IF m + 1 <= m + k THEN (m + k) - (m + 1) + 1 ELSE 0
        /\ \A i \in 1 .. (m + k) - (m + 1) + 1 : u[i] = s[(m + 1) + i - 1]
    BY <1>1, SubSeqProperties, SMTT(40)
  <2> HIDE DEF u
  <2>2. /\ (m + k) - (m + 1) + 1 = k
        /\ (IF m + 1 <= m + k THEN (m + k) - (m + 1) + 1 ELSE 0) = k
    OBVIOUS
  <2>3. \A i \in 1 .. k : (m + 1) + i - 1 = m + i
    OBVIOUS
  <2>4. QED
    BY <2>1, <2>2, <2>3
<1> HIDE DEF u
<1>3. u = [i \in 1 .. Len(u) |-> u[i]]
  BY <1>2
<1>4. u = [i \in 1 .. k |-> s[m + i]]
  BY <1>2, <1>3
<1>5. QED
  BY <1>2, <1>4 DEF u

-----------------------------------------------------------------------------
(* Heads.                                                                  *)

LEMMA KernelType == keep \in Nat /\ Kernel \in Nat \ {0} /\ Kernel = keep + 1
BY GdnAssumption DEF keep

\* A positive factor cancels.
LEMMA Cancel ==
  ASSUME NEW a \in Int, NEW b \in Int, NEW k \in Nat \ {0}
  PROVE  (a * k < b * k <=> a < b) /\ (a * k <= b * k <=> a <= b)
OBVIOUS

\* The quotient of a division.
LEMMA Quotient ==
  ASSUME NEW a \in Nat, NEW f \in Nat \ {0}
  PROVE  /\ a \div f \in Nat
         /\ (a \div f) * f <= a /\ a < ((a \div f) + 1) * f
OBVIOUS

\* With f value heads to a key head, value head j belongs to exactly one group.
LEMMA GroupOf ==
  ASSUME NEW k \in Nat \ {0}, NEW f \in Nat \ {0}, NEW j \in 1 .. f * k
  PROVE  LET g == ((j - 1) \div f) + 1
         IN  /\ g \in 1 .. k
             /\ (g - 1) * (f * k) < j * k /\ j * k <= g * (f * k)
             /\ \A e \in 1 .. k :
                  (e - 1) * (f * k) < j * k /\ j * k <= e * (f * k) => e = g
<1> DEFINE g == ((j - 1) \div f) + 1
<1>1. f * k \in Nat /\ j \in Nat /\ j - 1 \in Nat /\ j <= f * k
  OBVIOUS
<1>2. g \in Nat \ {0} /\ (g - 1) * f <= j - 1 /\ j - 1 < g * f
  BY <1>1, Quotient
<1> HIDE DEF g
<1>3. (g - 1) * f < j /\ j <= g * f
  BY <1>1, <1>2
<1>4. \A e \in Nat : /\ e * f \in Nat
                     /\ e * (f * k) = (e * f) * k
                     /\ (e * f) * k < j * k <=> e * f < j
                     /\ j * k <= (e * f) * k <=> j <= e * f
  <2>1. SUFFICES ASSUME NEW e \in Nat
                 PROVE  /\ e * f \in Nat
                        /\ e * (f * k) = (e * f) * k
                        /\ (e * f) * k < j * k <=> e * f < j
                        /\ j * k <= (e * f) * k <=> j <= e * f
    OBVIOUS
  <2>2. e * f \in Nat /\ e * (f * k) = (e * f) * k
    OBVIOUS
  <2>3. QED
    BY <1>1, <2>2, Cancel
<1>5. g - 1 \in Nat /\ g \in Nat
  BY <1>2
<1>6. (g - 1) * (f * k) < j * k /\ j * k <= g * (f * k)
  BY <1>3, <1>4, <1>5
<1>7. g <= k
  <2>1. (g - 1) * f < k * f
    <3>1. k * f = f * k /\ (g - 1) * f \in Int
      BY <1>5
    <3>2. QED
      BY <1>1, <1>3, <1>5, <3>1
  <2>2. g - 1 < k
    BY <1>5, <2>1, Cancel
  <2>3. QED
    BY <1>5, <2>2
<1>8. ASSUME NEW e \in 1 .. k, (e - 1) * (f * k) < j * k, j * k <= e * (f * k)
      PROVE  e = g
  <2>1. (e - 1) * f < j /\ j <= e * f
    BY <1>4, <1>8
  <2>2. (e - 1) * f < g * f /\ (g - 1) * f < e * f
    BY <1>1, <1>3, <1>5, <2>1
  <2>3. e - 1 < g /\ g - 1 < e
    BY <1>5, <2>2, Cancel
  <2>4. QED
    BY <1>5, <2>3
<1>9. QED
  BY <1>2, <1>6, <1>7, <1>8 DEF g

\* A call that gets past the reshape has expanded the heads as Update says.
LEMMA HeadsRight ==
  ASSUME HeadsFit, NEW p \in Nat
  PROVE  Update(p).heads = Expanded /\ Expanded \in Seq(Nat)
<1> DEFINE factor == ValueHeads \div KeyHeads
           own == [j \in 1 .. KeyHeads |-> j]
           Group(j, g) == /\ (g - 1) * ValueHeads < j * KeyHeads
                          /\ j * KeyHeads <= g * ValueHeads
<1>1. KeyHeads \in Nat \ {0} /\ ValueHeads \in Nat /\ factor \in Nat
  BY GdnAssumption, Quotient
<1>2. Update(p).heads = [j \in 1 .. ValueHeads |-> CHOOSE g \in 1 .. KeyHeads : Group(j, g)]
  BY DEF Update
<1>3. CASE factor > 1
  <2>1. Expanded = [j \in 1 .. factor * Len(own) |-> own[((j - 1) \div factor) + 1]]
    BY <1>3, Zenon DEF Expanded, Tiled
  <2>2. Len(own) = KeyHeads /\ factor * KeyHeads \in Nat
    BY <1>1
  <2>3. factor * KeyHeads = ValueHeads
    <3> DEFINE m == factor * KeyHeads
               Group1(j) == own[((j - 1) \div factor) + 1]
    <3>1. Expanded = [j \in 1 .. m |-> Group1(j)] /\ m \in Nat
      BY <2>1, <2>2
    <3> HIDE DEF m, Group1
    <3>2. Len(Expanded) = m
      BY <3>1
    <3>3. QED
      BY <3>2 DEF HeadsFit, m
  <2>4. ASSUME NEW j \in 1 .. ValueHeads
        PROVE  /\ ((j - 1) \div factor) + 1 \in 1 .. KeyHeads
               /\ (CHOOSE g \in 1 .. KeyHeads : Group(j, g)) = ((j - 1) \div factor) + 1
    <3> DEFINE e == ((j - 1) \div factor) + 1
    <3> HIDE DEF factor
    <3>1. factor \in Nat \ {0} /\ j \in 1 .. factor * KeyHeads
      BY <1>1, <1>3, <2>3
    <3>2. /\ e \in 1 .. KeyHeads
          /\ (e - 1) * (factor * KeyHeads) < j * KeyHeads
          /\ j * KeyHeads <= e * (factor * KeyHeads)
          /\ \A g \in 1 .. KeyHeads :
               (g - 1) * (factor * KeyHeads) < j * KeyHeads
                 /\ j * KeyHeads <= g * (factor * KeyHeads) => g = e
      BY <1>1, <3>1, GroupOf
    <3>3. e \in 1 .. KeyHeads /\ Group(j, e) /\ \A g \in 1 .. KeyHeads : Group(j, g) => g = e
      BY <2>3, <3>2
    <3> HIDE DEF e, Group
    <3>4. (CHOOSE g \in 1 .. KeyHeads : Group(j, g)) = e
      BY <3>3
    <3>5. QED
      BY <3>3, <3>4 DEF e
  <2> HIDE DEF Group, factor
  <2>5. Expanded = [j \in 1 .. ValueHeads |-> ((j - 1) \div factor) + 1]
    BY <2>1, <2>2, <2>3, <2>4
  <2>6. Expanded \in Seq(Nat)
    <3> DEFINE Of(j) == ((j - 1) \div factor) + 1
    <3>1. Expanded = [j \in 1 .. ValueHeads |-> Of(j)]
      BY <2>5
    <3>2. \A j \in 1 .. ValueHeads : Of(j) \in 1 .. KeyHeads
      BY <2>4
    <3> HIDE DEF Of
    <3>3. QED
      BY <1>1, <3>1, <3>2
  <2>7. Update(p).heads = Expanded
    BY <1>2, <2>4, <2>5
  <2>8. QED
    BY <2>6, <2>7
<1>4. CASE ~(factor > 1)
  <2>1. Expanded = own
    BY <1>4 DEF Expanded
  <2>2. ValueHeads = KeyHeads
    BY <1>1, <2>1 DEF HeadsFit
  <2>3. ASSUME NEW j \in 1 .. ValueHeads
        PROVE  (CHOOSE g \in 1 .. KeyHeads : Group(j, g)) = j
    <3>1. Group(j, j) /\ \A g \in 1 .. KeyHeads : Group(j, g) => g = j
      <4>1. \A g \in 1 .. KeyHeads : Group(j, g) <=> g - 1 < j /\ j <= g
        BY <1>1, <2>2, Cancel
      <4>2. QED
        BY <2>2, <4>1
    <3> HIDE DEF Group
    <3>2. QED
      BY <2>2, <3>1
  <2> HIDE DEF Group
  <2>4. Update(p).heads = own
    BY <1>2, <2>2, <2>3
  <2>5. own \in Seq(Nat)
    BY <1>1
  <2>6. QED
    BY <2>1, <2>4, <2>5
<1>5. QED
  BY <1>3, <1>4

-----------------------------------------------------------------------------
(* One call.                                                               *)

\* Rows of the convolution: those kept and those of the call.
LEMMA ConvType ==
  ASSUME GdnTypeOK, NEW n \in Nat
  PROVE  /\ ConvInput(n) \in Seq(Nat) /\ Len(ConvInput(n)) = keep + n
         /\ Kept(n) \in Seq(Nat) /\ Len(Kept(n)) = keep
<1> DEFINE old == IF conv_buf = <<>> THEN [i \in 1 .. keep |-> 0] ELSE conv_buf
<1>1. keep \in Nat /\ through \in Nat
  BY KernelType DEF GdnTypeOK
<1>2. old \in Seq(Nat) /\ Len(old) = keep
  BY <1>1 DEF GdnTypeOK
<1>3. Input(n) \in Seq(Nat) /\ Len(Input(n)) = n
  BY <1>1 DEF Input
<1>4. ConvInput(n) = old \o Input(n)
  BY DEF ConvInput
<1> HIDE DEF old
<1>5. ConvInput(n) \in Seq(Nat) /\ Len(ConvInput(n)) = keep + n
  <2> DEFINE in == Input(n)
  <2>1. in \in Seq(Nat) /\ Len(in) = n
    BY <1>3
  <2> HIDE DEF in
  <2>2. old \o in \in Seq(Nat) /\ Len(old \o in) = keep + n
    BY <1>1, <1>2, <2>1, ConcatProperties
  <2>3. QED
    BY <1>4, <2>2 DEF in
<1>6. Kept(n) \in Seq(Nat) /\ Len(Kept(n)) = keep
  <2> HIDE DEF ConvInput, keep
  <2>1. n + keep <= Len(ConvInput(n))
    BY <1>1, <1>5
  <2>2. QED
    BY <1>1, <1>5, <2>1, Piece DEF Kept
<1>7. QED
  BY <1>5, <1>6

\* After a history without half-way failures, the input of the convolution is
\* the rows up to token through + n.
LEMMA ConvRight ==
  ASSUME GdnTypeOK, StateInv, failures = 0, NEW n \in Nat
  PROVE  /\ ConvInput(n) = [i \in 1 .. keep + n |-> Row(through, i)]
         /\ Kept(n) = RowsKept(through + n)
<1> DEFINE old == IF conv_buf = <<>> THEN [i \in 1 .. keep |-> 0] ELSE conv_buf
<1>1. keep \in Nat /\ through \in Nat
  BY KernelType DEF GdnTypeOK
<1>2. old = RowsKept(through)
  <2>1. CASE conv_buf = <<>> /\ through = 0
    BY <1>1, <2>1 DEF RowsKept, Row
  <2>2. CASE conv_buf = <<>> /\ keep = 0
    BY <2>2 DEF RowsKept
  <2>3. CASE conv_buf # <<>>
    BY <2>3 DEF StateInv
  <2>4. CASE conv_buf = <<>> /\ conv_buf = RowsKept(through) /\ keep # 0
    <3>1. Len(RowsKept(through)) = keep
      BY <1>1 DEF RowsKept
    <3>2. QED
      BY <1>1, <2>4, <3>1
  <2>5. QED
    BY <2>1, <2>2, <2>3, <2>4 DEF StateInv
<1>3. ConvInput(n) = old \o Input(n)
  BY DEF ConvInput
<1> HIDE DEF old
<1>4. ConvInput(n) = [i \in 1 .. keep + n |-> Row(through, i)]
  <2>1. /\ RowsKept(through) \in Seq(Nat) /\ Len(RowsKept(through)) = keep
        /\ \A i \in 1 .. keep : RowsKept(through)[i] = Row(through, i)
    BY <1>1 DEF RowsKept, Row
  <2>2. /\ Input(n) \in Seq(Nat) /\ Len(Input(n)) = n
        /\ \A i \in 1 .. n : Input(n)[i] = Row(through, keep + i)
    BY <1>1 DEF Input, Row
  <2> DEFINE old1 == RowsKept(through)
             new1 == Input(n)
             all == [i \in 1 .. keep + n |-> Row(through, i)]
  <2>3. all \in Seq(Nat) /\ Len(all) = keep + n
        /\ \A i \in 1 .. keep + n : all[i] = Row(through, i)
    BY <1>1 DEF Row
  <2> HIDE DEF old1, new1, all
  <2>4. /\ old1 \o new1 \in Seq(Nat) /\ Len(old1 \o new1) = keep + n
        /\ \A i \in 1 .. keep + n :
             (old1 \o new1)[i] = IF i <= keep THEN old1[i] ELSE new1[i - keep]
    BY <1>1, <2>1, <2>2, ConcatProperties DEF old1, new1
  <2>5. \A i \in 1 .. keep + n : (old1 \o new1)[i] = Row(through, i)
    <3>1. ASSUME NEW i \in 1 .. keep + n, ~(i <= keep)
          PROVE  i - keep \in 1 .. n /\ keep + (i - keep) = i
      BY <1>1, <3>1
    <3>2. QED
      BY <1>1, <2>1, <2>2, <2>4, <3>1 DEF old1, new1
  <2>6. old1 \o new1 = all
    BY <2>3, <2>4, <2>5, SeqEqual
  <2>7. QED
    BY <1>2, <1>3, <2>6 DEF old1, new1, all
<1>5. Kept(n) = RowsKept(through + n)
  <2>1. SubSeq(ConvInput(n), n + 1, n + keep) = [i \in 1 .. keep |-> ConvInput(n)[n + i]]
    <3> HIDE DEF keep
    <3>1. ConvInput(n) \in Seq(Nat) /\ n + keep <= Len(ConvInput(n))
      BY <1>1, ConvType
    <3>2. QED
      BY <1>1, <3>1, Piece
  <2>2. \A i \in 1 .. keep : ConvInput(n)[n + i] = Row(through, n + i)
    BY <1>1, <1>4
  <2>3. \A i \in 1 .. keep : Row(through, n + i) = Row(through + n, i)
    BY <1>1 DEF Row
  <2>4. QED
    BY <2>1, <2>2, <2>3 DEF Kept, RowsKept
<1>6. QED
  BY <1>4, <1>5

\* The updates a call of n tokens makes, one after the other.
Steps(n) == [t \in 1 .. n |-> GdnStep(Conv1d(ConvInput(n), n)[t], Input(n)[t])]

LEMMA ScanIs ==
  ASSUME NEW n \in Nat
  PROVE  Scan(n) = [t \in 1 .. n |-> h \o SubSeq(Steps(n), 1, t)]
BY DEF Scan, Steps

\* The rows of one output of the convolution.
LEMMA RowsAre ==
  ASSUME GdnTypeOK, NEW n \in Nat, NEW t \in 1 .. n
  PROVE  /\ SubSeq(ConvInput(n), t, t + keep) \in Seq(Nat)
         /\ SubSeq(ConvInput(n), t, t + keep)
              = [i \in 1 .. Kernel |-> ConvInput(n)[t - 1 + i]]
<1>1. /\ t - 1 \in Nat /\ Kernel \in Nat /\ keep \in Nat
      /\ (t - 1) + 1 = t /\ (t - 1) + Kernel = t + keep
      /\ (t - 1) + Kernel <= keep + n
  BY KernelType
<1>2. ConvInput(n) \in Seq(Nat) /\ Len(ConvInput(n)) = keep + n
  BY ConvType
<1>3. /\ SubSeq(ConvInput(n), (t - 1) + 1, (t - 1) + Kernel) \in Seq(Nat)
      /\ SubSeq(ConvInput(n), (t - 1) + 1, (t - 1) + Kernel)
           = [i \in 1 .. Kernel |-> ConvInput(n)[t - 1 + i]]
  BY <1>1, <1>2, Piece
<1>4. QED
  BY <1>1, <1>3

LEMMA StepsType ==
  ASSUME GdnTypeOK, HeadsFit, NEW n \in Nat
  PROVE  Steps(n) \in Seq(Updates) /\ Len(Steps(n)) = n
<1>1. keep \in Nat /\ through \in Nat /\ Expanded \in Seq(Nat)
  BY KernelType, HeadsRight DEF GdnTypeOK
<1>2. ASSUME NEW t \in 1 .. n
      PROVE  GdnStep(Conv1d(ConvInput(n), n)[t], Input(n)[t]) \in Updates
  <2>1. SubSeq(ConvInput(n), t, t + keep) \in Seq(Nat)
    BY RowsAre
  <2>2. Conv1d(ConvInput(n), n)[t] \in Seq(Nat) /\ Input(n)[t] \in Nat
    BY <1>1, <2>1 DEF Conv1d, Input
  <2>3. QED
    BY <1>1, <2>2 DEF GdnStep, Updates
<1> DEFINE At(t) == GdnStep(Conv1d(ConvInput(n), n)[t], Input(n)[t])
<1>3. Steps(n) = [t \in 1 .. n |-> At(t)] /\ \A t \in 1 .. n : At(t) \in Updates
  BY <1>2 DEF Steps
<1> HIDE DEF At
<1>4. QED
  BY <1>3

\* The scan's states, each longer by one than the one before.
LEMMA ScanType ==
  ASSUME GdnTypeOK, HeadsFit, NEW n \in Nat
  PROVE  /\ Scan(n) \in Seq(Seq(Updates)) /\ Len(Scan(n)) = n
         /\ \A t \in 1 .. n : Len(Scan(n)[t]) = Len(h) + t
<1>1. Steps(n) \in Seq(Updates) /\ Len(Steps(n)) = n /\ h \in Seq(Updates)
  BY StepsType DEF GdnTypeOK
<1>2. ASSUME NEW t \in 1 .. n
      PROVE  /\ h \o SubSeq(Steps(n), 1, t) \in Seq(Updates)
             /\ Len(h \o SubSeq(Steps(n), 1, t)) = Len(h) + t
  <2>1. SubSeq(Steps(n), 0 + 1, 0 + t) \in Seq(Updates) /\ Len(SubSeq(Steps(n), 0 + 1, 0 + t)) = t
    BY <1>1, Piece
  <2>2. QED
    BY <1>1, <2>1, ConcatProperties
<1> DEFINE After(t) == h \o SubSeq(Steps(n), 1, t)
<1>3. /\ Scan(n) = [t \in 1 .. n |-> After(t)]
      /\ \A t \in 1 .. n : After(t) \in Seq(Updates) /\ Len(After(t)) = Len(h) + t
  BY <1>2, ScanIs
<1> HIDE DEF After
<1>4. QED
  BY <1>3

\* Without half-way failures the states are those of one long call.
LEMMA ScanRight ==
  ASSUME GdnTypeOK, StateInv, failures = 0, HeadsFit, NEW n \in Nat
  PROVE  \A t \in 1 .. n : Scan(n)[t] = Upto(through + t)
<1>1. keep \in Nat /\ Kernel = keep + 1 /\ through \in Nat
  BY KernelType DEF GdnTypeOK
<1>2. ASSUME NEW t \in 1 .. n
      PROVE  Steps(n)[t] = Update(through + t)
  <2>1. Conv1d(ConvInput(n), n)[t] = SubSeq(ConvInput(n), t, t + keep)
    BY DEF Conv1d
  <2>2. ConvInput(n) = [i \in 1 .. keep + n |-> Row(through, i)]
    BY ConvRight
  <2>3. SubSeq(ConvInput(n), t, t + keep) = [i \in 1 .. Kernel |-> Row(through, t - 1 + i)]
    <3>1. \A i \in 1 .. Kernel : t - 1 + i \in 1 .. keep + n
      BY <1>1
    <3>2. SubSeq(ConvInput(n), t, t + keep) = [i \in 1 .. Kernel |-> ConvInput(n)[t - 1 + i]]
      BY RowsAre
    <3>3. \A i \in 1 .. Kernel : ConvInput(n)[t - 1 + i] = Row(through, t - 1 + i)
      BY <2>2, <3>1
    <3>4. QED
      BY <3>2, <3>3
  <2>4. \A i \in 1 .. Kernel :
          Row(through, t - 1 + i)
            = IF (through + t) + i > Kernel THEN (through + t) + i - Kernel ELSE 0
    BY <1>1 DEF Row
  <2>5. Conv1d(ConvInput(n), n)[t] = Update(through + t).rows
    BY <2>1, <2>3, <2>4 DEF Update
  <2>6. Input(n)[t] = Update(through + t).gates
    BY DEF Input, Update
  <2>7. Expanded = Update(through + t).heads
    BY <1>1, HeadsRight
  <2>8. \A p : Update(p) = [rows |-> Update(p).rows, gates |-> Update(p).gates,
                            heads |-> Update(p).heads]
    BY DEF Update
  <2>9. Steps(n)[t] = [rows |-> Update(through + t).rows, gates |-> Update(through + t).gates,
                       heads |-> Update(through + t).heads]
    BY <2>5, <2>6, <2>7 DEF Steps, GdnStep
  <2>10. QED
    BY <2>8, <2>9
<1>3. SUFFICES ASSUME NEW t \in 1 .. n PROVE Scan(n)[t] = Upto(through + t)
  OBVIOUS
<1>4. Scan(n)[t] = h \o SubSeq(Steps(n), 1, t)
  BY ScanIs
<1> DEFINE new == SubSeq(Steps(n), 1, t)
<1>5. /\ new \in Seq(Updates) /\ Len(new) = t
      /\ \A i \in 1 .. t : new[i] = Update(through + i)
  <2>1. /\ SubSeq(Steps(n), 0 + 1, 0 + t) \in Seq(Updates)
        /\ SubSeq(Steps(n), 0 + 1, 0 + t) = [i \in 1 .. t |-> Steps(n)[0 + i]]
        /\ Len(SubSeq(Steps(n), 0 + 1, 0 + t)) = t
    BY StepsType, Piece
  <2>2. QED
    BY <1>2, <2>1
<1>6. /\ h \in Seq(Updates) /\ Len(h) = through
      /\ \A p \in 1 .. through : h[p] = Update(p)
  <2>1. h = [p \in 1 .. through |-> Update(p)]
    BY DEF StateInv, Upto
  <2> HIDE DEF Update
  <2>2. QED
    BY <1>1, <2>1 DEF GdnTypeOK
<1> HIDE DEF new
<1> DEFINE all == Upto(through + t)
<1>7. /\ all = [p \in 1 .. through + t |-> Update(p)]
      /\ \A p \in 1 .. through + t : all[p] = Update(p)
  BY DEF Upto
<1> HIDE DEF all
<1>8. /\ h \o new \in Seq(Updates) /\ Len(h \o new) = through + t
      /\ \A p \in 1 .. through + t :
           (h \o new)[p] = IF p <= through THEN h[p] ELSE new[p - through]
  BY <1>1, <1>5, <1>6, ConcatProperties
<1>9. \A p \in 1 .. through + t : (h \o new)[p] = Update(p)
  <2>1. ASSUME NEW p \in 1 .. through + t, ~(p <= through)
        PROVE  p - through \in 1 .. t /\ through + (p - through) = p
    BY <1>1, <2>1
  <2> HIDE DEF Update
  <2>2. QED
    BY <1>1, <1>5, <1>6, <1>8, <2>1
<1>10. h \o new = [p \in 1 .. Len(h \o new) |-> (h \o new)[p]]
  <2> DEFINE w == h \o new
  <2>1. w \in Seq(Updates)
    BY <1>8
  <2> HIDE DEF w
  <2>2. w = [p \in 1 .. Len(w) |-> w[p]]
    BY <2>1
  <2>3. QED
    BY <2>2 DEF w
<1>11. h \o new = all
  BY <1>7, <1>8, <1>9, <1>10
<1>12. QED
  BY <1>4, <1>11 DEF all, new

-----------------------------------------------------------------------------
(* After a failure.                                                        *)

\* The rows that came in since the last failure, in the input of a call.
LEMMA InputSince ==
  ASSUME GdnTypeOK, WindowInv, NEW n \in Nat, NEW j \in 1 .. keep + n, keep - j < since
  PROVE  ConvInput(n)[j] = through - keep + j
<1> DEFINE old == IF conv_buf = <<>> THEN [i \in 1 .. keep |-> 0] ELSE conv_buf
<1>1. keep \in Nat /\ through \in Nat /\ since \in Nat
  BY KernelType DEF GdnTypeOK
<1>2. old \in Seq(Nat) /\ Len(old) = keep
  BY <1>1 DEF GdnTypeOK
<1>3. Input(n) \in Seq(Nat) /\ Len(Input(n)) = n /\ \A i \in 1 .. n : Input(n)[i] = through + i
  BY <1>1 DEF Input
<1>4. ConvInput(n) = old \o Input(n)
  BY DEF ConvInput
<1>5. j <= keep => old[j] = through - keep + j
  <2>1. SUFFICES ASSUME j <= keep PROVE old[j] = through - keep + j
    OBVIOUS
  <2>2. j \in 1 .. keep /\ since # 0 /\ keep # 0
    BY <1>1, <2>1
  <2>3. conv_buf # <<>> /\ conv_buf[j] = through - keep + j
    BY <2>2 DEF WindowInv
  <2>4. QED
    BY <2>3
<1> DEFINE in == Input(n)
<1>6. in \in Seq(Nat) /\ Len(in) = n /\ \A i \in 1 .. n : in[i] = through + i
  BY <1>3
<1>7. ConvInput(n) = old \o in
  BY <1>4
<1> HIDE DEF old, in
<1>8. (old \o in)[j] = IF j <= keep THEN old[j] ELSE in[j - keep]
  BY <1>1, <1>2, <1>6, ConcatProperties
<1>9. ~(j <= keep) => j - keep \in 1 .. n /\ through + (j - keep) = through - keep + j
  BY <1>1
<1>10. QED
  BY <1>5, <1>6, <1>7, <1>8, <1>9

\* Update t of a call is of its token, and made of its own rows if no row it
\* reaches back to is older than the failure.
LEMMA StepSince ==
  ASSUME GdnTypeOK, WindowInv, HeadsFit, NEW n \in Nat, NEW t \in 1 .. n
  PROVE  /\ Steps(n)[t].gates = through + t
         /\ keep - t < since => Steps(n)[t] = Update(through + t)
<1>1. keep \in Nat /\ Kernel = keep + 1 /\ through \in Nat /\ since \in Nat /\ since <= through
  BY KernelType DEF GdnTypeOK, WindowInv
<1>2. /\ Steps(n)[t].gates = through + t
      /\ Steps(n)[t] = [rows |-> SubSeq(ConvInput(n), t, t + keep),
                        gates |-> through + t, heads |-> Expanded]
  BY DEF Steps, GdnStep, Conv1d, Input
<1>3. ASSUME keep - t < since
      PROVE  Steps(n)[t] = Update(through + t)
  <2>1. \A i \in 1 .. Kernel :
          /\ t - 1 + i \in 1 .. keep + n /\ keep - (t - 1 + i) < since
          /\ through - keep + (t - 1 + i) = (through + t) + i - Kernel
          /\ (through + t) + i > Kernel
    BY <1>1, <1>3
  <2>2. \A i \in 1 .. Kernel : ConvInput(n)[t - 1 + i] = (through + t) + i - Kernel
    BY <2>1, InputSince
  <2>3. SubSeq(ConvInput(n), t, t + keep) = [i \in 1 .. Kernel |-> (through + t) + i - Kernel]
    <3>1. SubSeq(ConvInput(n), t, t + keep) = [i \in 1 .. Kernel |-> ConvInput(n)[t - 1 + i]]
      BY RowsAre
    <3>2. QED
      BY <2>2, <3>1
  <2>4. Update(through + t).rows = [i \in 1 .. Kernel |-> (through + t) + i - Kernel]
    BY <2>1 DEF Update
  <2>5. Update(through + t).gates = through + t
    BY DEF Update
  <2>6. Update(through + t).heads = Expanded
    BY <1>1, HeadsRight
  <2>7. \A p : Update(p) = [rows |-> Update(p).rows, gates |-> Update(p).gates,
                            heads |-> Update(p).heads]
    BY DEF Update
  <2> DEFINE q == through + t
  <2>8. Update(q) = [rows |-> Update(q).rows, gates |-> Update(q).gates,
                     heads |-> Update(q).heads]
    BY <2>7
  <2>9. Update(q).rows = SubSeq(ConvInput(n), t, t + keep)
    BY <2>3, <2>4
  <2>10. Steps(n)[t] = [rows |-> Update(q).rows, gates |-> Update(q).gates,
                        heads |-> Update(q).heads]
    BY <1>2, <2>5, <2>6, <2>9
  <2>11. QED
    BY <2>8, <2>10
<1>4. QED
  BY <1>2, <1>3

\* A call that succeeds keeps what is known of the tokens since the failure.
LEMMA ForwardSince ==
  ASSUME GdnTypeOK, WindowInv, DamageEnds, NEW n \in Nat \ {0}, GdnForward(n)
  PROVE  WindowInv' /\ DamageEnds'
<1>1. /\ HeadsFit /\ keep \in Nat /\ through \in Nat /\ since \in Nat
      /\ since <= through /\ h \in Seq(Updates) /\ Len(h) \in Nat /\ since <= Len(h)
      /\ conv_buf' = Kept(n) /\ h' = Last(Scan(n))
      /\ through' = through + n /\ since' = since + n
  BY KernelType DEF GdnTypeOK, WindowInv, GdnForward
<1> DEFINE steps == Steps(n)
<1>2. /\ steps \in Seq(Updates) /\ Len(steps) = n
      /\ \A t \in 1 .. n : /\ steps[t].gates = through + t
                           /\ keep - t < since => steps[t] = Update(through + t)
  BY <1>1, StepsType, StepSince
<1>3. h' = h \o steps
  <2>1. Scan(n) = [t \in 1 .. n |-> h \o SubSeq(steps, 1, t)]
    BY ScanIs
  <2>2. Last(Scan(n)) = Scan(n)[n]
    BY <1>1, ScanType DEF Last
  <2>3. Scan(n)[n] = h \o SubSeq(steps, 1, n)
    BY <2>1
  <2> HIDE DEF steps
  <2>4. SubSeq(steps, 1, n) = steps
    <3>1. SubSeq(steps, 0 + 1, 0 + n) = [i \in 1 .. n |-> steps[0 + i]]
      BY <1>2, Piece
    <3>2. steps = [i \in 1 .. n |-> steps[i]]
      BY <1>2
    <3>3. QED
      BY <3>1, <3>2
  <2>5. QED
    BY <1>1, <2>2, <2>3, <2>4
<1> HIDE DEF steps
<1>4. /\ Len(h') = Len(h) + n
      /\ \A p \in 1 .. Len(h) + n : h'[p] = IF p <= Len(h) THEN h[p] ELSE steps[p - Len(h)]
  <2>1. h \in Seq(Updates) /\ steps \in Seq(Updates) /\ Len(steps) = n
    BY <1>1, <1>2
  <2>2. /\ Len(h \o steps) = Len(h) + n
        /\ \A p \in 1 .. Len(h) + n :
             (h \o steps)[p] = IF p <= Len(h) THEN h[p] ELSE steps[p - Len(h)]
    <3> HIDE DEF Updates
    <3>1. QED
      BY ONLY <2>1, ConcatProperties
  <2>3. QED
    BY ONLY <1>3, <2>2
<1>5. WindowInv'
  <2>1. Len(Kept(n)) = keep /\ Kept(n) \in Seq(Nat)
    BY ConvType
  <2>2. Kept(n) = <<>> => keep = 0
    BY <2>1
  <2>3. ASSUME NEW i \in 1 .. keep, keep - i < since + n
        PROVE  Kept(n)[i] = (through + n) - keep + i
    <3>1. n + i \in 1 .. keep + n /\ keep - (n + i) < since
      BY <1>1, <2>3
    <3>2. ConvInput(n)[n + i] = through - keep + (n + i)
      BY <3>1, InputSince
    <3>3. Kept(n)[i] = ConvInput(n)[n + i]
      <4>1. ConvInput(n) \in Seq(Nat) /\ Len(ConvInput(n)) = keep + n
        BY ConvType
      <4>2. SubSeq(ConvInput(n), n + 1, n + keep) = [k \in 1 .. keep |-> ConvInput(n)[n + k]]
        <5> HIDE DEF keep
        <5>1. n + keep <= Len(ConvInput(n))
          BY <1>1, <4>1
        <5>2. QED
          BY <1>1, <4>1, <5>1, Piece
      <4>3. QED
        BY <4>2 DEF Kept
    <3>4. QED
      BY <1>1, <3>2, <3>3
  <2>4. since + n <= through + n /\ since + n <= Len(h) + n
    BY <1>1
  <2>5. keep' = keep
    BY DEF keep
  <2>6. QED
    BY <1>1, <1>4, <2>2, <2>3, <2>4, <2>5 DEF WindowInv
<1>6. DamageEnds'
  <2> DEFINE M == since + n
             W == through + n
             L == Len(h) + n
             Good(i) == /\ h'[L - i].gates = W - i
                        /\ i < M - keep => h'[L - i] = Update(W - i)
  <2>1. \A i \in 0 .. M - 1 : Good(i)
    <3> TAKE i \in 0 .. M - 1
    <3>0. i \in 0 .. since + n - 1
      BY <1>1
    <3>1. CASE i < n
      <4>1. /\ n - i \in 1 .. n /\ Len(h) + n - i \in 1 .. Len(h) + n
            /\ ~(Len(h) + n - i <= Len(h)) /\ (Len(h) + n - i) - Len(h) = n - i
            /\ through + (n - i) = (through + n) - i
            /\ i < (since + n) - keep => keep - (n - i) < since
        BY <1>1, <3>0, <3>1
      <4>2. h'[Len(h) + n - i] = steps[n - i]
        BY <1>4, <4>1
      <4> HIDE DEF Update
      <4>3. QED
        BY <1>2, <4>1, <4>2
    <3>2. CASE ~(i < n)
      <4>1. /\ i - n \in 0 .. since - 1 /\ Len(h) + n - i \in 1 .. Len(h) + n
            /\ Len(h) + n - i <= Len(h) /\ Len(h) + n - i = Len(h) - (i - n)
            /\ through - (i - n) = (through + n) - i
            /\ i < (since + n) - keep => i - n < since - keep
        BY <1>1, <3>0, <3>2
      <4>2. h'[Len(h) + n - i] = h[Len(h) - (i - n)]
        BY <1>4, <4>1
      <4>3. /\ h[Len(h) - (i - n)].gates = through - (i - n)
            /\ i - n < since - keep => h[Len(h) - (i - n)] = Update(through - (i - n))
        BY <4>1 DEF DamageEnds
      <4> HIDE DEF Update
      <4>4. QED
        BY <4>1, <4>2, <4>3
    <3>3. QED
      BY <3>1, <3>2
  <2>2. keep' = keep /\ \A p : Update(p)' = Update(p)
    BY DEF keep, Update
  <2>3. since' = M /\ through' = W /\ Len(h') = L
    BY <1>1, <1>4
  <2> HIDE DEF Update, keep, M, W, L
  <2>4. \A i \in 0 .. since' - 1 :
          /\ h'[Len(h') - i].gates = through' - i
          /\ i < since' - keep => h'[Len(h') - i] = Update(through' - i)
    BY ONLY <2>1, <2>3
  <2>5. QED
    BY <2>2, <2>4 DEF DamageEnds
<1>7. QED
  BY <1>5, <1>6

-----------------------------------------------------------------------------
(* Invariance.                                                             *)

LEMMA InitInv == GdnInit => IInv
BY KernelType DEF GdnInit, IInv, GdnTypeOK, StateInv, ChunksDontShow, Upto, WindowInv, DamageEnds

\* A call that succeeds.
LEMMA ForwardInv ==
  ASSUME IInv, NEW n \in Nat \ {0}, GdnForward(n)
  PROVE  IInv'
<1>1. /\ GdnTypeOK /\ HeadsFit /\ keep \in Nat
      /\ conv_buf' = Kept(n) /\ h' = Last(Scan(n)) /\ answers' = Scan(n)
      /\ through' = through + n /\ failures' = failures
      /\ since' = since + n /\ since \in Nat
  BY KernelType DEF IInv, GdnForward, GdnTypeOK
<1>2. /\ Scan(n) \in Seq(Seq(Updates)) /\ Len(Scan(n)) = n
      /\ Last(Scan(n)) = Scan(n)[n] /\ Scan(n)[n] \in Seq(Updates)
  BY <1>1, ScanType DEF Last
<1>3. GdnTypeOK'
  <2>1. Kept(n) \in Seq(Nat) /\ Len(Kept(n)) = keep
    BY <1>1, ConvType
  <2>2. through + n \in Nat /\ failures \in Nat /\ since + n \in Nat
    BY <1>1 DEF GdnTypeOK
  <2>3. QED
    BY <1>1, <1>2, <2>1, <2>2 DEF GdnTypeOK
<1>4. ASSUME failures = 0
      PROVE  /\ \A t \in 1 .. n : Scan(n)[t] = Upto(through + t)
             /\ Kept(n) = RowsKept(through + n)
  BY <1>1, <1>4, ScanRight, ConvRight DEF IInv
<1>5. StateInv'
  <2>1. SUFFICES ASSUME failures = 0
                 PROVE  /\ h' = Upto(through + n)
                        /\ conv_buf' = RowsKept(through + n)
    BY <1>1 DEF StateInv, Upto, RowsKept, Row
  <2>2. n \in 1 .. n
    OBVIOUS
  <2>3. QED
    BY <1>1, <1>2, <1>4, <2>1, <2>2
<1>6. ChunksDontShow'
  <2>1. SUFFICES ASSUME failures = 0, NEW i \in 1 .. n
                 PROVE  Scan(n)[i] = [p \in 1 .. (through + n) - n + i |-> Update(p)]
    BY <1>1, <1>2 DEF ChunksDontShow
  <2>2. (through + n) - n + i = through + i
    BY <1>1 DEF GdnTypeOK
  <2>3. QED
    BY <1>4, <2>1, <2>2 DEF Upto
<1>7. WindowInv' /\ DamageEnds'
  BY ForwardSince DEF IInv
<1>8. QED
  BY <1>3, <1>5, <1>6, <1>7 DEF IInv

\* A call that fails, before anything is stored or half way.
LEMMA FailsInv ==
  ASSUME IInv, NEW n \in Nat \ {0}, GdnFails(n)
  PROVE  IInv'
<1>1. /\ GdnTypeOK /\ keep \in Nat /\ through' = through /\ answers' = <<>>
      /\ failures \in Nat /\ since \in Nat
  BY KernelType DEF IInv, GdnFails, GdnTypeOK
<1>2. /\ conv_buf' \in {conv_buf, Kept(n)}
      /\ h' = h \/ (HeadsFit /\ h' = Last(Scan(n)))
      /\ \/ conv_buf' = conv_buf /\ h' = h /\ failures' = failures /\ since' = since
         \/ failures' = failures + 1 /\ since' = 0
  BY DEF GdnFails
<1>3. h' \in Seq(Updates)
  <2>1. CASE h' = h
    BY <1>1, <2>1 DEF GdnTypeOK
  <2>2. CASE HeadsFit /\ h' = Last(Scan(n))
    BY <1>1, <2>2, ScanType DEF Last
  <2>3. QED
    BY <1>2, <2>1, <2>2
<1>4. GdnTypeOK'
  <2>1. Kept(n) \in Seq(Nat) /\ Len(Kept(n)) = keep
    BY <1>1, ConvType
  <2>2. failures' \in Nat /\ since' \in Nat
    BY <1>1, <1>2
  <2>3. QED
    BY <1>1, <1>2, <1>3, <2>1, <2>2 DEF GdnTypeOK
<1>5. ASSUME failures' = 0
      PROVE  failures = 0 /\ conv_buf' = conv_buf /\ h' = h
  BY <1>1, <1>2, <1>5
<1>6. StateInv'
  BY <1>1, <1>5 DEF IInv, StateInv, Upto, RowsKept, Row
<1>7. ChunksDontShow'
  BY <1>1 DEF ChunksDontShow
<1>8. WindowInv' /\ DamageEnds'
  <2>1. CASE since' = 0
    <3>1. through' \in Nat /\ Len(h') \in Nat
      BY <1>1, <1>3 DEF GdnTypeOK
    <3>2. keep' = keep /\ \A i \in 1 .. keep : ~(keep - i < 0)
      BY <1>1 DEF keep
    <3>3. WindowInv'
      BY <2>1, <3>1, <3>2 DEF WindowInv
    <3>4. DamageEnds'
      BY <2>1 DEF DamageEnds
    <3>5. QED
      BY <3>3, <3>4
  <2>2. CASE conv_buf' = conv_buf /\ h' = h /\ since' = since
    <3>1. keep' = keep /\ \A p : Update(p)' = Update(p)
      BY DEF keep, Update
    <3>2. WindowInv'
      BY <1>1, <2>2, <3>1 DEF IInv, WindowInv
    <3>3. DamageEnds'
      <4> HIDE DEF Update, keep
      <4>1. QED
        BY <1>1, <2>2, <3>1 DEF IInv, DamageEnds
    <3>4. QED
      BY <3>2, <3>3
  <2>3. QED
    BY <1>2, <2>1, <2>2
<1>9. QED
  BY <1>4, <1>6, <1>7, <1>8 DEF IInv

LEMMA StepInv == IInv /\ [GdnNext]_gdnVars => IInv'
<1> SUFFICES ASSUME IInv, [GdnNext]_gdnVars PROVE IInv'
  OBVIOUS
<1>1. ASSUME NEW n \in 1 .. MaxTokens, GdnForward(n) PROVE IInv'
  BY <1>1, ForwardInv
<1>2. ASSUME NEW n \in 1 .. MaxTokens, GdnFails(n) PROVE IInv'
  BY <1>2, FailsInv
<1>3. CASE GdnReset
  <2>1. /\ conv_buf' = <<>> /\ h' = <<>> /\ through' = 0 /\ answers' = <<>>
        /\ failures' = 0 /\ since' = 0
    BY <1>3 DEF GdnReset
  <2>2. GdnTypeOK' /\ StateInv' /\ ChunksDontShow'
    BY <2>1 DEF GdnTypeOK, StateInv, ChunksDontShow, Upto
  <2>3. WindowInv' /\ DamageEnds'
    BY <2>1, KernelType DEF WindowInv, DamageEnds
  <2>4. QED
    BY <2>2, <2>3 DEF IInv
<1>4. CASE UNCHANGED gdnVars
  <2>1. /\ conv_buf' = conv_buf /\ h' = h /\ through' = through /\ answers' = answers
        /\ failures' = failures /\ since' = since
    BY <1>4 DEF gdnVars
  <2>2. GdnTypeOK' /\ StateInv' /\ ChunksDontShow'
    BY <2>1 DEF IInv, GdnTypeOK, StateInv, ChunksDontShow, Upto, RowsKept, Row
  <2>3. keep' = keep /\ \A p : Update(p)' = Update(p)
    BY DEF keep, Update
  <2>4. WindowInv' /\ DamageEnds'
    <3> HIDE DEF Update, keep
    <3>1. QED
      BY <2>1, <2>3 DEF IInv, WindowInv, DamageEnds
  <2>5. QED
    BY <2>2, <2>4 DEF IInv
<1>5. QED
  BY <1>1, <1>2, <1>3, <1>4 DEF GdnNext

LEMMA Inductive == GdnSpec => []IInv
BY InitInv, StepInv, PTL DEF GdnSpec

-----------------------------------------------------------------------------
(* Theorems.                                                               *)

\* The window is None or has the kernel's reach back, the state and the answers
\* are updates of tokens (GatedDeltaCache, gdn_forward).
THEOREM GdnTypes == GdnSpec => []GdnTypeOK
<1>1. IInv => GdnTypeOK
  BY DEF IInv
<1>2. QED
  BY <1>1, Inductive, PTL

\* However the tokens are cut into calls, each is answered from its own rows
\* and the updates of exactly the tokens up to it, unless a call failed half
\* way since the last reset (gdn_forward over prefill chunks and decode steps).
THEOREM AnswersWhole == GdnSpec => []ChunksDontShow
<1>1. IInv => ChunksDontShow
  BY DEF IInv
<1>2. QED
  BY <1>1, Inductive, PTL

\* Without a reset, the tokens that get through after a half-way failure are
\* absorbed once each and in order, and from the kernel's reach behind it on
\* from their own rows (gdn_forward, conv_buf).
THEOREM DamagePasses == GdnSpec => []DamageEnds
<1>1. IInv => DamageEnds
  BY DEF IInv
<1>2. QED
  BY <1>1, Inductive, PTL

-----------------------------------------------------------------------------
(* Sums.                                                                   *)

\* A set of numbers has a smallest one.
LEMMA Smallest ==
  ASSUME NEW T \in SUBSET Nat, T # {}
  PROVE  \E m \in T : \A n \in T : m <= n
<1> DEFINE R == OpToRel(<, Nat)
<1>1. PICK m \in T : \A n \in T : ~(<<n, m>> \in R)
  BY NatLessThanWellFounded, WFMin, Zenon
<1>2. \A n \in T : ~(n < m)
  BY <1>1 DEF OpToRel
<1>3. QED
  BY <1>2

\* The maximum of a set is the element that is at least as large as each.
LEMMA MaxIs ==
  ASSUME NEW T \in SUBSET Int, NEW m \in T, \A y \in T : m >= y
  PROVE  Max(T) = m
<1>1. Max(T) \in T /\ \A y \in T : Max(T) >= y
  BY Zenon DEF Max
<1>2. Max(T) >= m /\ m >= Max(T) /\ Max(T) \in Int /\ m \in Int
  BY <1>1
<1>3. QED
  BY <1>2

\* What g has to be to hold the sums of the first places of s.
Sums(s, g) ==
  /\ g[0] = 0
  /\ \A i \in 1 .. Len(s) : g[i] = g[i - 1] + s[i]

\* The set of places before i, as the fold meets it.
First(i) == 1 .. i

\* The fold of Total is unfolded.
LEMMA TotalIs ==
  ASSUME NEW s \in Seq(Nat)
  PROVE  \E g : /\ Sums(s, g) /\ \A i \in 0 .. Len(s) : g[i] \in Nat
                /\ Total(s) = g[Len(s)]
<1> DEFINE n == Len(s)
           D == 1 .. n
           Rec(f) == f = [t \in SUBSET D |-> IF t = {} THEN 0 ELSE f[t \ {Max(t)}] + s[Max(t)]]
           Solves(m, f) == \A t \in SUBSET First(m) :
                           f[t] = IF t = {} THEN 0 ELSE f[t \ {Max(t)}] + s[Max(t)]
           Lost == {m \in 0 .. n : ~ \E f : Solves(m, f)}
<1>1. n \in Nat /\ DOMAIN s = D /\ \A i \in D : s[i] \in Nat
  BY LenProperties, ElementOfSeq
<1>2. \A m \in Nat : \A t \in SUBSET First(m) : m \in t => Max(t) = m
  BY MaxIs DEF First
<1>3. Lost = {}
  <2>1. SUFFICES ASSUME Lost # {} PROVE FALSE
    OBVIOUS
  <2>2. Lost \in SUBSET Nat
    BY <1>1
  <2>3. PICK m \in Lost : \A k \in Lost : m <= k
    BY <2>1, <2>2, Smallest
  <2>4. m \in 0 .. n /\ m \in Nat /\ ~ \E f : Solves(m, f)
    <3>1. m \in 0 .. n /\ ~ \E f : Solves(m, f)
      OBVIOUS
    <3>2. m \in Nat
      BY <2>2
    <3>3. QED
      BY <3>1, <3>2
  <2>5. m # 0
    <3> DEFINE f == [t \in SUBSET First(0) |-> 0]
    <3>1. First(0) = {}
      BY DEF First
    <3>2. Solves(0, f)
      BY <3>1
    <3>3. QED
      BY <2>4, <3>2
  <2>6. m - 1 \in 0 .. n /\ m - 1 \notin Lost
    <3> HIDE DEF Lost, Solves
    <3>1. m - 1 \in 0 .. n /\ ~(m <= m - 1)
      BY <1>1, <2>4, <2>5
    <3>2. QED
      BY <2>3, <3>1
  <2>7. PICK f : Solves(m - 1, f)
    BY <2>6
  <2> DEFINE g == [t \in SUBSET First(m) |->
                     IF m \in t THEN f[t \ {m}] + s[m] ELSE f[t]]
  <2>8. First(m) = First(m - 1) \cup {m} /\ m \notin First(m - 1)
    BY <2>4, <2>5 DEF First
  <2>9. Solves(m, g)
    <3> SUFFICES ASSUME NEW t \in SUBSET First(m)
                 PROVE g[t] = IF t = {} THEN 0 ELSE g[t \ {Max(t)}] + s[Max(t)]
      OBVIOUS
    <3>1. CASE m \in t
      <4>1. Max(t) = m /\ t # {}
        BY <1>2, <2>4, <3>1
      <4>2. t \ {m} \in SUBSET First(m) /\ m \notin t \ {m}
        OBVIOUS
      <4>3. g[t \ {m}] = f[t \ {m}] /\ g[t] = f[t \ {m}] + s[m]
        BY <3>1, <4>2
      <4>4. QED
        BY <4>1, <4>3
    <3>2. CASE m \notin t
      <4>1. t \in SUBSET First(m - 1)
        BY <2>8, <3>2
      <4>2. f[t] = IF t = {} THEN 0 ELSE f[t \ {Max(t)}] + s[Max(t)]
        BY <2>7, <4>1
      <4>3. t \ {Max(t)} \in SUBSET First(m) /\ m \notin t \ {Max(t)}
        BY <3>2
      <4>4. g[t \ {Max(t)}] = f[t \ {Max(t)}] /\ g[t] = f[t]
        BY <3>2, <4>3
      <4>5. QED
        BY <4>2, <4>4
    <3>3. QED
      BY <3>1, <3>2
  <2>10. QED
    BY <2>4, <2>9
<1>4. PICK f0 : Solves(n, f0)
  <2> HIDE DEF Solves
  <2>1. n \in 0 .. n
    BY <1>1
  <2>2. QED
    BY <1>3, <2>1
<1>5. D = First(n)
  BY DEF First
<1> DEFINE e == [t \in SUBSET D |-> f0[t]]
<1>6. Rec(e)
  <2>1. \A t \in SUBSET D : e[t] = IF t = {} THEN 0 ELSE e[t \ {Max(t)}] + s[Max(t)]
    <3> TAKE t \in SUBSET D
    <3>1. t \ {Max(t)} \in SUBSET D
      OBVIOUS
    <3>2. QED
      BY <1>4, <1>5, <3>1
  <2>2. QED
    BY <2>1
<1> DEFINE r == CHOOSE x : Rec(x)
<1>7. Rec(r)
  BY <1>6, Zenon
<1>8. Total(s) = r[D]
  BY <1>1, Zenon DEF Total, FoldLeft, MapThenFoldSet
<1> HIDE DEF r
<1>9. \A t \in SUBSET D : r[t] = IF t = {} THEN 0 ELSE r[t \ {Max(t)}] + s[Max(t)]
  BY <1>7
<1> DEFINE g == [i \in 0 .. n |-> r[First(i)]]
<1>10. g[0] = 0
  <2>1. First(0) = {} /\ 0 \in 0 .. n
    BY <1>1 DEF First
  <2>2. QED
    BY <1>9, <2>1
<1>11. \A i \in 1 .. n : g[i] = g[i - 1] + s[i]
  <2> TAKE i \in 1 .. n
  <2>1. i \in Nat /\ i - 1 \in 0 .. n /\ i \in 0 .. n
    BY <1>1
  <2>2. i \in First(i) /\ First(i) \ {i} = First(i - 1) /\ First(i) \in SUBSET D
    BY <1>1, <2>1 DEF First
  <2>3. Max(First(i)) = i
    BY <1>2, <2>1, <2>2
  <2>4. r[First(i)] = r[First(i - 1)] + s[i]
    BY <1>9, <2>2, <2>3
  <2>5. QED
    BY <2>1, <2>4
<1> HIDE DEF g
<1>12. \A i \in 0 .. n : g[i] \in Nat
  <2> DEFINE Bad == {i \in 0 .. n : g[i] \notin Nat}
  <2>1. SUFFICES ASSUME Bad # {} PROVE FALSE
    OBVIOUS
  <2>2. Bad \in SUBSET Nat
    BY <1>1
  <2>3. PICK m \in Bad : \A k \in Bad : m <= k
    BY <2>1, <2>2, Smallest
  <2>4. m # 0
    BY <1>10
  <2>5. m - 1 \in 0 .. n /\ ~(m <= m - 1)
    BY <1>1, <2>4
  <2>6. g[m - 1] \in Nat
    BY <2>3, <2>5
  <2>7. QED
    BY <1>1, <1>11, <2>4, <2>6
<1>13. Total(s) = g[n]
  BY <1>1, <1>5, <1>8 DEF g
<1>14. QED
  BY <1>10, <1>11, <1>12, <1>13 DEF Sums

\* There is one way to add up.
LEMMA TotalUnique ==
  ASSUME NEW s \in Seq(Nat), NEW g, Sums(s, g)
  PROVE  Total(s) = g[Len(s)]
<1> DEFINE n == Len(s)
<1>1. n \in Nat
  BY LenProperties
<1>2. PICK e : Sums(s, e) /\ (\A i \in 0 .. n : e[i] \in Nat) /\ Total(s) = e[n]
  BY TotalIs
<1> HIDE DEF n
<1> DEFINE Bad == {i \in 0 .. n : g[i] # e[i]}
<1>3. Bad = {}
  <2>1. SUFFICES ASSUME Bad # {} PROVE FALSE
    OBVIOUS
  <2>2. Bad \in SUBSET Nat
    BY <1>1
  <2>3. PICK m \in Bad : \A k \in Bad : m <= k
    BY <2>1, <2>2, Smallest
  <2>4. m # 0
    BY <1>2 DEF Sums
  <2>5. m - 1 \in 0 .. n /\ ~(m <= m - 1) /\ m \in 1 .. n
    BY <1>1, <2>4
  <2>6. g[m - 1] = e[m - 1]
    BY <2>3, <2>5
  <2>7. g[m] = g[m - 1] + s[m] /\ e[m] = e[m - 1] + s[m]
    BY <1>2, <2>5 DEF Sums, n
  <2>8. QED
    BY <2>6, <2>7
<1>4. n \in 0 .. n
  BY <1>1
<1>5. QED
  BY <1>2, <1>3, <1>4 DEF n

\* Sums of sums.
LEMMA SumsAdd ==
  ASSUME NEW a \in Seq(Nat), NEW b \in Seq(Nat), NEW c \in Seq(Nat),
         Len(a) = Len(c), Len(b) = Len(c),
         \A i \in 1 .. Len(c) : c[i] = a[i] + b[i]
  PROVE  Total(c) = Total(a) + Total(b)
<1> DEFINE n == Len(c)
<1>1. n \in Nat /\ \A i \in 1 .. n : a[i] \in Nat /\ b[i] \in Nat
  BY LenProperties, ElementOfSeq
<1>2. PICK g : Sums(a, g) /\ (\A i \in 0 .. n : g[i] \in Nat) /\ Total(a) = g[n]
  BY TotalIs
<1>3. PICK e : Sums(b, e) /\ (\A i \in 0 .. n : e[i] \in Nat) /\ Total(b) = e[n]
  BY TotalIs
<1> DEFINE q == [i \in 0 .. n |-> g[i] + e[i]]
<1>4. Sums(c, q)
  <2>1. q[0] = 0
    BY <1>1, <1>2, <1>3 DEF Sums
  <2>2. \A i \in 1 .. n : q[i] = q[i - 1] + c[i]
    <3> TAKE i \in 1 .. n
    <3>1. i \in 0 .. n /\ i - 1 \in 0 .. n
      BY <1>1
    <3>2. g[i] = g[i - 1] + a[i] /\ e[i] = e[i - 1] + b[i]
      BY <1>2, <1>3 DEF Sums
    <3>3. q[i] = g[i] + e[i] /\ q[i - 1] = g[i - 1] + e[i - 1]
      BY <3>1
    <3>4. /\ g[i - 1] \in Nat /\ e[i - 1] \in Nat /\ a[i] \in Nat /\ b[i] \in Nat
          /\ c[i] = a[i] + b[i]
      BY <1>1, <1>2, <1>3, <3>1
    <3> DEFINE x == g[i - 1]
               y == e[i - 1]
               u == a[i]
               v == b[i]
    <3>5. /\ q[i] = (x + u) + (y + v) /\ q[i - 1] + c[i] = (x + y) + (u + v)
          /\ x \in Nat /\ y \in Nat /\ u \in Nat /\ v \in Nat
      BY <3>2, <3>3, <3>4, Zenon
    <3> HIDE DEF q, x, y, u, v
    <3>6. QED
      BY <3>5
  <2>3. QED
    BY <2>1, <2>2 DEF Sums
<1>5. n \in 0 .. n
  BY <1>1
<1>6. Total(c) = q[n]
  BY <1>4, TotalUnique
<1>7. QED
  BY <1>2, <1>3, <1>5, <1>6

\* The sums of a prefix.
LEMMA TotalPrefix ==
  ASSUME NEW w \in Seq(Nat), NEW g, Sums(w, g), NEW i \in 0 .. Len(w)
  PROVE  Total(SubSeq(w, 1, i)) = g[i]
<1> DEFINE s == SubSeq(w, 1, i)
<1>1. Len(w) \in Nat /\ i \in Nat /\ \A j \in 1 .. i : w[j] \in Nat
  BY LenProperties, ElementOfSeq
<1>2. s \in Seq(Nat) /\ Len(s) = i /\ \A j \in 1 .. i : s[j] = w[j]
  BY <1>1
<1> HIDE DEF s
<1>3. Sums(s, g)
  <2>1. g[0] = 0 /\ \A j \in 1 .. Len(w) : g[j] = g[j - 1] + w[j]
    BY DEF Sums
  <2>2. \A j \in 1 .. i : j \in 1 .. Len(w)
    BY <1>1
  <2>3. QED
    BY <1>2, <2>1, <2>2 DEF Sums
<1>4. Total(s) = g[i]
  BY <1>2, <1>3, TotalUnique
<1>5. QED
  BY <1>4 DEF s

\* What TotalOver adds up.
Masked(w, S) == [i \in DOMAIN w |-> IF i \in S THEN w[i] ELSE 0]

LEMMA MaskedIs ==
  ASSUME NEW w \in Seq(Nat), NEW S
  PROVE  /\ Masked(w, S) \in Seq(Nat) /\ Len(Masked(w, S)) = Len(w)
         /\ \A i \in 1 .. Len(w) : Masked(w, S)[i] = IF i \in S THEN w[i] ELSE 0
         /\ TotalOver(w, S) = Total(Masked(w, S)) /\ TotalOver(w, S) \in Nat
<1>1. Len(w) \in Nat /\ DOMAIN w = 1 .. Len(w) /\ \A i \in 1 .. Len(w) : w[i] \in Nat
  BY LenProperties, ElementOfSeq
<1>2. /\ Masked(w, S) \in Seq(Nat) /\ Len(Masked(w, S)) = Len(w)
      /\ \A i \in 1 .. Len(w) : Masked(w, S)[i] = IF i \in S THEN w[i] ELSE 0
  BY <1>1 DEF Masked
<1>3. TotalOver(w, S) = Total(Masked(w, S))
  BY DEF TotalOver, Masked
<1>4. Total(Masked(w, S)) \in Nat
  <2>1. PICK g : /\ \A i \in 0 .. Len(Masked(w, S)) : g[i] \in Nat
                 /\ Total(Masked(w, S)) = g[Len(Masked(w, S))]
    BY <1>2, TotalIs
  <2>2. QED
    BY <1>1, <1>2, <2>1
<1>5. QED
  BY <1>2, <1>3, <1>4

\* Sums over two sets that have nothing in common.
LEMMA OverUnion ==
  ASSUME NEW w \in Seq(Nat), NEW A, NEW B, A \cap B = {}
  PROVE  TotalOver(w, A \cup B) = TotalOver(w, A) + TotalOver(w, B)
<1>1. Len(w) \in Nat /\ \A i \in 1 .. Len(w) : w[i] \in Nat
  BY LenProperties, ElementOfSeq
<1>2. \A i \in 1 .. Len(w) :
        Masked(w, A \cup B)[i] = Masked(w, A)[i] + Masked(w, B)[i]
  <2> TAKE i \in 1 .. Len(w)
  <2>1. /\ Masked(w, A \cup B)[i] = IF i \in A \cup B THEN w[i] ELSE 0
        /\ Masked(w, A)[i] = IF i \in A THEN w[i] ELSE 0
        /\ Masked(w, B)[i] = IF i \in B THEN w[i] ELSE 0
    BY MaskedIs, SMTT(30)
  <2>2. ~(i \in A /\ i \in B) /\ w[i] \in Nat
    BY <1>1
  <2>3. QED
    BY <2>1, <2>2
<1>3. /\ Masked(w, A) \in Seq(Nat) /\ Len(Masked(w, A)) = Len(w)
      /\ Masked(w, B) \in Seq(Nat) /\ Len(Masked(w, B)) = Len(w)
      /\ Masked(w, A \cup B) \in Seq(Nat) /\ Len(Masked(w, A \cup B)) = Len(w)
  BY MaskedIs
<1>4. Total(Masked(w, A \cup B)) = Total(Masked(w, A)) + Total(Masked(w, B))
  <2> DEFINE a == Masked(w, A)
             b == Masked(w, B)
             c == Masked(w, A \cup B)
  <2>1. /\ a \in Seq(Nat) /\ b \in Seq(Nat) /\ c \in Seq(Nat)
        /\ Len(a) = Len(c) /\ Len(b) = Len(c)
        /\ \A i \in 1 .. Len(c) : c[i] = a[i] + b[i]
    BY <1>2, <1>3
  <2> HIDE DEF a, b, c
  <2>2. Total(c) = Total(a) + Total(b)
    BY <2>1, SumsAdd
  <2>3. QED
    BY <2>2 DEF a, b, c
<1>5. QED
  BY <1>4, MaskedIs

\* Nothing adds up to 0.
LEMMA OverEmpty ==
  ASSUME NEW w \in Seq(Nat)
  PROVE  TotalOver(w, {}) = 0
<1>1. TotalOver(w, {} \cup {}) = TotalOver(w, {}) + TotalOver(w, {})
  BY OverUnion
<1>2. QED
  BY <1>1, MaskedIs

\* Only the scores at the places decide.
LEMMA OverSame ==
  ASSUME NEW w \in Seq(Nat), NEW v \in Seq(Nat), Len(w) = Len(v), NEW A, NEW B,
         \A i \in 1 .. Len(w) : (IF i \in A THEN w[i] ELSE 0) = IF i \in B THEN v[i] ELSE 0
  PROVE  TotalOver(w, A) = TotalOver(v, B)
<1>1. DOMAIN w = 1 .. Len(w) /\ DOMAIN v = 1 .. Len(w)
  BY LenProperties
<1>2. Masked(w, A) = Masked(v, B)
  BY <1>1 DEF Masked
<1>3. QED
  BY <1>2, MaskedIs

\* One place.
LEMMA OverOne ==
  ASSUME NEW w \in Seq(Nat), NEW k \in 1 .. Len(w)
  PROVE  TotalOver(w, {k}) = w[k]
<1> DEFINE n == Len(w)
           g == [i \in 0 .. n |-> IF i < k THEN 0 ELSE w[k]]
<1>1. n \in Nat /\ w[k] \in Nat /\ k \in 1 .. n
  BY LenProperties, ElementOfSeq
<1>2. g[0] = 0 /\ \A i \in 1 .. n : g[i] = g[i - 1] + IF i = k THEN w[k] ELSE 0
  BY <1>1
<1>3. g[n] = w[k]
  BY <1>1
<1> HIDE DEF g
<1>4. \A i \in 1 .. n : Masked(w, {k})[i] = IF i = k THEN w[k] ELSE 0
  BY MaskedIs
<1>5. Sums(Masked(w, {k}), g)
  BY <1>2, <1>4, MaskedIs DEF Sums
<1>6. QED
  BY <1>3, <1>5, MaskedIs, TotalUnique

\* More places, no less.
LEMMA OverSubset ==
  ASSUME NEW w \in Seq(Nat), NEW A, NEW B, A \subseteq B
  PROVE  TotalOver(w, A) <= TotalOver(w, B)
<1>1. A \cup (B \ A) = B /\ A \cap (B \ A) = {}
  OBVIOUS
<1>2. TotalOver(w, B) = TotalOver(w, A) + TotalOver(w, B \ A)
  BY <1>1, OverUnion
<1>3. QED
  BY <1>2, MaskedIs

\* All of it.
LEMMA OverAll ==
  ASSUME NEW w \in Seq(Nat), NEW A, DOMAIN w \subseteq A
  PROVE  TotalOver(w, A) = Total(w) /\ Total(w) \in Nat
<1>1. w = [i \in DOMAIN w |-> w[i]]
  BY LenProperties
<1>2. Masked(w, A) = w
  BY <1>1 DEF Masked
<1>3. QED
  BY <1>2, MaskedIs

\* The first m places of an order.
Listed(o, m) == {o[r] : r \in 1 .. m}

\* A sum along different places is the sum over the set of them.
LEMMA Along ==
  ASSUME NEW w \in Seq(Nat), NEW s \in Seq(Nat), NEW o,
         \A r \in 1 .. Len(s) : o[r] \in 1 .. Len(w) /\ s[r] = w[o[r]],
         \A q, r \in 1 .. Len(s) : o[q] = o[r] => q = r
  PROVE  Total(s) = TotalOver(w, Listed(o, Len(s)))
<1> DEFINE m == Len(s)
           g == [i \in 0 .. m |-> TotalOver(w, Listed(o, i))]
<1>1. m \in Nat
  BY LenProperties
<1>2. g[0] = 0
  <2>1. Listed(o, 0) = {} /\ 0 \in 0 .. m
    BY <1>1 DEF Listed
  <2>2. QED
    BY <2>1, OverEmpty
<1>3. \A i \in 1 .. m : g[i] = g[i - 1] + s[i]
  <2> TAKE i \in 1 .. m
  <2>1. i \in 0 .. m /\ i - 1 \in 0 .. m /\ i \in Nat /\ 1 .. i = (1 .. i - 1) \cup {i}
        /\ 1 .. i - 1 \subseteq 1 .. m /\ i \notin 1 .. i - 1
    BY <1>1
  <2>2. Listed(o, i) = Listed(o, i - 1) \cup {o[i]} /\ Listed(o, i - 1) \cap {o[i]} = {}
    <3>1. \A j : \A x : x \in Listed(o, j) <=> \E r \in 1 .. j : x = o[r]
      BY DEF Listed
    <3>2. Listed(o, i) = Listed(o, i - 1) \cup {o[i]}
      BY <2>1, <3>1
    <3>3. o[i] \notin Listed(o, i - 1)
      <4>1. \A r \in 1 .. i - 1 : r \in 1 .. Len(s) /\ r # i
        BY <2>1
      <4>2. \A r \in 1 .. i - 1 : o[r] # o[i]
        BY <4>1
      <4>3. QED
        BY <3>1, <4>2, SMTT(30)
    <3>4. QED
      BY <3>2, <3>3
  <2>3. TotalOver(w, Listed(o, i)) = TotalOver(w, Listed(o, i - 1)) + TotalOver(w, {o[i]})
    <3>1. TotalOver(w, Listed(o, i - 1) \cup {o[i]})
            = TotalOver(w, Listed(o, i - 1)) + TotalOver(w, {o[i]})
      BY <2>2, OverUnion
    <3>2. QED
      BY <2>2, <3>1
  <2>4. TotalOver(w, {o[i]}) = s[i]
    BY OverOne
  <2>5. QED
    BY <2>1, <2>3, <2>4
<1> HIDE DEF g
<1>4. Sums(s, g)
  BY <1>2, <1>3 DEF Sums
<1>5. Total(s) = g[m]
  BY <1>4, TotalUnique
<1>6. m \in 0 .. m
  BY <1>1
<1>7. QED
  BY <1>5, <1>6 DEF g

-----------------------------------------------------------------------------
(* Ranking.                                                                *)

Rank(w, i) == Cardinality(Before(w, i))

\* Of two places one comes before the other, and with it all that come
\* before it.
LEMMA BeforeIs ==
  ASSUME NEW w \in Seq(Nat), NEW i \in 1 .. Len(w)
  PROVE  /\ Before(w, i) \subseteq 1 .. Len(w) /\ i \notin Before(w, i)
         /\ IsFiniteSet(Before(w, i)) /\ Rank(w, i) \in 0 .. Len(w) - 1
         /\ \A j \in Before(w, i) : Rank(w, j) < Rank(w, i)
         /\ \A j \in 1 .. Len(w) : j # i => j \in Before(w, i) \/ i \in Before(w, j)
<1> DEFINE n == Len(w)
<1>1. n \in Nat /\ DOMAIN w = 1 .. n /\ \A j \in 1 .. n : w[j] \in Nat
  BY LenProperties, ElementOfSeq
<1> HIDE DEF n
<1>2. IsFiniteSet(1 .. n) /\ Cardinality(1 .. n) = n
  <2>1. IsFiniteSet(1 .. n) /\ Cardinality(1 .. n) = IF 1 > n THEN 0 ELSE n - 1 + 1
    BY <1>1, FS_Interval
  <2>2. QED
    BY <1>1, <2>1
<1>3. ASSUME NEW j \in 1 .. n
      PROVE  /\ Before(w, j) \subseteq 1 .. n /\ j \notin Before(w, j)
             /\ IsFiniteSet(Before(w, j)) /\ Rank(w, j) \in 0 .. n - 1
  <2>1. Before(w, j) \subseteq 1 .. n /\ j \notin Before(w, j)
    BY <1>1 DEF Before
  <2>2. /\ IsFiniteSet(Before(w, j)) /\ Cardinality(Before(w, j)) <= n
        /\ Cardinality(Before(w, j)) # n
    BY <1>2, <2>1, FS_Subset
  <2>3. Cardinality(Before(w, j)) \in Nat
    BY <2>2, FS_CardinalityType
  <2>4. QED
    BY <1>1, <2>1, <2>2, <2>3 DEF Rank
<1>4. i \in 1 .. n
  BY DEF n
<1>5. ASSUME NEW j \in Before(w, i) PROVE Rank(w, j) < Rank(w, i)
  <2>1. j \in 1 .. n
    BY <1>3, <1>4
  <2>2. Before(w, j) \in SUBSET Before(w, i) /\ j \notin Before(w, j)
    <3>1. w[j] \in Nat /\ w[i] \in Nat /\ \A m \in 1 .. n : w[m] \in Nat /\ m \in Int
      BY <1>1, <1>4, <2>1
    <3>2. ASSUME NEW m \in Before(w, j) PROVE m \in Before(w, i)
      <4>1. m \in 1 .. n /\ (w[m] > w[j] \/ (w[m] = w[j] /\ m < j))
        BY <1>1, <3>2 DEF Before
      <4>2. w[j] > w[i] \/ (w[j] = w[i] /\ j < i)
        BY <1>5 DEF Before
      <4>3. w[m] > w[i] \/ (w[m] = w[i] /\ m < i)
        BY <1>4, <2>1, <3>1, <4>1, <4>2, SMTT(30)
      <4>4. QED
        BY <1>1, <4>1, <4>3 DEF Before
    <3>3. QED
      BY <1>3, <2>1, <3>2
  <2>3. IsFiniteSet(Before(w, i)) /\ Before(w, i) # Before(w, j)
    BY <1>3, <1>4, <1>5, <2>2
  <2>4. /\ Cardinality(Before(w, j)) <= Cardinality(Before(w, i))
        /\ Cardinality(Before(w, i)) # Cardinality(Before(w, j))
    BY <2>2, <2>3, FS_Subset
  <2>5. Cardinality(Before(w, j)) \in Nat /\ Cardinality(Before(w, i)) \in Nat
    BY <1>3, <1>4, <2>1, FS_CardinalityType
  <2>6. QED
    BY <2>4, <2>5 DEF Rank
<1>6. ASSUME NEW j \in 1 .. n, j # i PROVE j \in Before(w, i) \/ i \in Before(w, j)
  BY <1>1, <1>4, <1>6 DEF Before
<1>7. QED
  BY <1>3, <1>4, <1>5, <1>6 DEF n

\* Ranked lists every place once, each behind those that come before it.
LEMMA RankedIs ==
  ASSUME NEW w \in Seq(Nat)
  PROVE  /\ DOMAIN Ranked(w) = 1 .. Len(w)
         /\ \A r \in 1 .. Len(w) : /\ Ranked(w)[r] \in 1 .. Len(w)
                                   /\ Rank(w, Ranked(w)[r]) = r - 1
         /\ \A i \in 1 .. Len(w) : /\ Rank(w, i) + 1 \in 1 .. Len(w)
                                   /\ Ranked(w)[Rank(w, i) + 1] = i
<1> DEFINE n == Len(w)
           f == [i \in 1 .. n |-> Rank(w, i) + 1]
<1>1. n \in Nat /\ DOMAIN w = 1 .. n
  BY LenProperties
<1>2. ASSUME NEW i \in 1 .. n
      PROVE  Rank(w, i) \in Nat /\ Rank(w, i) + 1 \in 1 .. n
  BY <1>1, BeforeIs
<1>3. ASSUME NEW i \in 1 .. n, NEW j \in 1 .. n, Rank(w, i) = Rank(w, j)
      PROVE  i = j
  <2>1. SUFFICES ASSUME i # j PROVE FALSE
    OBVIOUS
  <2>2. j \in Before(w, i) \/ i \in Before(w, j)
    BY <2>1, BeforeIs
  <2>3. Rank(w, j) < Rank(w, i) \/ Rank(w, i) < Rank(w, j)
    BY <2>2, BeforeIs
  <2>4. QED
    BY <1>2, <1>3, <2>3
<1>4. f \in Injection(1 .. n, 1 .. n)
  <2>1. f \in [1 .. n -> 1 .. n]
    BY <1>2
  <2>2. \A i, j \in 1 .. n : f[i] = f[j] => i = j
    BY <1>2, <1>3
  <2> HIDE DEF f
  <2>3. QED
    BY <2>1, <2>2 DEF Injection, IsInjective
<1>5. IsFiniteSet(1 .. n)
  BY <1>1, FS_Interval
<1>6. f \in Surjection(1 .. n, 1 .. n)
  <2> HIDE DEF f
  <2>1. QED
    BY <1>4, <1>5, FS_Injection
<1>7. \A r \in 1 .. n : \E i \in 1 .. n : f[i] = r
  BY <1>6 DEF Surjection
<1>8. DOMAIN Ranked(w) = 1 .. n
  BY <1>1 DEF Ranked
<1>9. ASSUME NEW r \in 1 .. n
      PROVE  Ranked(w)[r] \in 1 .. n /\ Rank(w, Ranked(w)[r]) = r - 1
  <2>1. PICK i \in 1 .. n : f[i] = r
    BY <1>7
  <2>2. Rank(w, i) = r - 1
    <3>1. r = Rank(w, i) + 1 /\ Rank(w, i) \in Nat
      BY <1>2, <2>1
    <3>2. QED
      BY <3>1
  <2>3. Ranked(w)[r] = CHOOSE j \in 1 .. n : Rank(w, j) = r - 1
    BY <1>1 DEF Ranked, Rank
  <2>4. QED
    BY <2>2, <2>3
<1>10. ASSUME NEW i \in 1 .. n PROVE Ranked(w)[Rank(w, i) + 1] = i
  <2> DEFINE r == Rank(w, i) + 1
  <2>1. r \in 1 .. n /\ r - 1 = Rank(w, i)
    BY <1>2
  <2>2. Ranked(w)[r] \in 1 .. n /\ Rank(w, Ranked(w)[r]) = Rank(w, i)
    BY <1>9, <2>1
  <2>3. QED
    BY <1>3, <2>2
<1>11. QED
  BY <1>2, <1>8, <1>9, <1>10

\* The first m of a ranking.
LEMMA FirstRanked ==
  ASSUME NEW w \in Seq(Nat), NEW m \in 0 .. Len(w)
  PROVE  {Ranked(w)[r] : r \in 1 .. m} = {i \in 1 .. Len(w) : Rank(w, i) < m}
<1>1. Len(w) \in Nat /\ m \in Nat /\ m <= Len(w)
  BY LenProperties
<1>2. ASSUME NEW r \in 1 .. m
      PROVE  Ranked(w)[r] \in 1 .. Len(w) /\ Rank(w, Ranked(w)[r]) < m
  <2>1. r \in 1 .. Len(w) /\ r - 1 < m
    BY <1>1
  <2>2. QED
    BY <2>1, RankedIs
<1>3. ASSUME NEW i \in 1 .. Len(w), Rank(w, i) < m
      PROVE  \E r \in 1 .. m : Ranked(w)[r] = i
  <2>1. Rank(w, i) + 1 \in 1 .. Len(w) /\ Ranked(w)[Rank(w, i) + 1] = i /\ Rank(w, i) \in 0 .. Len(w) - 1
    BY RankedIs, BeforeIs
  <2>2. Rank(w, i) + 1 \in 1 .. m
    BY <1>1, <1>3, <2>1
  <2>3. QED
    BY <2>1, <2>2
<1>4. QED
  BY <1>2, <1>3

\* What comes before a place is what ranks before it.
LEMMA BeforeRanked ==
  ASSUME NEW w \in Seq(Nat), NEW i \in 1 .. Len(w)
  PROVE  Before(w, i) = {j \in 1 .. Len(w) : Rank(w, j) < Rank(w, i)}
<1>1. ASSUME NEW j \in Before(w, i) PROVE j \in 1 .. Len(w) /\ Rank(w, j) < Rank(w, i)
  BY BeforeIs
<1>2. ASSUME NEW j \in 1 .. Len(w), Rank(w, j) < Rank(w, i) PROVE j \in Before(w, i)
  <2>1. Rank(w, j) \in Nat /\ Rank(w, i) \in Nat
    BY BeforeIs
  <2>2. j # i
    BY <1>2, <2>1
  <2>3. i \in Before(w, j) => Rank(w, i) < Rank(w, j)
    BY BeforeIs
  <2>4. j \in Before(w, i) \/ i \in Before(w, j)
    BY <2>2, BeforeIs
  <2>5. QED
    BY <1>2, <2>1, <2>3, <2>4
<1>3. QED
  BY <1>1, <1>2

\* The first m of a ranking add up to what ranks before m.
LEMMA RankedSum ==
  ASSUME NEW w \in Seq(Nat), NEW m \in 0 .. Len(w), NEW s \in Seq(Nat), Len(s) = m,
         \A r \in 1 .. m : s[r] = w[Ranked(w)[r]]
  PROVE  Total(s) = TotalOver(w, {i \in 1 .. Len(w) : Rank(w, i) < m})
<1>1. Len(w) \in Nat /\ m \in Nat /\ m <= Len(w)
  BY LenProperties
<1> DEFINE o == Ranked(w)
<1>2. \A r \in 1 .. m : o[r] \in 1 .. Len(w) /\ Rank(w, o[r]) = r - 1
  <2> TAKE r \in 1 .. m
  <2>1. r \in 1 .. Len(w)
    BY <1>1
  <2>2. QED
    BY <2>1, RankedIs
<1>3. \A q, r \in 1 .. m : o[q] = o[r] => q = r
  <2> SUFFICES ASSUME NEW q \in 1 .. m, NEW r \in 1 .. m, o[q] = o[r] PROVE q = r
    OBVIOUS
  <2>1. q - 1 = r - 1
    BY <1>2
  <2>2. QED
    BY <1>1, <2>1
<1>4. {o[r] : r \in 1 .. m} = {i \in 1 .. Len(w) : Rank(w, i) < m}
  BY FirstRanked
<1> HIDE DEF o
<1>5. \A r \in 1 .. m : s[r] = w[o[r]]
  BY DEF o
<1>6. Total(s) = TotalOver(w, Listed(o, Len(s)))
  <2>1. /\ \A r \in 1 .. Len(s) : o[r] \in 1 .. Len(w) /\ s[r] = w[o[r]]
        /\ \A q, r \in 1 .. Len(s) : o[q] = o[r] => q = r
    BY <1>2, <1>3, <1>5
  <2>2. QED
    BY <2>1, Along
<1>7. QED
  BY <1>4, <1>6 DEF Listed

-----------------------------------------------------------------------------
(* The sampler.                                                            *)

\* The ids with a larger weight than id i.
Above(w, i) == {j \in DOMAIN w : w[j] > w[i]}

LEMMA AboveIs ==
  ASSUME NEW w \in Seq(Nat), NEW i \in 1 .. Len(w)
  PROVE  /\ IsFiniteSet(Above(w, i)) /\ Cardinality(Above(w, i)) \in 0 .. Rank(w, i)
         /\ Above(w, i) \subseteq Before(w, i)
<1>1. DOMAIN w = 1 .. Len(w) /\ \A j \in 1 .. Len(w) : w[j] \in Nat
  BY LenProperties, ElementOfSeq
<1>2. Above(w, i) \in SUBSET Before(w, i)
  BY <1>1 DEF Above, Before
<1>3. IsFiniteSet(Before(w, i)) /\ Rank(w, i) \in Nat
  BY BeforeIs
<1>4. IsFiniteSet(Above(w, i)) /\ Cardinality(Above(w, i)) <= Rank(w, i)
  BY <1>2, <1>3, FS_Subset DEF Rank
<1>5. Cardinality(Above(w, i)) \in Nat
  BY <1>4, FS_CardinalityType
<1>6. QED
  BY <1>2, <1>3, <1>4, <1>5

\* What has a larger weight than an id in the top is in the top, and so is the
\* first of the order.
LEMMA InTopIs ==
  ASSUME NEW w \in Seq(Nat), Len(w) # 0, NEW k \in Nat
  PROVE  /\ InTop(w, k) \subseteq 1 .. Len(w)
         /\ \A i \in InTop(w, k) : Before(w, i) \subseteq InTop(w, k)
         /\ \E i \in InTop(w, k) : Before(w, i) = {}
<1>1. /\ Len(w) \in Nat \ {0} /\ DOMAIN w = 1 .. Len(w)
      /\ \A j \in 1 .. Len(w) : w[j] \in Nat
  BY LenProperties, ElementOfSeq
<1>2. \A i : i \in InTop(w, k) <=> /\ i \in 1 .. Len(w)
                                   /\ k = 0 \/ Cardinality(Above(w, i)) < k
  BY <1>1 DEF InTop, Above
<1>3. ASSUME NEW i \in InTop(w, k), NEW j \in Before(w, i) PROVE j \in InTop(w, k)
  <2>1. i \in 1 .. Len(w) /\ j \in 1 .. Len(w)
    BY <1>2, BeforeIs
  <2>2. w[j] >= w[i] /\ w[j] \in Nat /\ w[i] \in Nat
    BY <1>1, <2>1 DEF Before
  <2>3. Above(w, j) \in SUBSET Above(w, i)
    BY <1>1, <2>2 DEF Above
  <2>4. /\ IsFiniteSet(Above(w, i))
        /\ Cardinality(Above(w, i)) \in Nat /\ Cardinality(Above(w, j)) \in Nat
    <3>1. Rank(w, i) \in Nat /\ Rank(w, j) \in Nat
      BY <2>1, BeforeIs
    <3>2. QED
      BY <2>1, <3>1, AboveIs
  <2>5. Cardinality(Above(w, j)) <= Cardinality(Above(w, i))
    BY <2>3, <2>4, FS_Subset
  <2>6. QED
    BY <1>2, <2>1, <2>4, <2>5
<1>4. \E i \in InTop(w, k) : Before(w, i) = {}
  <2> DEFINE i == Ranked(w)[1]
  <2>1. 1 \in 1 .. Len(w)
    BY <1>1
  <2>2. i \in 1 .. Len(w) /\ Rank(w, i) = 1 - 1
    BY <2>1, RankedIs
  <2> HIDE DEF i
  <2>3. Rank(w, i) = 0
    BY <2>2
  <2>4. Before(w, i) = {}
    <3>1. IsFiniteSet(Before(w, i))
      BY <2>2, BeforeIs
    <3>2. QED
      BY <2>3, <3>1, FS_EmptySet DEF Rank
  <2>5. Cardinality(Above(w, i)) \in 0 .. 0
    BY <2>2, <2>3, AboveIs
  <2>6. k = 0 \/ Cardinality(Above(w, i)) < k
    BY <2>5
  <2>7. QED
    BY <1>2, <2>2, <2>4, <2>6
<1>5. QED
  BY <1>2, <1>3, <1>4

\* Top-k keeps the weights of the top and zeroes the rest.
LEMMA TopKIs ==
  ASSUME NEW w \in Seq(Nat), Len(w) # 0, NEW k \in Nat
  PROVE  TopK(w, k) = Masked(w, InTop(w, k))
<1> DEFINE n == Len(w)
<1>1. n \in Nat \ {0} /\ DOMAIN w = 1 .. n /\ \A j \in 1 .. n : w[j] \in Nat
  BY LenProperties, ElementOfSeq
<1>2. \A i : i \in InTop(w, k) <=> /\ i \in 1 .. n
                                   /\ k = 0 \/ Cardinality(Above(w, i)) < k
  BY <1>1 DEF InTop, Above
<1>3. ASSUME NEW i \in 1 .. n
      PROVE  /\ IsFiniteSet(Above(w, i)) /\ Cardinality(Above(w, i)) \in Nat
             /\ Cardinality(Above(w, i)) < n
  <2>1. Rank(w, i) \in 0 .. n - 1
    BY BeforeIs
  <2>2. IsFiniteSet(Above(w, i)) /\ Cardinality(Above(w, i)) \in 0 .. Rank(w, i)
    BY AboveIs
  <2>3. QED
    BY <1>1, <2>1, <2>2
<1>4. CASE k > 0 /\ k < n
  <2> DEFINE t == Ranked(w)[k]
  <2>1. k \in 1 .. n
    BY <1>1, <1>4
  <2>2. t \in 1 .. n /\ Rank(w, t) = k - 1
    BY <2>1, RankedIs
  <2> HIDE DEF t
  <2>3. /\ IsFiniteSet(Before(w, t)) /\ t \notin Before(w, t)
        /\ Cardinality(Before(w, t)) = k - 1
    BY <2>2, BeforeIs DEF Rank
  <2>4. ASSUME NEW i \in 1 .. n PROVE w[i] < w[t] <=> i \notin InTop(w, k)
    <3>1. w[i] \in Nat /\ w[t] \in Nat
      BY <1>1, <2>2
    <3>2. CASE w[i] < w[t]
      <4>1. Before(w, t) \cup {t} \in SUBSET Above(w, i)
        BY <1>1, <2>2, <3>1, <3>2 DEF Before, Above
      <4>2. Cardinality(Before(w, t) \cup {t}) = (k - 1) + 1
        BY <2>3, FS_AddElement
      <4>3. Cardinality(Before(w, t) \cup {t}) <= Cardinality(Above(w, i))
        BY <1>3, <4>1, FS_Subset
      <4>4. ~(Cardinality(Above(w, i)) < k) /\ k # 0
        BY <1>3, <1>4, <4>2, <4>3
      <4>5. QED
        BY <1>2, <3>2, <4>4
    <3>3. CASE ~(w[i] < w[t])
      <4>1. Above(w, i) \in SUBSET Before(w, t)
        BY <1>1, <2>2, <3>1, <3>3 DEF Before, Above
      <4>2. Cardinality(Above(w, i)) <= k - 1
        BY <2>3, <4>1, FS_Subset
      <4>3. Cardinality(Above(w, i)) < k
        BY <1>3, <4>2
      <4>4. QED
        BY <1>2, <3>3, <4>3
    <3>4. QED
      BY <3>2, <3>3
  <2>5. TopK(w, k) = [i \in 1 .. n |-> IF w[i] < w[t] THEN 0 ELSE w[i]]
    BY <1>1, <1>4 DEF TopK, t
  <2>6. Masked(w, InTop(w, k)) = [i \in 1 .. n |-> IF i \in InTop(w, k) THEN w[i] ELSE 0]
    BY <1>1 DEF Masked
  <2>7. QED
    BY <2>4, <2>5, <2>6
<1>5. CASE ~(k > 0 /\ k < n)
  <2>1. ASSUME NEW i \in 1 .. n PROVE i \in InTop(w, k)
    BY <1>1, <1>2, <1>3, <1>5, SMTT(30)
  <2>2. TopK(w, k) = w
    BY <1>5 DEF TopK
  <2>3. w = [i \in 1 .. n |-> w[i]]
    BY <1>1, LenProperties
  <2>4. Masked(w, InTop(w, k)) = [i \in 1 .. n |-> w[i]]
    BY <1>1, <2>1 DEF Masked
  <2>5. QED
    BY <2>2, <2>3, <2>4
<1>6. QED
  BY <1>4, <1>5

\* The nucleus, without the order.
LEMMA NucleusIs ==
  ASSUME NEW v \in Seq(Nat), NEW p \in Nat, NEW i
  PROVE  i \in Nucleus(v, p) <=>
           /\ i \in 1 .. Len(v)
           /\ Before(v, i) = {} \/ 10 * TotalOver(v, Before(v, i)) < p * Total(v)
<1> DEFINE n == Len(v)
           order == Ranked(v)
           Mass(m) == Total([q \in 1 .. m |-> v[order[q]]])
           Taken(m) == m = 1 \/ 10 * Mass(m - 1) < p * Total(v)
           InMass(x) == Before(v, x) = {} \/ 10 * TotalOver(v, Before(v, x)) < p * Total(v)
<1>1. n \in Nat /\ DOMAIN v = 1 .. n /\ \A j \in 1 .. n : v[j] \in Nat
  BY LenProperties, ElementOfSeq
<1>2. Nucleus(v, p) = {order[m] : m \in {q \in 1 .. n : Taken(q)}}
  BY <1>1 DEF Nucleus
<1>3. ASSUME NEW m \in 1 .. n PROVE order[m] \in 1 .. n /\ Rank(v, order[m]) = m - 1
  BY RankedIs
<1>4. ASSUME NEW x \in 1 .. n PROVE Rank(v, x) + 1 \in 1 .. n /\ order[Rank(v, x) + 1] = x
  BY RankedIs
<1> HIDE DEF order
<1>5. ASSUME NEW m \in 1 .. n PROVE Taken(m) <=> InMass(order[m])
  <2> DEFINE x == order[m]
             s == [q \in 1 .. m - 1 |-> v[order[q]]]
  <2>1. x \in 1 .. n /\ Rank(v, x) = m - 1 /\ m - 1 \in 0 .. n /\ m - 1 \in Nat
    BY <1>1, <1>3
  <2>2. m = 1 <=> Before(v, x) = {}
    <3>1. IsFiniteSet(Before(v, x))
      BY <2>1, BeforeIs
    <3>2. Cardinality(Before(v, x)) = 0 <=> Before(v, x) = {}
      BY <3>1, FS_EmptySet
    <3>3. QED
      BY <2>1, <3>2 DEF Rank
  <2>3. s \in Seq(Nat) /\ Len(s) = m - 1 /\ \A q \in 1 .. m - 1 : s[q] = v[Ranked(v)[q]]
    <3>1. \A q \in 1 .. m - 1 : v[order[q]] \in Nat
      BY <1>1, <1>3, <2>1
    <3>2. QED
      BY <2>1, <3>1 DEF order
  <2> HIDE DEF s, x
  <2>4. Before(v, x) = {j \in 1 .. n : Rank(v, j) < m - 1}
    BY <2>1, BeforeRanked
  <2>5. Total(s) = TotalOver(v, {j \in 1 .. n : Rank(v, j) < m - 1})
    BY <2>1, <2>3, RankedSum
  <2>6. Mass(m - 1) = TotalOver(v, Before(v, x))
    BY <2>4, <2>5 DEF s
  <2>7. QED
    BY <2>2, <2>6 DEF x
<1> HIDE DEF Taken, InMass
<1>6. ASSUME i \in Nucleus(v, p) PROVE i \in 1 .. n /\ InMass(i)
  BY <1>2, <1>3, <1>5, <1>6
<1>7. ASSUME i \in 1 .. n, InMass(i) PROVE i \in Nucleus(v, p)
  BY <1>2, <1>4, <1>5, <1>7
<1>8. QED
  BY <1>6, <1>7 DEF InMass

\* Top-p after top-k leaves the candidates: at least one, all of them ids.
LEMMA NucleusTop ==
  ASSUME NEW w \in Seq(Nat \ {0}), Len(w) # 0, NEW k \in Nat, NEW p \in 0 .. 10
  PROVE  /\ Nucleus(TopK(w, k), p) = Candidates(w, k, p)
         /\ Candidates(w, k, p) \subseteq InTop(w, k) /\ Candidates(w, k, p) # {}
<1> DEFINE n == Len(w)
           T == InTop(w, k)
           v == Masked(w, T)
           C == Candidates(w, k, p)
<1>1. /\ w \in Seq(Nat) /\ n \in Nat \ {0} /\ DOMAIN w = 1 .. n
      /\ \A j \in 1 .. n : w[j] \in Nat \ {0}
  BY LenProperties, ElementOfSeq
<1>2. /\ T \subseteq 1 .. n /\ \A i \in T : Before(w, i) \subseteq T
      /\ \E i \in T : Before(w, i) = {}
  BY <1>1, InTopIs
<1>3. /\ v \in Seq(Nat) /\ Len(v) = n /\ DOMAIN v = 1 .. n
      /\ \A i \in 1 .. n : v[i] = IF i \in T THEN w[i] ELSE 0
      /\ TotalOver(w, T) = Total(v)
  <2>1. /\ v \in Seq(Nat) /\ Len(v) = n
        /\ \A i \in 1 .. n : v[i] = IF i \in T THEN w[i] ELSE 0
        /\ TotalOver(w, T) = Total(v)
    BY <1>1, MaskedIs
  <2>2. QED
    BY <2>1, LenProperties
<1>4. TopK(w, k) = v
  BY <1>1, TopKIs
<1>5. \A i : i \in C <=> /\ i \in T
                         /\ \/ Before(w, i) = {}
                            \/ 10 * TotalOver(w, Before(w, i)) < p * TotalOver(w, T)
  BY DEF Candidates
<1>6. \A i : i \in Nucleus(v, p) <=>
               /\ i \in 1 .. n
               /\ Before(v, i) = {} \/ 10 * TotalOver(v, Before(v, i)) < p * Total(v)
  BY <1>3, NucleusIs
<1> HIDE DEF T, v, C, n
<1>7. ASSUME NEW i \in T PROVE i \in Nucleus(v, p) <=> i \in C
  <2>1. i \in 1 .. n /\ Before(w, i) \subseteq T /\ v[i] = w[i]
    BY <1>2, <1>3
  <2>2. ASSUME NEW j \in 1 .. n PROVE j \in Before(v, i) <=> j \in Before(w, i)
    <3>1. CASE j \in T
      <4>1. v[j] = w[j]
        BY <1>3, <3>1
      <4>2. QED
        BY <1>1, <1>3, <2>1, <4>1 DEF Before
    <3>2. CASE j \notin T
      <4>1. v[j] = 0 /\ w[i] \in Nat \ {0} /\ j \notin Before(w, i)
        BY <1>1, <1>3, <2>1, <3>2
      <4>2. QED
        BY <1>3, <2>1, <4>1 DEF Before
    <3>3. QED
      BY <3>1, <3>2
  <2>3. Before(v, i) = Before(w, i)
    <3>1. Before(v, i) \subseteq 1 .. n /\ Before(w, i) \subseteq 1 .. n
      BY <1>1, <1>3 DEF Before
    <3>2. QED
      BY <2>2, <3>1
  <2>4. TotalOver(v, Before(w, i)) = TotalOver(w, Before(w, i))
    <3> DEFINE B == Before(w, i)
    <3> HIDE DEF B
    <3>1. \A j \in 1 .. n : (IF j \in B THEN v[j] ELSE 0) = IF j \in B THEN w[j] ELSE 0
      BY <1>3, <2>1 DEF B
    <3>2. TotalOver(v, B) = TotalOver(w, B)
      BY <1>1, <1>3, <3>1, OverSame, SMTT(30) DEF n
    <3>3. QED
      BY <3>2 DEF B
  <2>5. QED
    BY <1>3, <1>5, <1>6, <2>1, <2>3, <2>4
<1>8. ASSUME NEW i \in Nucleus(v, p), i \notin T PROVE FALSE
  <2>1. i \in 1 .. n /\ v[i] = 0
    BY <1>3, <1>6, <1>8
  <2>2. ASSUME NEW j \in T PROVE j \in Before(v, i)
    <3>1. j \in 1 .. n /\ v[j] = w[j] /\ w[j] \in Nat \ {0}
      BY <1>1, <1>2, <1>3
    <3>2. QED
      BY <1>3, <2>1, <3>1 DEF Before
  <2>3. TotalOver(v, Before(v, i)) = Total(v) /\ Total(v) \in Nat
    <3> DEFINE B == Before(v, i)
    <3> HIDE DEF B
    <3>1. \A j \in 1 .. n : (IF j \in B THEN v[j] ELSE 0) = IF j \in 1 .. n THEN v[j] ELSE 0
      BY <1>3, <2>2 DEF B
    <3>2. TotalOver(v, B) = TotalOver(v, 1 .. n)
      BY <1>3, <3>1, OverSame
    <3>3. TotalOver(v, 1 .. n) = Total(v) /\ Total(v) \in Nat
      BY <1>3, OverAll
    <3>4. QED
      BY <3>2, <3>3 DEF B
  <2>4. Before(v, i) # {}
    BY <1>2, <2>2
  <2>5. 10 * Total(v) < p * Total(v)
    BY <1>6, <2>3, <2>4
  <2>6. QED
    <3> DEFINE t == Total(v)
    <3>1. t \in Nat /\ 10 * t < p * t
      BY <2>3, <2>5
    <3> HIDE DEF t
    <3>2. \/ p = 0 \/ p = 1 \/ p = 2 \/ p = 3 \/ p = 4 \/ p = 5
          \/ p = 6 \/ p = 7 \/ p = 8 \/ p = 9 \/ p = 10
      OBVIOUS
    <3>3. QED
      BY <3>1, <3>2
<1>9. C \subseteq T /\ C # {}
  BY <1>2, <1>5
<1>10. Nucleus(v, p) = C
  BY <1>7, <1>8, <1>9
<1>11. QED
  BY <1>4, <1>9, <1>10 DEF T, v, C

\* Sums grow.
LEMMA SumsGrow ==
  ASSUME NEW s \in Seq(Nat), NEW g, Sums(s, g), \A i \in 0 .. Len(s) : g[i] \in Nat,
         NEW i \in 0 .. Len(s), NEW j \in i .. Len(s)
  PROVE  g[i] <= g[j]
<1> DEFINE n == Len(s)
           Bad == {m \in 0 .. n : i <= m /\ ~(g[i] <= g[m])}
<1>1. n \in Nat /\ \A m \in 1 .. n : s[m] \in Nat
  BY LenProperties, ElementOfSeq
<1>2. \A m \in 1 .. n : g[m] = g[m - 1] + s[m]
  BY DEF Sums
<1>3. i \in 0 .. n /\ j \in i .. n /\ \A m \in 0 .. n : g[m] \in Nat
  OBVIOUS
<1> HIDE DEF n
<1>4. Bad = {}
  <2>1. SUFFICES ASSUME Bad # {} PROVE FALSE
    OBVIOUS
  <2>2. Bad \in SUBSET Nat
    BY <1>1
  <2>3. PICK m \in Bad : \A q \in Bad : m <= q
    BY <2>1, <2>2, Smallest
  <2>4. m \in 0 .. n /\ i <= m /\ ~(g[i] <= g[m])
    OBVIOUS
  <2>5. m # i
    BY <1>3, <2>4
  <2>6. m - 1 \in 0 .. n /\ i <= m - 1 /\ ~(m <= m - 1) /\ m \in 1 .. n
    BY <1>1, <1>3, <2>4, <2>5
  <2>7. m - 1 \notin Bad
    BY <2>3, <2>6
  <2>8. g[i] <= g[m - 1]
    BY <2>6, <2>7
  <2>9. g[m] = g[m - 1] + s[m] /\ s[m] \in Nat /\ g[m - 1] \in Nat /\ g[i] \in Nat
    BY <1>1, <1>2, <1>3, <2>6
  <2>10. g[i] <= g[m]
    BY <2>8, <2>9
  <2>11. QED
    BY <2>4, <2>10
<1>5. j \in 0 .. n /\ i <= j
  BY <1>1, <1>3
<1>6. QED
  BY <1>4, <1>5

\* A draw below the mass finds the id into whose share it falls; a draw of the
\* whole mass finds one that was kept.
LEMMA DrawIs ==
  ASSUME NEW f \in Seq(Nat), NEW C \in SUBSET (1 .. Len(f)), C # {},
         NEW g, Sums(f, g), \A i \in 0 .. Len(f) : g[i] \in Nat
  PROVE  /\ \A i \in 1 .. Len(f), r \in 0 .. g[Len(f)] - 1 :
              Draw(f, C, r) = i <=> g[i - 1] <= r /\ r < g[i]
         /\ Draw(f, C, g[Len(f)]) \in C
<1> DEFINE n == Len(f)
<1>1. n \in Nat /\ DOMAIN f = 1 .. n /\ g[0] = 0 /\ \A i \in 0 .. n : g[i] \in Nat
  BY LenProperties DEF Sums
<1>2. ASSUME NEW i \in 0 .. n, NEW r PROVE Reached(f, r, i) <=> r < g[i]
  BY TotalPrefix DEF Reached
<1>3. ASSUME NEW i \in 0 .. n, NEW j \in i .. n PROVE g[i] <= g[j]
  BY SumsGrow
<1> HIDE DEF n
<1>4. ASSUME NEW i \in 1 .. n, NEW r \in 0 .. g[n] - 1
      PROVE  Draw(f, C, r) = i <=> g[i - 1] <= r /\ r < g[i]
  <2>1. r \in Nat /\ r < g[n] /\ n \in 0 .. n
    BY <1>1
  <2> DEFINE P(m) == Reached(f, r, m) /\ \A j \in 1 .. m - 1 : ~Reached(f, r, j)
             Share(m) == g[m - 1] <= r /\ r < g[m]
  <2>2. ASSUME NEW m \in 1 .. n PROVE P(m) <=> Share(m)
    <3>1. m \in 0 .. n /\ m - 1 \in 0 .. n /\ g[m] \in Nat /\ g[m - 1] \in Nat
      BY <1>1
    <3>2. CASE m = 1
      BY <1>1, <1>2, <2>1, <3>1, <3>2
    <3>3. CASE m # 1
      <4>1. m - 1 \in 1 .. m - 1
        BY <3>3
      <4>2. P(m) => Share(m)
        BY <1>2, <2>1, <3>1, <4>1
      <4>3. ASSUME Share(m), NEW j \in 1 .. m - 1 PROVE ~Reached(f, r, j)
        <5>1. j \in 0 .. n /\ m - 1 \in j .. n
          BY <1>1
        <5>2. g[j] <= g[m - 1] /\ g[j] \in Nat
          BY <1>1, <1>3, <5>1
        <5>3. ~(r < g[j])
          BY <2>1, <3>1, <4>3, <5>2
        <5>4. QED
          BY <1>2, <5>1, <5>3
      <4>4. QED
        BY <1>2, <3>1, <4>2, <4>3
    <3>4. QED
      BY <3>2, <3>3
  <2>3. \E m \in 1 .. n : P(m)
    <3> DEFINE Past == {m \in 0 .. n : r < g[m]}
    <3>1. n \in Past /\ Past \in SUBSET Nat
      BY <1>1, <2>1
    <3>2. PICK m \in Past : \A q \in Past : m <= q
      BY <3>1, Smallest
    <3>3. m \in 0 .. n /\ r < g[m]
      OBVIOUS
    <3>4. m # 0
      BY <1>1, <2>1, <3>3
    <3>5. m \in 1 .. n /\ m - 1 \in 0 .. n /\ ~(m <= m - 1)
      BY <1>1, <3>3, <3>4
    <3>6. ~(r < g[m - 1])
      BY <3>2, <3>5
    <3>7. g[m - 1] <= r
      BY <1>1, <2>1, <3>5, <3>6
    <3>8. QED
      BY <2>2, <3>3, <3>5, <3>7
  <2>4. ASSUME NEW a \in 1 .. n, NEW b \in 1 .. n, P(a), P(b) PROVE a = b
    <3>1. ~(a < b)
      <4>1. a < b => a \in 1 .. b - 1
        BY <1>1
      <4>2. QED
        BY <2>4, <4>1
    <3>2. ~(b < a)
      <4>1. b < a => b \in 1 .. a - 1
        BY <1>1
      <4>2. QED
        BY <2>4, <4>1
    <3>3. QED
      BY <1>1, <3>1, <3>2
  <2>5. Draw(f, C, r) = CHOOSE m \in 1 .. n : P(m)
    <3>1. \E m \in DOMAIN f : Reached(f, r, m)
      BY <1>1, <2>3
    <3>2. QED
      BY <1>1, <3>1 DEF Draw
  <2> HIDE DEF P
  <2>6. Draw(f, C, r) \in 1 .. n /\ P(Draw(f, C, r))
    BY <2>3, <2>5, Zenon
  <2>7. Draw(f, C, r) = i <=> P(i)
    BY <2>4, <2>6
  <2>8. QED
    BY <2>2, <2>7
<1>5. Draw(f, C, g[n]) \in C
  <2>1. ASSUME NEW m \in 1 .. n PROVE ~Reached(f, g[n], m)
    <3>1. m \in 0 .. n /\ n \in m .. n /\ n \in 0 .. n
      BY <1>1
    <3>2. g[m] <= g[n] /\ g[m] \in Nat /\ g[n] \in Nat
      BY <1>1, <1>3, <3>1
    <3>3. QED
      BY <1>2, <3>1, <3>2
  <2>2. Draw(f, C, g[n]) = Max(C)
    BY <1>1, <2>1 DEF Draw
  <2>3. \E x \in C : \A y \in C : x >= y
    <3> DEFINE U == {m \in 0 .. n : \A y \in C : m >= y}
    <3>1. n \in U /\ U \in SUBSET Nat
      BY <1>1 DEF n
    <3>2. PICK m \in U : \A q \in U : m <= q
      BY <3>1, Smallest
    <3>3. m \in 0 .. n /\ \A y \in C : m >= y
      OBVIOUS
    <3>4. m \in C
      <4>1. SUFFICES ASSUME m \notin C PROVE FALSE
        OBVIOUS
      <4>2. C \in SUBSET Nat /\ \A y \in C : y >= 1
        BY <1>1 DEF n
      <4>3. \A y \in C : m - 1 >= y
        BY <1>1, <3>3, <4>1, <4>2
      <4>4. m # 0
        <5>1. PICK y \in C : TRUE
          OBVIOUS
        <5>2. y \in Nat /\ y >= 1 /\ m >= y
          BY <3>3, <4>2
        <5>3. QED
          BY <3>3, <5>2
      <4>5. m - 1 \in 0 .. n /\ ~(m <= m - 1)
        BY <1>1, <3>3, <4>4
      <4>6. QED
        BY <3>2, <4>3, <4>5
    <3>5. QED
      BY <3>3, <3>4
  <2>4. QED
    BY <2>2, <2>3, Zenon DEF Max
<1>6. QED
  BY <1>4, <1>5 DEF n

\* The sampler draws every candidate by as many draws as it has weight and
\* nothing else, for every vocabulary, every top_k and every top_p up to 1
\* (sampler.rs sample_token).
THEOREM DrawsRight ==
  ASSUME NEW w \in Seq(Nat \ {0}), Len(w) # 0, NEW k \in Nat, NEW p \in 0 .. 10
  PROVE  DrawnInProportion(w, k, p)
<1> DEFINE n == Len(w)
           C == Candidates(w, k, p)
           f == Masked(w, C)
           total == TotalOver(w, C)
<1>1. /\ w \in Seq(Nat) /\ n \in Nat /\ DOMAIN w = 1 .. n
      /\ \A j \in 1 .. n : w[j] \in Nat
  BY LenProperties, ElementOfSeq
<1>2. /\ TopK(w, k) = Masked(w, InTop(w, k))
      /\ Nucleus(TopK(w, k), p) = C
      /\ C \subseteq InTop(w, k) /\ C # {} /\ InTop(w, k) \subseteq 1 .. n
  BY <1>1, TopKIs, NucleusTop, InTopIs
<1>3. /\ f \in Seq(Nat) /\ Len(f) = n /\ total = Total(f)
      /\ \A i \in 1 .. n : f[i] = IF i \in C THEN w[i] ELSE 0
  BY <1>1, MaskedIs
<1>4. Filtered(TopK(w, k), p) = f
  <2>1. DOMAIN TopK(w, k) = 1 .. n
    BY <1>1, <1>2 DEF Masked
  <2>2. Filtered(TopK(w, k), p) = [i \in 1 .. n |-> IF i \in C THEN TopK(w, k)[i] ELSE 0]
    BY <1>2, <2>1 DEF Filtered
  <2>3. ASSUME NEW i \in 1 .. n, i \in C PROVE TopK(w, k)[i] = w[i]
    BY <1>1, <1>2, <2>3, MaskedIs
  <2>4. f = [i \in 1 .. n |-> IF i \in C THEN w[i] ELSE 0]
    BY <1>1 DEF Masked
  <2>5. QED
    BY <2>2, <2>3, <2>4
<1> HIDE DEF n, C, f, total
<1>5. ASSUME NEW r PROVE SampleToken(w, k, p, r) = Draw(f, C, r)
  BY <1>2, <1>4 DEF SampleToken
<1>6. PICK g : Sums(f, g) /\ (\A i \in 0 .. n : g[i] \in Nat) /\ total = g[n]
  BY <1>3, TotalIs
<1>7. /\ \A i \in 1 .. n, r \in 0 .. g[n] - 1 :
           Draw(f, C, r) = i <=> g[i - 1] <= r /\ r < g[i]
      /\ Draw(f, C, g[n]) \in C
  <2>1. /\ C \in SUBSET (1 .. Len(f)) /\ C # {} /\ \A i \in 0 .. Len(f) : g[i] \in Nat
        /\ n = Len(f) /\ f \in Seq(Nat) /\ Sums(f, g)
    BY <1>2, <1>3, <1>6
  <2>2. /\ \A i \in 1 .. Len(f), r \in 0 .. g[Len(f)] - 1 :
             Draw(f, C, r) = i <=> g[i - 1] <= r /\ r < g[i]
        /\ Draw(f, C, g[Len(f)]) \in C
    BY <2>1, DrawIs
  <2>3. QED
    BY <2>1, <2>2
<1>8. ASSUME NEW i \in 1 .. n
      PROVE  Cardinality({r \in 0 .. total - 1 : SampleToken(w, k, p, r) = i})
               = IF i \in C THEN w[i] ELSE 0
  <2> DEFINE R == {r \in 0 .. total - 1 : SampleToken(w, k, p, r) = i}
             lo == g[i - 1]
             hi == g[i]
  <2>1. i \in 0 .. n /\ i - 1 \in 0 .. n /\ n \in i .. n /\ i \in 1 .. Len(f) /\ i \in 0 .. Len(f)
    BY <1>1, <1>3
  <2>2. lo \in Nat /\ hi \in Nat /\ hi = lo + f[i] /\ f[i] \in Nat /\ total \in Nat
    <3>1. hi = lo + f[i]
      BY <2>1, <1>6 DEF Sums
    <3>2. f[i] \in Nat
      BY <1>3, <2>1, ElementOfSeq
    <3>3. n \in 0 .. n
      BY <1>1
    <3>4. QED
      BY <1>6, <2>1, <3>1, <3>2, <3>3
  <2>3. hi <= total
    BY <1>3, <1>6, <2>1, SumsGrow
  <2> HIDE DEF lo, hi
  <2>4. ASSUME NEW r \in 0 .. total - 1
        PROVE  SampleToken(w, k, p, r) = i <=> lo <= r /\ r < hi
    BY <1>5, <1>6, <1>7 DEF lo, hi
  <2>5. \A r : r \in R <=> r \in lo .. hi - 1
    <3>1. \A r : r \in R <=> r \in 0 .. total - 1 /\ lo <= r /\ r < hi
      BY <2>4
    <3>2. \A r : r \in lo .. hi - 1 <=> r \in 0 .. total - 1 /\ lo <= r /\ r < hi
      BY <2>2, <2>3, SMTT(30)
    <3> HIDE DEF R
    <3>3. QED
      BY <3>1, <3>2
  <2>6. R = lo .. hi - 1
    <3> HIDE DEF R
    <3>1. QED
      BY <2>5
  <2>7. Cardinality(lo .. hi - 1) = IF lo > hi - 1 THEN 0 ELSE (hi - 1) - lo + 1
    <3>1. lo \in Int /\ hi - 1 \in Int
      BY <2>2
    <3>2. \A x \in Int : Cardinality(lo .. x) = IF lo > x THEN 0 ELSE x - lo + 1
      BY <3>1, FS_Interval
    <3>3. QED
      BY <3>1, <3>2
  <2>8. Cardinality(lo .. hi - 1) = f[i]
    BY <2>2, <2>7, SMTT(30)
  <2>9. QED
    BY <1>3, <2>6, <2>8
<1>9. SampleToken(w, k, p, total) \in C
  BY <1>5, <1>6, <1>7
<1>10. QED
  BY <1>1, <1>8, <1>9 DEF DrawnInProportion, total, C

-----------------------------------------------------------------------------
(* The routing.                                                            *)

\* The recursion in FlattenSeq has a solution, and it is unfolded.
LEMMA FlattenUnfolds ==
  ASSUME NEW ss, Len(ss) \in Nat \ {0}
  PROVE  \E f : /\ f = [i \in 1 .. Len(ss) |-> IF i = 1 THEN ss[i] ELSE f[i - 1] \o ss[i]]
                /\ FlattenSeq(ss) = f[Len(ss)]
<1> DEFINE n == Len(ss)
           Rec(f) == f = [i \in 1 .. n |-> IF i = 1 THEN ss[i] ELSE f[i - 1] \o ss[i]]
           Solves(m, f) == \A i \in 1 .. m : f[i] = IF i = 1 THEN ss[i] ELSE f[i - 1] \o ss[i]
           Lost == {m \in 0 .. n : ~ \E f : Solves(m, f)}
<1>1. n \in Nat \ {0}
  OBVIOUS
<1> HIDE DEF n
<1>2. Lost = {}
  <2>1. SUFFICES ASSUME Lost # {} PROVE FALSE
    OBVIOUS
  <2>2. Lost \in SUBSET Nat
    BY <1>1
  <2>3. PICK m \in Lost : \A k \in Lost : m <= k
    BY <2>1, <2>2, Smallest
  <2>4. m \in 0 .. n /\ ~ \E f : Solves(m, f)
    OBVIOUS
  <2>5. m # 0
    BY <2>4
  <2>6. m - 1 \in 0 .. n /\ m - 1 \notin Lost
    <3> HIDE DEF Lost, Solves
    <3>1. m - 1 \in 0 .. n /\ ~(m <= m - 1)
      BY <1>1, <2>4, <2>5
    <3>2. QED
      BY <2>3, <3>1
  <2>7. PICK f : Solves(m - 1, f)
    BY <2>6
  <2> DEFINE g == [i \in 1 .. m |-> IF i < m THEN f[i] ELSE IF i = 1 THEN ss[i] ELSE f[i - 1] \o ss[i]]
  <2>8. Solves(m, g)
    <3> SUFFICES ASSUME NEW i \in 1 .. m PROVE g[i] = IF i = 1 THEN ss[i] ELSE g[i - 1] \o ss[i]
      OBVIOUS
    <3>1. CASE i < m
      BY <2>4, <2>7, <3>1
    <3>2. CASE i = m
      BY <2>4, <2>7, <3>2
    <3>3. QED
      BY <2>4, <3>1, <3>2
  <2>9. QED
    BY <2>4, <2>8
<1>3. \E f : Solves(n, f)
  <2> HIDE DEF Solves
  <2>1. n \in 0 .. n
    BY <1>1
  <2>2. QED
    BY <1>2, <2>1
<1>4. PICK f : Solves(n, f)
  BY <1>3
<1> DEFINE g == [i \in 1 .. n |-> f[i]]
<1>5. Rec(g)
  <2>1. \A i \in 1 .. n : g[i] = IF i = 1 THEN ss[i] ELSE g[i - 1] \o ss[i]
    BY <1>1, <1>4
  <2>2. QED
    BY <2>1
<1> DEFINE r == CHOOSE x : Rec(x)
<1>6. Rec(r)
  BY <1>5, Zenon
<1>7. FlattenSeq(ss) = r[n]
  BY <1>1, Zenon DEF FlattenSeq, n
<1>8. QED
  BY <1>6, <1>7, Zenon DEF n

\* Sequences of one element each, put behind each other.
Singles(ss, n, e) ==
  DOMAIN ss = 1 .. n /\ Len(ss) = n /\ \A i \in 1 .. n : ss[i] = <<e[i]>>

LEMMA FlattenSingles ==
  ASSUME NEW n \in Nat, NEW ss, NEW e, Singles(ss, n, e)
  PROVE  /\ DOMAIN FlattenSeq(ss) = 1 .. n
         /\ \A i \in 1 .. n : FlattenSeq(ss)[i] = e[i]
<1>0. DOMAIN ss = 1 .. n /\ Len(ss) = n /\ \A i \in 1 .. n : ss[i] = <<e[i]>>
  BY DEF Singles
<1>1. CASE n = 0
  <2>1. FlattenSeq(ss) = ss
    BY <1>0, <1>1 DEF FlattenSeq
  <2>2. QED
    BY <1>0, <1>1, <2>1
<1>2. CASE n # 0
  <2> DEFINE E == {e[i] : i \in 1 .. n}
             Good(x, m) == x \in Seq(E) /\ Len(x) = m /\ \A i \in 1 .. m : x[i] = e[i]
  <2>1. PICK f : /\ f = [i \in 1 .. Len(ss) |-> IF i = 1 THEN ss[i] ELSE f[i - 1] \o ss[i]]
                 /\ FlattenSeq(ss) = f[Len(ss)]
    BY <1>0, <1>2, FlattenUnfolds
  <2>2. \A i \in 1 .. n : f[i] = IF i = 1 THEN <<e[i]>> ELSE f[i - 1] \o <<e[i]>>
    BY <1>0, <2>1
  <2>3. \A i \in 1 .. n : e[i] \in E
    OBVIOUS
  <2> HIDE DEF E
  <2> DEFINE Lost == {m \in 1 .. n : ~Good(f[m], m)}
  <2>4. Lost = {}
    <3>1. SUFFICES ASSUME Lost # {} PROVE FALSE
      OBVIOUS
    <3>2. PICK m \in Lost : \A k \in Lost : m <= k
      <4>1. Lost \in SUBSET Nat
        OBVIOUS
      <4>2. QED
        BY <3>1, <4>1, Smallest
    <3>3. m \in 1 .. n /\ m \in Nat /\ ~Good(f[m], m)
      OBVIOUS
    <3>4. CASE m = 1
      <4>1. f[1] = <<e[1]>> /\ e[1] \in E
        BY <2>2, <2>3, <3>3, <3>4
      <4>2. Good(<<e[1]>>, 1)
        BY <4>1
      <4>3. QED
        BY <3>3, <3>4, <4>1, <4>2
    <3>5. CASE m # 1
      <4>1. m - 1 \in 1 .. n /\ ~(m <= m - 1)
        BY <3>3, <3>5
      <4>2. Good(f[m - 1], m - 1)
        BY <3>2, <4>1
      <4>3. f[m] = f[m - 1] \o <<e[m]>> /\ e[m] \in E
        BY <2>2, <2>3, <3>3, <3>5
      <4> DEFINE x == f[m - 1]
      <4>4. x \in Seq(E) /\ Len(x) = m - 1 /\ \A i \in 1 .. m - 1 : x[i] = e[i]
        BY <4>2
      <4> HIDE DEF x
      <4>5. Good(x \o <<e[m]>>, m)
        BY <3>3, <4>1, <4>3, <4>4
      <4>6. QED
        BY <3>3, <4>3, <4>5 DEF x
    <3>6. QED
      BY <3>4, <3>5
  <2>5. Good(f[n], n)
    <3>1. n \in 1 .. n
      BY <1>2
    <3> HIDE DEF Good
    <3>2. QED
      BY <2>4, <3>1
  <2>6. QED
    BY <1>0, <2>1, <2>5, LenProperties
<1>3. QED
  BY <1>1, <1>2

\* Where token x is sent.
Sent(probs, x, k, normalize) ==
  LET top == TopkCpu(probs[x], k, normalize)
  IN  {[expert |-> top[r].index, of |-> x, weight |-> top[r].weight] : r \in DOMAIN top}

\* moe_forward applied to one row: what TopkCpu says of the row.
LEMMA RoutesOne ==
  ASSUME NEW probs, NEW x, probs[x] \in Seq(Nat), NEW k, NEW normalize
  PROVE  MoeForward(<<x>>, probs, k, normalize) = <<Sent(probs, x, k, normalize)>>
<1> DEFINE ss == [t \in DOMAIN <<x>> |-> probs[<<x>>[t]]]
<1>1. DOMAIN <<x>> = 1 .. 1 /\ 1 .. 1 = {1} /\ <<x>>[1] = x
  OBVIOUS
<1>2. ss = <<probs[x]>> /\ Len(ss) = 1
  BY <1>1
<1>3. FlattenSeq(ss) = probs[x]
  <2>0. Len(ss) \in Nat \ {0}
    BY <1>2
  <2> HIDE DEF ss
  <2>1. PICK f : /\ f = [i \in 1 .. Len(ss) |-> IF i = 1 THEN ss[i] ELSE f[i - 1] \o ss[i]]
                 /\ FlattenSeq(ss) = f[Len(ss)]
    BY <2>0, FlattenUnfolds
  <2>2. f[1] = ss[1] /\ ss[1] = probs[x]
    BY <1>2, <2>1
  <2>3. QED
    BY <1>2, <2>1, <2>2
<1> HIDE DEF ss
<1> DEFINE top == TopkCpu(FlattenSeq(ss), k, normalize)
<1>4. MoeForward(<<x>>, probs, k, normalize) =
        [t \in DOMAIN <<x>> |->
           {[expert |-> top[r].index, of |-> <<x>>[t], weight |-> top[r].weight] :
              r \in DOMAIN top}]
  BY DEF MoeForward, ss
<1> HIDE DEF top
<1>5. MoeForward(<<x>>, probs, k, normalize) =
        << {[expert |-> top[r].index, of |-> x, weight |-> top[r].weight] :
              r \in DOMAIN top} >>
  BY <1>1, <1>4
<1>6. QED
  BY <1>3, <1>5 DEF top, Sent

\* topk_cpu lists the best k with their own scores, over the sum of these.
LEMMA TopkIs ==
  ASSUME NEW s \in Seq(Nat), NEW k \in Nat, NEW normalize \in BOOLEAN
  PROVE  LET top == TopkCpu(s, k, normalize)
             sum == TotalOver(s, Best(s, k))
         IN  /\ \A r \in DOMAIN top :
                  /\ top[r].index \in Nat /\ top[r].index + 1 \in Best(s, k)
                  /\ top[r].weight[1] = s[top[r].index + 1]
                  /\ top[r].weight[2] = IF normalize /\ sum > 0 THEN sum ELSE 1
             /\ \A e \in Best(s, k) : \E r \in DOMAIN top : top[r].index + 1 = e
<1> DEFINE n == Len(s)
           order == Ranked(s)
           m == IF k < n THEN k ELSE n
           first == SubSeq(order, 1, m)
           scores == [r \in DOMAIN first |-> s[first[r]]]
           sum == Total(scores)
           top == TopkCpu(s, k, normalize)
           over == TotalOver(s, Best(s, k))
<1>1. n \in Nat /\ DOMAIN s = 1 .. n /\ m \in 0 .. n /\ \A j \in 1 .. n : s[j] \in Nat
  BY LenProperties, ElementOfSeq
<1>2. order = [r \in 1 .. n |-> order[r]] /\ \A r \in 1 .. n : order[r] \in 1 .. n
  BY <1>1, RankedIs DEF Ranked
<1>3. order \in Seq(1 .. n) /\ Len(order) = n
  BY <1>1, <1>2
<1>4. Best(s, k) = {order[r] : r \in 1 .. m}
  <2>1. Best(s, k) = {i \in 1 .. n : Rank(s, i) < k}
    BY <1>1 DEF Best, Rank
  <2>2. ASSUME NEW i \in 1 .. n PROVE Rank(s, i) < k <=> Rank(s, i) < m
    <3>1. Rank(s, i) \in 0 .. n - 1
      BY BeforeIs
    <3>2. QED
      BY <1>1, <3>1
  <2> HIDE DEF m, n
  <2>3. Best(s, k) = {i \in 1 .. n : Rank(s, i) < m}
    BY <2>1, <2>2
  <2>4. {order[r] : r \in 1 .. m} = {i \in 1 .. n : Rank(s, i) < m}
    BY <1>1, FirstRanked DEF n
  <2>5. QED
    BY <2>3, <2>4
<1>5. TopkCpu(s, k, normalize) =
        [r \in DOMAIN first |->
           [index |-> first[r] - 1,
            weight |-> <<s[first[r]], IF normalize /\ sum > 0 THEN sum ELSE 1>>]]
  BY <1>3 DEF TopkCpu
<1> HIDE DEF m, n
<1>6. DOMAIN first = 1 .. m /\ \A r \in 1 .. m : first[r] = order[r]
  <2> HIDE DEF order
  <2>1. QED
    BY <1>1, <1>3
<1> HIDE DEF first, sum, order
<1>11. /\ DOMAIN top = 1 .. m
       /\ \A r \in 1 .. m :
            /\ top[r].index = order[r] - 1
            /\ top[r].weight = <<s[order[r]], IF normalize /\ sum > 0 THEN sum ELSE 1>>
  <2>1. DOMAIN top = 1 .. m
    BY <1>5, <1>6
  <2>2. ASSUME NEW r \in 1 .. m
        PROVE  top[r] = [index |-> order[r] - 1,
                         weight |-> <<s[order[r]], IF normalize /\ sum > 0 THEN sum ELSE 1>>]
    BY <1>5, <1>6
  <2> HIDE DEF top
  <2>3. QED
    BY <2>1, <2>2
<1> HIDE DEF top
<1>7. scores \in Seq(Nat) /\ Len(scores) = m /\ \A r \in 1 .. m : scores[r] = s[order[r]]
  <2>1. \A r \in 1 .. m : s[order[r]] \in Nat
    BY <1>1, <1>2
  <2> HIDE DEF order
  <2>2. DOMAIN scores = 1 .. m /\ \A r \in 1 .. m : scores[r] = s[order[r]]
    BY <1>6
  <2>3. scores = [r \in 1 .. m |-> scores[r]]
    BY <1>6
  <2> HIDE DEF scores
  <2>4. scores \in [1 .. m -> Nat] /\ m \in Nat
    BY <1>1, <2>1, <2>2, <2>3
  <2>5. QED
    BY <2>2, <2>4
<1> HIDE DEF scores
<1>8. sum = over
  <2>1. Total(scores) = TotalOver(s, {i \in 1 .. n : Rank(s, i) < m})
    BY <1>1, <1>7, RankedSum DEF n, order
  <2>2. {order[r] : r \in 1 .. m} = {i \in 1 .. n : Rank(s, i) < m}
    BY <1>1, FirstRanked DEF n, order
  <2>3. QED
    BY <1>4, <2>1, <2>2 DEF sum
<1>9. ASSUME NEW r \in DOMAIN top
      PROVE  /\ top[r].index \in Nat /\ top[r].index + 1 \in Best(s, k)
             /\ top[r].weight[1] = s[top[r].index + 1]
             /\ top[r].weight[2] = IF normalize /\ over > 0 THEN over ELSE 1
  <2>1. r \in 1 .. m /\ order[r] \in 1 .. n
    BY <1>1, <1>2, <1>11
  <2>2. /\ top[r].index = order[r] - 1
        /\ top[r].weight = <<s[order[r]], IF normalize /\ sum > 0 THEN sum ELSE 1>>
    BY <1>11, <2>1
  <2>3. order[r] \in Best(s, k)
    BY <1>4, <2>1
  <2>4. top[r].index \in Nat /\ top[r].index + 1 = order[r]
    BY <1>1, <2>1, <2>2
  <2>5. top[r].weight[1] = s[order[r]] /\ top[r].weight[2] = IF normalize /\ sum > 0 THEN sum ELSE 1
    BY <2>2
  <2> HIDE DEF over
  <2>6. QED
    BY <1>8, <2>3, <2>4, <2>5
<1>10. ASSUME NEW e \in Best(s, k) PROVE \E r \in DOMAIN top : top[r].index + 1 = e
  <2>1. PICK r \in 1 .. m : e = order[r]
    BY <1>4
  <2>2. r \in DOMAIN top /\ order[r] \in 1 .. n /\ top[r].index = order[r] - 1
    <3>1. r \in 1 .. n
      BY <1>1
    <3>2. QED
      BY <1>2, <1>11, <3>1
  <2>3. top[r].index + 1 = e
    BY <1>1, <2>1, <2>2
  <2>4. QED
    BY <2>2, <2>3
<1>12. QED
  <2> HIDE DEF top, over
  <2>1. /\ \A r \in DOMAIN top :
             /\ top[r].index \in Nat /\ top[r].index + 1 \in Best(s, k)
             /\ top[r].weight[1] = s[top[r].index + 1]
             /\ top[r].weight[2] = IF normalize /\ over > 0 THEN over ELSE 1
        /\ \A e \in Best(s, k) : \E r \in DOMAIN top : top[r].index + 1 = e
    BY <1>9, <1>10
  <2>2. QED
    BY <2>1 DEF top, over

\* Every token of a batch is sent to its own best experts with its own
\* probabilities, for batches of any size and any number of experts (moe.rs
\* moe_forward_batch, which cuts the rows apart).
THEOREM RoutesRight ==
  ASSUME NEW n \in Nat, NEW probs \in [1 .. n -> Seq(Nat)],
         NEW k \in Nat, NEW normalize \in BOOLEAN
  PROVE  RoutedApart(probs, k, normalize)
<1> DEFINE x == [t \in DOMAIN probs |-> t]
           out == MoeForwardBatch(x, probs, k, normalize)
           Top(t) == TopkCpu(probs[t], k, normalize)
           e == [t \in 1 .. n |-> Sent(probs, t, k, normalize)]
           ss == [t \in DOMAIN x |-> MoeForward(<<x[t]>>, probs, k, normalize)]
<1>1. DOMAIN x = 1 .. n /\ \A t \in 1 .. n : x[t] = t /\ probs[t] \in Seq(Nat)
  OBVIOUS
<1>2. DOMAIN ss = 1 .. n /\ Len(ss) = n /\ \A t \in 1 .. n : ss[t] = <<e[t]>>
  <2>1. DOMAIN ss = 1 .. n /\ Len(ss) = n
    BY <1>1
  <2>2. ASSUME NEW t \in 1 .. n PROVE ss[t] = <<e[t]>>
    <3>1. ss[t] = MoeForward(<<t>>, probs, k, normalize) /\ probs[t] \in Seq(Nat)
      BY <1>1
    <3>2. MoeForward(<<t>>, probs, k, normalize) = <<Sent(probs, t, k, normalize)>>
      BY <1>1, RoutesOne
    <3>3. QED
      BY <3>1, <3>2
  <2>3. QED
    BY <2>1, <2>2
<1>3. out = FlattenSeq(ss)
  BY DEF MoeForwardBatch
<1>4. \A t \in 1 .. n : \A o : o \in e[t] <=>
         \E r \in DOMAIN Top(t) :
           o = [expert |-> Top(t)[r].index, of |-> t, weight |-> Top(t)[r].weight]
  BY DEF Sent
<1> HIDE DEF ss, e, out, x
<1>5. DOMAIN out = 1 .. n /\ \A t \in 1 .. n : out[t] = e[t]
  <2>1. Singles(ss, n, e)
    BY <1>2 DEF Singles
  <2>2. QED
    BY <1>3, <2>1, FlattenSingles
<1>6. ASSUME NEW t \in 1 .. n
      PROVE  /\ {o.expert + 1 : o \in out[t]} = Best(probs[t], k)
             /\ \A o \in out[t] :
                  /\ o.of = t /\ o.weight[1] = probs[t][o.expert + 1]
                  /\ o.weight[2] =
                       LET sum == TotalOver(probs[t], Best(probs[t], k))
                       IN  IF normalize /\ sum > 0 THEN sum ELSE 1
  <2> DEFINE top == Top(t)
             sum == TotalOver(probs[t], Best(probs[t], k))
  <2>1. /\ \A r \in DOMAIN top :
             /\ top[r].index \in Nat /\ top[r].index + 1 \in Best(probs[t], k)
             /\ top[r].weight[1] = probs[t][top[r].index + 1]
             /\ top[r].weight[2] = IF normalize /\ sum > 0 THEN sum ELSE 1
        /\ \A b \in Best(probs[t], k) : \E r \in DOMAIN top : top[r].index + 1 = b
    BY <1>1, TopkIs
  <2>2. \A o : o \in out[t] <=>
          \E r \in DOMAIN top : o = [expert |-> top[r].index, of |-> t, weight |-> top[r].weight]
    BY <1>4, <1>5
  <2> HIDE DEF top, sum
  <2>3. ASSUME NEW o \in out[t]
        PROVE  /\ o.expert + 1 \in Best(probs[t], k)
               /\ o.of = t /\ o.weight[1] = probs[t][o.expert + 1]
               /\ o.weight[2] = IF normalize /\ sum > 0 THEN sum ELSE 1
    <3>1. PICK r \in DOMAIN top : o = [expert |-> top[r].index, of |-> t, weight |-> top[r].weight]
      BY <2>2
    <3>2. o.expert = top[r].index /\ o.of = t /\ o.weight = top[r].weight
      BY <3>1
    <3>3. QED
      BY <2>1, <3>2
  <2>4. ASSUME NEW b \in Best(probs[t], k) PROVE \E o \in out[t] : o.expert + 1 = b
    <3>1. PICK r \in DOMAIN top : top[r].index + 1 = b
      BY <2>1
    <3> DEFINE o == [expert |-> top[r].index, of |-> t, weight |-> top[r].weight]
    <3>2. o \in out[t] /\ o.expert + 1 = b
      BY <2>2, <3>1
    <3>3. QED
      BY <3>2
  <2>5. {o.expert + 1 : o \in out[t]} = Best(probs[t], k)
    BY <2>3, <2>4
  <2>6. QED
    BY <2>3, <2>5 DEF sum
<1>7. QED
  BY <1>1, <1>5, <1>6 DEF RoutedApart, out, x

-----------------------------------------------------------------------------
(* What the run asks of routing and sampling.                              *)

\* A function on 1 .. n is a sequence of n elements.
LEMMA FunctionIsSeq ==
  ASSUME NEW S, NEW T, S \subseteq T, NEW n \in Nat, NEW f \in [1 .. n -> S]
  PROVE  f \in Seq(T) /\ Len(f) = n
<1>1. f \in [1 .. n -> T]
  OBVIOUS
<1>2. QED
  BY <1>1

\* In a batch every token goes to its own best experts (moe_forward_batch).
THEOREM RoutedAlways == LayersSpec => []RoutedRight
<1>1. RoutedRight
  <2> SUFFICES ASSUME NEW n \in 1 .. 2, NEW probs \in [1 .. n -> [1 .. Experts -> Scores]],
                      NEW k \in 1 .. Experts + 1, NEW normalize \in BOOLEAN
               PROVE  RoutedApart(probs, k, normalize)
    BY DEF RoutedRight
  <2>1. n \in Nat /\ k \in Nat /\ Experts \in Nat /\ Scores \subseteq Nat
    BY ScoresAssumption
  <2>2. \A t \in 1 .. n : probs[t] \in Seq(Nat)
    BY <2>1, FunctionIsSeq
  <2>3. probs \in [1 .. n -> Seq(Nat)]
    BY <2>2
  <2>4. QED
    BY <2>1, <2>3, RoutesRight
<1>2. QED
  BY <1>1, PTL

\* The sampler draws in proportion what top_k and top_p leave (sample_token).
THEOREM SampledAlways == LayersSpec => []SampledFairly
<1>1. SampledFairly
  <2> SUFFICES ASSUME NEW w \in [1 .. Vocab -> Weights], NEW k \in 0 .. Vocab + 1,
                      NEW p \in 0 .. 10
               PROVE  DrawnInProportion(w, k, p)
    BY DEF SampledFairly
  <2>1. Vocab \in Nat \ {0} /\ Weights \subseteq Nat \ {0} /\ k \in Nat
    BY ScoresAssumption
  <2>2. w \in Seq(Nat \ {0}) /\ Len(w) # 0
    BY <2>1, FunctionIsSeq
  <2>3. QED
    BY <2>1, <2>2, DrawsRight
<1>2. QED
  BY <1>1, PTL
=============================================================================
