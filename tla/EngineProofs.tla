---------------------------- MODULE EngineProofs ----------------------------
(***************************************************************************)
(* Proofs about EngineDecode and EngineHandles, for every number of        *)
(* layers, every prompt length and max_tokens, and every slack and minimal *)
(* capacity, whatever fails: first the tokens, caches and closures of the  *)
(* loop, then its handles, none of which is used after it was freed and    *)
(* none lost without a failure.                                            *)
(***************************************************************************)
EXTENDS EngineHandles, FiniteSetTheorems, TLAPS

\* Layer l holds the rows of the first n tokens, in buffers of the layout in
\* use: static ones have kv_static_cap rows, growing ones exactly n.
Buffered(l, n) ==
  /\ Holds(kv_bufs[l], 0 .. n - 1)
  /\ DOMAIN kv_bufs[l] = IF kv_static_cap > 0 THEN 0 .. kv_static_cap - 1
                                              ELSE 0 .. n - 1

\* Static buffers have room for the whole request, and a mask for each row.
RequestInv ==
  pc \notin {"idle", "echo"} =>
    /\ plen > 0 /\ limit > 0
    /\ Len(out) <= limit
    /\ TokensContinuePrefix
    /\ kv_static_cap > 0 => /\ static_masks = kv_static_cap
                            /\ kv_static_cap >= plen + limit

\* While the prompt is prefilled, layers before `layer' hold it; the static
\* layout is in use exactly as long as there is a compile thread to join.
PrefillInv ==
  pc \in {"prefill", "join"} =>
    /\ offset = 0 /\ out = <<>> /\ by = <<>>
    /\ compiled_static = 0 /\ ~compiled_full
    /\ kv_static_cap = 0 <=> compiler = "none"
    /\ \A l \in Layers : /\ l < layer => Buffered(l, plen)
                         /\ kv_static_cap > 0 =>
                              DOMAIN kv_bufs[l] = 0 .. kv_static_cap - 1
    /\ pc = "join" => layer = NumLayers + 1 /\ logits = plen

FirstInv ==
  pc = "first" =>
    /\ offset = 0 /\ out = <<>> /\ by = <<>>
    /\ logits = plen
    /\ compiled_static = kv_static_cap /\ ~compiled_full
    /\ \A l \in Layers : Buffered(l, plen)

\* During decode every layer holds the tokens before the current one; in an
\* eager step the layers already passed hold the current one as well.
DecodeInv ==
  pc \in {"loop", "eager"} =>
    /\ Len(out) >= 1
    /\ offset = plen + Len(out) - 1
    /\ compiled_static \in {0, kv_static_cap}
    /\ compiled_full => kv_static_cap = 0
    /\ pc = "loop" => \A l \in Layers : Buffered(l, offset)
    /\ pc = "eager" =>
         /\ Len(out) < limit
         /\ compiled_static = 0 /\ ~compiled_full
         /\ \A l \in Layers :
              Buffered(l, IF l < layer THEN offset + 1 ELSE offset)

FinishInv == pc = "finish" => out # <<>>

IInv ==
  /\ TypeOK
  /\ RequestInv
  /\ PrefillInv
  /\ FirstInv
  /\ DecodeInv
  /\ FinishInv
  /\ TokensContinuePrefix

-----------------------------------------------------------------------------
(* The operators on rows.                                                  *)

LEMMA CapacityRoom ==
  ASSUME NEW p \in Nat, NEW m \in Nat
  PROVE  Capacity(p, m) \in Nat /\ Capacity(p, m) >= p + m
BY SizesAssumption DEF Capacity

\* A scatter at `offset' into buffers with room appends one correct row.
LEMMA ScatterAppends ==
  ASSUME NEW rows, NEW c \in Nat, offset \in Nat, offset < c,
         DOMAIN rows = 0 .. c - 1,
         Holds(rows, 0 .. offset - 1),
         Fed = <<offset + 1, offset>>
  PROVE  /\ DOMAIN Scatter(rows) = 0 .. c - 1
         /\ Holds(Scatter(rows), 0 .. offset)
<1>1. DOMAIN Scatter(rows) = 0 .. c - 1
  BY DEF Scatter
<1>2. ASSUME NEW p \in 0 .. offset
      PROVE  Scatter(rows)[p] = <<p + 1, p>>
  <2>1. p \in DOMAIN rows
    OBVIOUS
  <2>2. Scatter(rows)[p] = IF p = offset THEN Fed ELSE rows[p]
    BY <2>1 DEF Scatter
  <2>3. CASE p = offset
    BY <2>2, <2>3
  <2>4. CASE p # offset
    <3>1. p \in 0 .. offset - 1
      BY <2>4
    <3>2. QED
      BY <2>2, <2>4, <3>1 DEF Holds
  <2>5. QED
    BY <2>3, <2>4
<1>3. QED
  BY <1>1, <1>2 DEF Holds

\* A concatenation to a cache of `offset' correct rows appends the next one.
LEMMA ConcatAppends ==
  ASSUME NEW rows, offset \in Nat, offset > 0,
         DOMAIN rows = 0 .. offset - 1,
         Holds(rows, 0 .. offset - 1),
         Fed = <<offset + 1, offset>>
  PROVE  /\ DOMAIN Concat(rows) = 0 .. offset
         /\ Holds(Concat(rows), 0 .. offset)
<1>1. offset - 1 \in DOMAIN rows /\ \A p \in DOMAIN rows : p <= offset - 1
  OBVIOUS
<1>2. ASSUME NEW q \in DOMAIN rows, \A p \in DOMAIN rows : p <= q
      PROVE  q = offset - 1
  <2>1. offset - 1 <= q
    BY <1>1, <1>2
  <2>2. q \in 0 .. offset - 1
    OBVIOUS
  <2>3. QED
    BY <2>1, <2>2
<1>3. (CHOOSE q \in DOMAIN rows : \A p \in DOMAIN rows : p <= q) = offset - 1
  BY <1>1, <1>2
<1>4. DOMAIN rows # {} /\ offset - 1 + 1 = offset
  BY <1>1
<1>5. Concat(rows) = [p \in 0 .. offset |-> IF p = offset THEN Fed ELSE rows[p]]
  BY <1>3, <1>4 DEF Concat
<1>6. ASSUME NEW p \in 0 .. offset
      PROVE  Concat(rows)[p] = <<p + 1, p>>
  <2>1. CASE p = offset
    BY <1>5, <2>1
  <2>2. CASE p # offset
    <3>1. p \in 0 .. offset - 1
      BY <2>2
    <3>2. QED
      BY <1>5, <2>2, <3>1 DEF Holds
  <2>3. QED
    BY <2>1, <2>2
<1>7. QED
  BY <1>5, <1>6 DEF Holds

\* The rows prefill writes, in either layout.
LEMMA PrefillHolds ==
  ASSUME NEW rows, plen \in Nat, kv_static_cap \in Nat, offset = 0,
         kv_static_cap > 0 =>
           /\ DOMAIN rows = 0 .. kv_static_cap - 1
           /\ kv_static_cap >= plen
  PROVE  /\ Holds(PrefillRows(rows), 0 .. plen - 1)
         /\ DOMAIN PrefillRows(rows) = IF kv_static_cap > 0
                                       THEN 0 .. kv_static_cap - 1
                                       ELSE 0 .. plen - 1
<1>1. CASE kv_static_cap > 0
  <2>1. PrefillRows(rows) =
          [p \in 0 .. kv_static_cap - 1 |->
             IF p \in 0 .. plen - 1 THEN <<p - 0 + 1, 0 + (p - 0)>> ELSE rows[p]]
    BY <1>1 DEF PrefillRows, PrefillRow
  <2>2. ASSUME NEW p \in 0 .. plen - 1
        PROVE  PrefillRows(rows)[p] = <<p + 1, p>>
    BY <1>1, <2>1
  <2>3. QED
    BY <1>1, <2>1, <2>2 DEF Holds
<1>2. CASE ~(kv_static_cap > 0)
  <2>1. PrefillRows(rows) = [p \in 0 .. plen - 1 |-> <<p + 1, 0 + p>>]
    BY <1>2 DEF PrefillRows, PrefillRow
  <2>2. QED
    BY <1>2, <2>1 DEF Holds
<1>3. QED
  BY <1>1, <1>2

-----------------------------------------------------------------------------
(* The invariant is inductive.                                             *)

LEMMA EmptyOutput == <<>> \in Seq(Nat) /\ <<>> \in Seq({"argmax", "sampler"})
OBVIOUS

LEMMA InitInv == Init => IInv
<1> SUFFICES ASSUME Init
             PROVE  IInv
  OBVIOUS
<1> USE DEF Init
<1>1. TypeOK
  <2>1. out \in Seq(Nat) /\ by \in Seq({"argmax", "sampler"})
    BY EmptyOutput
  <2>2. layer \in 1 .. NumLayers + 1
    BY SizesAssumption
  <2>3. DOMAIN kv_bufs = Layers /\ \A l \in Layers : DOMAIN kv_bufs[l] = {}
    BY DEF NoRows
  <2>4. QED
    BY <2>1, <2>2, <2>3 DEF TypeOK
<1>2. TokensContinuePrefix
  BY DEF TokensContinuePrefix
<1>3. RequestInv /\ PrefillInv /\ FirstInv /\ DecodeInv /\ FinishInv
  BY DEF RequestInv, PrefillInv, FirstInv, DecodeInv, FinishInv
<1>4. QED
  BY <1>1, <1>2, <1>3 DEF IInv

\* Any error of the MLX path leaves a state the echo can start from.
LEMMA AbandonInv == IInv /\ Abandon => IInv'
<1> SUFFICES ASSUME IInv, Abandon
             PROVE  IInv'
  OBVIOUS
<1> USE DEF Abandon, request, layout, closures, output
<1>1. TypeOK'
  BY DEF IInv, TypeOK, Layers, NoRows
<1>2. TokensContinuePrefix'
  BY DEF IInv, TokensContinuePrefix
<1>3. (RequestInv /\ PrefillInv /\ FirstInv /\ DecodeInv /\ FinishInv)'
  BY DEF RequestInv, PrefillInv, FirstInv, DecodeInv, FinishInv
<1>4. QED
  BY <1>1, <1>2, <1>3 DEF IInv

LEMMA StartInv ==
  ASSUME IInv, NEW p \in PromptLens, NEW m \in MaxTokens,
         NEW t \in {"greedy", "sample"},
         Start(p, m, t) \/ StartFails(p, m, t) \/ Reject(p, m)
  PROVE  IInv'
<1>1. p \in Nat /\ m \in Nat
  BY SizesAssumption
<1>2. Capacity(p, m) \in Nat /\ Capacity(p, m) >= p + m
  BY <1>1, CapacityRoom
<1>3. CASE Start(p, m, t)
  <2> USE <1>3 DEF Start, Reset
  <2>1. TypeOK'
    <3>1. kv_bufs' = ZeroRows(Capacity(p, m))
      OBVIOUS
    <3>2. /\ DOMAIN kv_bufs' = Layers
          /\ \A l \in Layers :
               /\ DOMAIN kv_bufs'[l] \subseteq Nat
               /\ \A q \in DOMAIN kv_bufs'[l] : kv_bufs'[l][q] \in Nat \X Nat
      BY <1>2, <3>1 DEF ZeroRows
    <3>3. out' \in Seq(Nat) /\ by' \in Seq({"argmax", "sampler"})
      BY EmptyOutput
    <3>4. layer' \in 1 .. NumLayers + 1
      BY SizesAssumption
    <3>5. QED
      BY <1>1, <1>2, <3>2, <3>3, <3>4 DEF TypeOK
  <2>2. TokensContinuePrefix' /\ RequestInv'
    BY <1>1, <1>2 DEF TokensContinuePrefix, RequestInv
  <2>3. PrefillInv'
    BY <1>1, <1>2 DEF PrefillInv, Layers, ZeroRows
  <2>4. (FirstInv /\ DecodeInv /\ FinishInv)'
    BY DEF FirstInv, DecodeInv, FinishInv
  <2>5. QED
    BY <2>1, <2>2, <2>3, <2>4 DEF IInv
<1>4. CASE StartFails(p, m, t)
  <2> USE <1>4 DEF StartFails, Reset
  <2>1. static_masks' \in Nat /\ kv_static_cap' \in Nat
    <3>1. PICK n \in 0 .. Capacity(p, m) :
            /\ static_masks' = n
            /\ kv_static_cap' \in (IF n = Capacity(p, m) THEN {0, n} ELSE {0})
      OBVIOUS
    <3>2. QED
      BY <1>2, <3>1
  <2>2. TypeOK'
    BY <1>1, <2>1, EmptyOutput DEF IInv, TypeOK, NoRows
  <2>3. TokensContinuePrefix'
    BY DEF TokensContinuePrefix
  <2>4. (RequestInv /\ PrefillInv /\ FirstInv /\ DecodeInv /\ FinishInv)'
    BY DEF RequestInv, PrefillInv, FirstInv, DecodeInv, FinishInv
  <2>5. QED
    BY <2>2, <2>3, <2>4 DEF IInv
<1>5. CASE Reject(p, m)
  BY <1>5
     DEF Reject, IInv, TypeOK, RequestInv, PrefillInv, FirstInv, DecodeInv,
         FinishInv, TokensContinuePrefix, Buffered, Holds, request, layout,
         closures, output
<1>6. QED
  BY <1>3, <1>4, <1>5

LEMMA CompileReturnsInv == IInv /\ CompileReturns => IInv'
BY DEF CompileReturns, IInv, TypeOK, RequestInv, PrefillInv, FirstInv,
       DecodeInv, FinishInv, TokensContinuePrefix, Buffered, Holds, request,
       layout, closures, output

\* Prefill writes one layer after the other; then its logits are the prompt's.
LEMMA PrefillStepInv ==
  ASSUME IInv, PrefillLayer \/ PrefillEnd
  PROVE  IInv'
<1> USE DEF request, layout, closures, output
<1>1. CASE PrefillLayer
  <2> USE <1>1 DEF PrefillLayer
  <2>0. layer \in Layers /\ offset = 0 /\ plen \in Nat /\ kv_static_cap \in Nat
    BY SizesAssumption DEF IInv, TypeOK, PrefillInv, Layers
  <2> DEFINE rows == kv_bufs[layer]
  <2>1. kv_static_cap > 0 => /\ DOMAIN rows = 0 .. kv_static_cap - 1
                             /\ kv_static_cap >= plen
    BY <2>0 DEF IInv, TypeOK, RequestInv, PrefillInv
  <2>2. /\ Holds(PrefillRows(rows), 0 .. plen - 1)
        /\ DOMAIN PrefillRows(rows) = IF kv_static_cap > 0
                                      THEN 0 .. kv_static_cap - 1
                                      ELSE 0 .. plen - 1
    BY <2>0, <2>1, PrefillHolds
  <2>3. /\ DOMAIN kv_bufs' = Layers
        /\ \A l \in Layers :
             kv_bufs'[l] = IF l = layer THEN PrefillRows(rows) ELSE kv_bufs[l]
    BY <2>0 DEF IInv, TypeOK
  <2>4. \A q \in DOMAIN PrefillRows(rows) : PrefillRows(rows)[q] \in Nat \X Nat
    <3>1. \A q \in DOMAIN rows : rows[q] \in Nat \X Nat
      BY <2>0 DEF IInv, TypeOK
    <3>2. \A q \in 0 .. plen - 1 : PrefillRow(q) \in Nat \X Nat
      BY <2>0 DEF PrefillRow
    <3>3. CASE kv_static_cap > 0
      <4>1. ASSUME NEW q \in DOMAIN rows, q \in 0 .. plen - 1
            PROVE  PrefillRow(q - offset) \in Nat \X Nat
        BY <2>0, <3>2, <4>1
      <4>2. QED
        BY <2>0, <3>1, <3>3, <4>1 DEF PrefillRows
    <3>4. CASE ~(kv_static_cap > 0)
      BY <3>2, <3>4 DEF PrefillRows
    <3>5. QED
      BY <3>3, <3>4
  <2>5. TypeOK'
    BY <2>0, <2>2, <2>3, <2>4, SizesAssumption DEF IInv, TypeOK, Layers
  <2>6. PrefillInv'
    <3>1. ASSUME NEW l \in Layers, l < layer + 1
          PROVE  /\ Holds(kv_bufs'[l], 0 .. plen - 1)
                 /\ DOMAIN kv_bufs'[l] = IF kv_static_cap > 0
                                         THEN 0 .. kv_static_cap - 1
                                         ELSE 0 .. plen - 1
      <4>1. l = layer \/ l < layer
        BY <2>0, <3>1 DEF Layers
      <4>2. QED
        BY <2>2, <2>3, <4>1 DEF IInv, PrefillInv, Buffered
    <3>2. ASSUME NEW l \in Layers, kv_static_cap > 0
          PROVE  DOMAIN kv_bufs'[l] = 0 .. kv_static_cap - 1
      BY <2>2, <2>3, <3>2 DEF IInv, PrefillInv
    <3>3. QED
      BY <3>1, <3>2 DEF IInv, PrefillInv, Buffered, Holds
  <2>7. TokensContinuePrefix' /\ RequestInv'
    BY DEF IInv, TokensContinuePrefix, RequestInv
  <2>8. (FirstInv /\ DecodeInv /\ FinishInv)'
    BY DEF FirstInv, DecodeInv, FinishInv
  <2>9. QED
    BY <2>5, <2>6, <2>7, <2>8 DEF IInv
<1>2. CASE PrefillEnd
  <2> USE <1>2 DEF PrefillEnd
  <2>1. logits' = plen /\ layer = NumLayers + 1 /\ offset = 0 /\ plen \in Nat
    BY DEF IInv, TypeOK, PrefillInv
  <2>2. \A l \in Layers : Buffered(l, plen)
    BY <2>1, SizesAssumption DEF IInv, PrefillInv, Layers
  <2>3. \A l \in Layers : Buffered(l, plen)'
    BY <2>2 DEF Buffered, Holds
  <2>4. TypeOK'
    BY <2>1 DEF IInv, TypeOK
  <2>5. TokensContinuePrefix' /\ RequestInv'
    BY DEF IInv, TokensContinuePrefix, RequestInv
  <2>6. PrefillInv'
    BY <2>1, <2>3 DEF IInv, PrefillInv
  <2>7. FirstInv'
    BY <2>1, <2>3 DEF IInv, PrefillInv, FirstInv
  <2>8. (DecodeInv /\ FinishInv)'
    BY DEF DecodeInv, FinishInv
  <2>9. QED
    BY <2>4, <2>5, <2>6, <2>7, <2>8 DEF IInv
<1>3. QED
  BY <1>1, <1>2

\* Joining the compile thread: static decode, or a second, concat prefill.
LEMMA JoinInv ==
  ASSUME IInv, Join \/ JoinErr
  PROVE  IInv'
<1> USE DEF request, layout, closures, output
<1>1. CASE Join
  <2> USE <1>1 DEF Join
  <2>1. \A l \in Layers : Buffered(l, plen)'
    <3>1. \A l \in Layers : Buffered(l, plen)
      BY SizesAssumption DEF IInv, PrefillInv, Layers
    <3>2. QED
      BY <3>1 DEF Buffered, Holds
  <2>2. TypeOK'
    BY DEF IInv, TypeOK
  <2>3. TokensContinuePrefix' /\ RequestInv'
    BY DEF IInv, TokensContinuePrefix, RequestInv
  <2>4. FirstInv'
    BY <2>1 DEF IInv, PrefillInv, FirstInv
  <2>5. (PrefillInv /\ DecodeInv /\ FinishInv)'
    BY DEF PrefillInv, DecodeInv, FinishInv
  <2>6. QED
    BY <2>2, <2>3, <2>4, <2>5 DEF IInv
<1>2. CASE JoinErr
  <2> USE <1>2 DEF JoinErr
  <2>1. TypeOK'
    <3>1. layer' \in 1 .. NumLayers + 1
      BY SizesAssumption
    <3>2. DOMAIN kv_bufs' = Layers /\ \A l \in Layers : DOMAIN kv_bufs'[l] = {}
      BY DEF NoRows
    <3>3. QED
      BY <3>1, <3>2 DEF IInv, TypeOK
  <2>2. TokensContinuePrefix' /\ RequestInv'
    BY DEF IInv, TokensContinuePrefix, RequestInv
  <2>3. PrefillInv'
    BY SizesAssumption DEF IInv, PrefillInv, Layers
  <2>4. (FirstInv /\ DecodeInv /\ FinishInv)'
    BY DEF FirstInv, DecodeInv, FinishInv
  <2>5. QED
    BY <2>1, <2>2, <2>3, <2>4 DEF IInv
<1>3. QED
  BY <1>1, <1>2

\* The prefill logits give the first token: the continuation of the prompt.
LEMMA FirstTokenInv ==
  ASSUME IInv, FirstToken
  PROVE  IInv'
<1> USE DEF FirstToken, request, layout, closures, output
<1>1. plen \in Nat /\ plen > 0 /\ limit \in Nat /\ limit > 0 /\ logits = plen
  BY DEF IInv, TypeOK, RequestInv, FirstInv
<1>2. /\ out' = <<plen>> /\ out' \in Seq(Nat) /\ Len(out') = 1
      /\ by' \in Seq({"argmax", "sampler"})
  <2>1. Chooser \in {"argmax", "sampler"}
    BY DEF Chooser
  <2>2. by' \in Seq({"argmax", "sampler"})
    BY <2>1
  <2>3. QED
    BY <1>1, <2>2
<1>3. \A l \in Layers : Buffered(l, plen)'
  BY DEF IInv, FirstInv, Buffered, Holds
<1>4. compiled_full' \in BOOLEAN /\ (compiled_full' => kv_static_cap = 0)
  BY DEF IInv, TypeOK, FirstInv
<1>5. TypeOK'
  BY <1>1, <1>2, <1>4 DEF IInv, TypeOK
<1>6. TokensContinuePrefix'
  <2>1. DOMAIN out' = {1} /\ out'[1] = plen /\ plen' = plen
    BY <1>1, <1>2
  <2>2. QED
    BY <1>1, <2>1 DEF TokensContinuePrefix
<1>7. RequestInv'
  BY <1>1, <1>2, <1>6 DEF IInv, RequestInv
<1>8. DecodeInv'
  <2>1. offset' = plen /\ Len(out') = 1 /\ plen' = plen
    BY <1>2
  <2>2. offset' = plen' + Len(out') - 1
    BY <1>1, <2>1
  <2>3. \A l \in Layers : Buffered(l, offset)'
    BY <1>3, <2>1 DEF Buffered
  <2>4. compiled_static' \in {0, kv_static_cap'} /\ kv_static_cap' = kv_static_cap
    BY DEF IInv, FirstInv
  <2>5. QED
    BY <1>2, <1>4, <2>2, <2>3, <2>4 DEF DecodeInv
<1>9. (PrefillInv /\ FirstInv /\ FinishInv)'
  BY <1>2 DEF PrefillInv, FirstInv, FinishInv
<1>10. QED
  BY <1>5, <1>6, <1>7, <1>8, <1>9 DEF IInv

-----------------------------------------------------------------------------
(* One decode step.                                                        *)

\* Where a decode step starts from.
LEMMA StepFacts ==
  ASSUME IInv, pc \in {"loop", "eager"}
  PROVE  /\ offset \in Nat /\ offset > 0
         /\ plen \in Nat /\ limit \in Nat
         /\ Len(out) \in Nat
         /\ offset + 1 = plen + Len(out)
         /\ Fed = <<offset + 1, offset>>
         /\ kv_static_cap \in Nat
         /\ kv_static_cap > 0 /\ Len(out) < limit =>
              offset < kv_static_cap /\ offset < static_masks
<1>1. plen \in Nat /\ limit \in Nat /\ kv_static_cap \in Nat /\ offset \in Nat
  BY DEF IInv, TypeOK
<1>2. Len(out) \in Nat /\ Len(out) >= 1
  BY DEF IInv, TypeOK, DecodeInv
<1>3. plen > 0 /\ offset = plen + Len(out) - 1
  BY DEF IInv, RequestInv, DecodeInv
<1>4. offset > 0 /\ offset + 1 = plen + Len(out)
  BY <1>1, <1>2, <1>3
<1>5. kv_static_cap > 0 =>
        static_masks = kv_static_cap /\ kv_static_cap >= plen + limit
  BY DEF IInv, RequestInv
<1>6. kv_static_cap > 0 /\ Len(out) < limit =>
        offset < kv_static_cap /\ offset < static_masks
  BY <1>1, <1>2, <1>4, <1>5
<1>7. QED
  BY <1>1, <1>2, <1>4, <1>6 DEF Fed

\* Buffers that hold the current token and all before it show exactly those.
LEMMA SeenAll ==
  ASSUME NEW kv, NEW static \in BOOLEAN, offset \in Nat,
         NEW c \in Nat, static => offset < c,
         \A l \in Layers :
           /\ Holds(kv[l], 0 .. offset)
           /\ DOMAIN kv[l] = IF static THEN 0 .. c - 1 ELSE 0 .. offset
  PROVE  Seen(kv, static) = offset + 1
<1>1. ASSUME NEW l \in Layers
      PROVE  Visible(kv[l], static) = 0 .. offset
  <2>1. CASE static
    BY <2>1 DEF Visible
  <2>2. CASE ~static
    BY <2>2 DEF Visible
  <2>3. QED
    BY <2>1, <2>2
<1>2. QED
  BY <1>1 DEF Seen

\* What pushing the right token, or stopping at EOS, does to the output.
LEMMA PushRight ==
  ASSUME IInv, pc \in {"loop", "eager"}, Len(out) < limit,
         NEW how \in {"argmax", "sampler"},
         Push(plen + Len(out), how), plen' = plen
  PROVE  /\ out' \in Seq(Nat) /\ by' \in Seq({"argmax", "sampler"})
         /\ Len(out') <= limit /\ out' # <<>>
         /\ TokensContinuePrefix'
         /\ pc' \in {"loop", "finish"}
         /\ pc' = "loop" => Len(out') = Len(out) + 1
<1>1. /\ out \in Seq(Nat) /\ by \in Seq({"argmax", "sampler"})
      /\ plen \in Nat /\ limit \in Nat /\ Len(out) >= 1
  BY DEF IInv, TypeOK, DecodeInv
<1>2. CASE /\ out' = Append(out, plen + Len(out))
           /\ by' = Append(by, how)
           /\ pc' = "loop"
  <2>1. /\ out' \in Seq(Nat) /\ Len(out') = Len(out) + 1
        /\ by' \in Seq({"argmax", "sampler"})
    BY <1>1, <1>2
  <2>2. ASSUME NEW i \in DOMAIN out'
        PROVE  out'[i] = plen + i - 1
    <3>1. CASE i \in DOMAIN out
      BY <1>1, <1>2, <3>1 DEF IInv, TokensContinuePrefix
    <3>2. CASE i = Len(out) + 1
      BY <1>1, <1>2, <3>2
    <3>3. QED
      BY <1>1, <2>1, <3>1, <3>2
  <2>3. QED
    BY <1>1, <1>2, <2>1, <2>2 DEF TokensContinuePrefix
<1>3. CASE pc' = "finish" /\ UNCHANGED output
  BY <1>1, <1>3 DEF IInv, TokensContinuePrefix, output
<1>4. QED
  BY <1>2, <1>3 DEF Push

\* A decode step that wrote the current token's row in every layer and then
\* moved the offset re-establishes the invariant.
LEMMA StepDone ==
  ASSUME IInv, pc \in {"loop", "eager"}, Len(out) < limit,
         NEW how \in {"argmax", "sampler"},
         Push(plen + Len(out), how),
         offset' = offset + 1,
         UNCHANGED <<request, layout, layer, closures, compiler, logits, reply>>,
         DOMAIN kv_bufs' = Layers,
         \A l \in Layers :
           /\ Holds(kv_bufs'[l], 0 .. offset)
           /\ DOMAIN kv_bufs'[l] = IF kv_static_cap > 0
                                   THEN 0 .. kv_static_cap - 1
                                   ELSE 0 .. offset
           /\ \A p \in DOMAIN kv_bufs'[l] : kv_bufs'[l][p] \in Nat \X Nat
  PROVE  IInv'
<1> USE DEF request, layout, closures
<1>1. /\ out' \in Seq(Nat) /\ by' \in Seq({"argmax", "sampler"})
      /\ Len(out') <= limit /\ out' # <<>>
      /\ TokensContinuePrefix'
      /\ pc' \in {"loop", "finish"}
      /\ pc' = "loop" => Len(out') = Len(out) + 1
  BY PushRight
<1>2. /\ offset \in Nat /\ offset > 0 /\ kv_static_cap \in Nat
      /\ plen \in Nat /\ limit \in Nat /\ Len(out) \in Nat
      /\ offset + 1 = plen + Len(out)
      /\ kv_static_cap > 0 => offset < kv_static_cap
  BY StepFacts
<1>3. \A l \in Layers : /\ DOMAIN kv_bufs'[l] \subseteq Nat
                        /\ \A p \in DOMAIN kv_bufs'[l] : kv_bufs'[l][p] \in Nat \X Nat
  BY <1>2
<1>4. TypeOK'
  BY <1>1, <1>2, <1>3 DEF IInv, TypeOK
<1>5. RequestInv'
  BY <1>1 DEF IInv, RequestInv
<1>6. \A l \in Layers : Buffered(l, offset)'
  BY <1>2 DEF Buffered
<1>7. DecodeInv'
  <2>1. SUFFICES ASSUME pc' = "loop"
                 PROVE  DecodeInv'
    BY <1>1 DEF DecodeInv
  <2>2. Len(out') = Len(out) + 1 /\ plen' = plen
    BY <1>1, <2>1
  <2>3. Len(out') >= 1 /\ offset' = plen' + Len(out') - 1
    BY <1>2, <2>2
  <2>4. /\ compiled_static' \in {0, kv_static_cap'}
        /\ compiled_full' => kv_static_cap' = 0
    BY DEF IInv, DecodeInv
  <2>5. QED
    BY <1>6, <2>1, <2>3, <2>4 DEF DecodeInv
<1>8. (PrefillInv /\ FirstInv /\ FinishInv)'
  BY <1>1 DEF PrefillInv, FirstInv, FinishInv
<1>9. QED
  BY <1>1, <1>4, <1>5, <1>7, <1>8 DEF IInv

\* The two ways a layer takes the current token, as StepDone wants them.
LEMMA LayerScattered ==
  ASSUME IInv, pc \in {"loop", "eager"}, Len(out) < limit, kv_static_cap > 0,
         NEW l \in Layers, Buffered(l, offset)
  PROVE  /\ Holds(Scatter(kv_bufs[l]), 0 .. offset)
         /\ DOMAIN Scatter(kv_bufs[l]) = 0 .. kv_static_cap - 1
         /\ \A p \in DOMAIN Scatter(kv_bufs[l]) :
              Scatter(kv_bufs[l])[p] \in Nat \X Nat
<1>1. /\ offset \in Nat /\ kv_static_cap \in Nat /\ offset < kv_static_cap
      /\ Fed = <<offset + 1, offset>>
  BY StepFacts
<1>2. /\ DOMAIN kv_bufs[l] = 0 .. kv_static_cap - 1
      /\ Holds(kv_bufs[l], 0 .. offset - 1)
  BY DEF Buffered
<1>3. \A p \in DOMAIN kv_bufs[l] : kv_bufs[l][p] \in Nat \X Nat
  BY DEF IInv, TypeOK
<1>4. Fed \in Nat \X Nat
  BY <1>1
<1>5. \A p \in DOMAIN Scatter(kv_bufs[l]) : Scatter(kv_bufs[l])[p] \in Nat \X Nat
  BY <1>3, <1>4 DEF Scatter
<1>6. QED
  BY <1>1, <1>2, <1>5, ScatterAppends

LEMMA LayerConcatenated ==
  ASSUME IInv, pc \in {"loop", "eager"}, kv_static_cap = 0,
         NEW l \in Layers, Buffered(l, offset)
  PROVE  /\ Holds(Concat(kv_bufs[l]), 0 .. offset)
         /\ DOMAIN Concat(kv_bufs[l]) = 0 .. offset
         /\ \A p \in DOMAIN Concat(kv_bufs[l]) :
              Concat(kv_bufs[l])[p] \in Nat \X Nat
<1>1. offset \in Nat /\ offset > 0 /\ Fed = <<offset + 1, offset>>
  BY StepFacts
<1>2. DOMAIN kv_bufs[l] = 0 .. offset - 1 /\ Holds(kv_bufs[l], 0 .. offset - 1)
  BY DEF Buffered
<1>3. /\ DOMAIN Concat(kv_bufs[l]) = 0 .. offset
      /\ Holds(Concat(kv_bufs[l]), 0 .. offset)
  BY <1>1, <1>2, ConcatAppends
<1>4. \A p \in 0 .. offset : <<p + 1, p>> \in Nat \X Nat
  BY <1>1
<1>5. QED
  BY <1>3, <1>4 DEF Holds

LEMMA StaticStepInv ==
  ASSUME IInv, StaticStep
  PROVE  IInv'
<1> USE DEF StaticStep, Stepping
<1>1. kv_static_cap > 0
  BY DEF IInv, TypeOK, DecodeInv
<1>2. ASSUME NEW l \in Layers
      PROVE  /\ Holds(kv_bufs'[l], 0 .. offset)
             /\ DOMAIN kv_bufs'[l] = 0 .. kv_static_cap - 1
             /\ \A p \in DOMAIN kv_bufs'[l] : kv_bufs'[l][p] \in Nat \X Nat
  <2>1. Buffered(l, offset)
    BY DEF IInv, DecodeInv
  <2>2. kv_bufs'[l] = Scatter(kv_bufs[l])
    OBVIOUS
  <2>3. QED
    BY <1>1, <2>1, <2>2, LayerScattered
<1>3. Seen(kv_bufs', TRUE) = plen + Len(out)
  <2>1. /\ offset \in Nat /\ kv_static_cap \in Nat /\ offset < kv_static_cap
        /\ offset + 1 = plen + Len(out)
    BY <1>1, StepFacts
  <2>2. Seen(kv_bufs', TRUE) = offset + 1
    BY <1>2, <2>1, SeenAll
  <2>3. QED
    BY <2>1, <2>2
<1>4. DOMAIN kv_bufs' = Layers
  OBVIOUS
<1>5. QED
  BY <1>1, <1>2, <1>3, <1>4, StepDone

LEMMA CompiledStepInv ==
  ASSUME IInv, CompiledStep
  PROVE  IInv'
<1> USE DEF CompiledStep, Stepping
<1>1. kv_static_cap = 0
  BY DEF IInv, DecodeInv
<1>2. ASSUME NEW l \in Layers
      PROVE  /\ Holds(kv_bufs'[l], 0 .. offset)
             /\ DOMAIN kv_bufs'[l] = 0 .. offset
             /\ \A p \in DOMAIN kv_bufs'[l] : kv_bufs'[l][p] \in Nat \X Nat
  <2>1. Buffered(l, offset)
    BY DEF IInv, DecodeInv
  <2>2. kv_bufs'[l] = Concat(kv_bufs[l])
    OBVIOUS
  <2>3. QED
    BY <1>1, <2>1, <2>2, LayerConcatenated
<1>3. Seen(kv_bufs', FALSE) = plen + Len(out)
  <2>1. offset \in Nat /\ offset + 1 = plen + Len(out)
    BY StepFacts
  <2>2. Seen(kv_bufs', FALSE) = offset + 1
    BY <1>2, <2>1, SeenAll
  <2>3. QED
    BY <2>1, <2>2
<1>4. DOMAIN kv_bufs' = Layers
  OBVIOUS
<1>5. \A l \in Layers : DOMAIN kv_bufs'[l] = IF kv_static_cap > 0
                                              THEN 0 .. kv_static_cap - 1
                                              ELSE 0 .. offset
  BY <1>1, <1>2
<1>6. Push(plen + Len(out), "argmax")
  BY <1>3
<1>7. QED
  BY <1>2, <1>4, <1>5, <1>6, StepDone

\* A closure that fails is dropped and leaves everything else as it was.
LEMMA FallBackInv ==
  ASSUME IInv, StaticStepFails \/ CompiledStepFails
  PROVE  IInv'
<1> USE DEF StaticStepFails, CompiledStepFails, Stepping, request, layout,
            output
<1>1. TypeOK'
  <2>1. CASE StaticStepFails
    BY <2>1 DEF IInv, TypeOK
  <2>2. CASE CompiledStepFails
    BY <2>2 DEF IInv, TypeOK
  <2>3. QED
    BY <2>1, <2>2
<1>2. TokensContinuePrefix' /\ RequestInv'
  BY DEF IInv, TokensContinuePrefix, RequestInv
<1>3. DecodeInv'
  <2>1. \A l \in Layers : Buffered(l, offset)'
    BY DEF IInv, DecodeInv, Buffered, Holds
  <2>2. /\ Len(out) >= 1 /\ offset = plen + Len(out) - 1
        /\ compiled_static' \in {0, kv_static_cap}
        /\ compiled_full' => kv_static_cap = 0
    BY DEF IInv, DecodeInv
  <2>3. QED
    BY <2>1, <2>2 DEF DecodeInv
<1>4. (PrefillInv /\ FirstInv /\ FinishInv)'
  BY DEF PrefillInv, FirstInv, FinishInv
<1>5. QED
  BY <1>1, <1>2, <1>3, <1>4 DEF IInv

LEMMA EagerBeginInv ==
  ASSUME IInv, EagerBegin
  PROVE  IInv'
<1> USE DEF EagerBegin, Stepping, request, layout, closures, output
<1>1. TypeOK'
  <2>1. layer' \in 1 .. NumLayers + 1
    BY SizesAssumption
  <2>2. QED
    BY <2>1 DEF IInv, TypeOK
<1>2. TokensContinuePrefix' /\ RequestInv'
  BY DEF IInv, TokensContinuePrefix, RequestInv
<1>3. DecodeInv'
  <2>1. \A l \in Layers : Buffered(l, IF l < layer THEN offset + 1 ELSE offset)'
    <3>1. ASSUME NEW l \in Layers
          PROVE  Buffered(l, offset)'
      BY DEF IInv, DecodeInv, Buffered, Holds
    <3>2. \A l \in Layers : ~(l < layer')
      BY SizesAssumption DEF Layers
    <3>3. QED
      BY <3>1, <3>2 DEF Buffered
  <2>2. QED
    BY <2>1 DEF IInv, DecodeInv
<1>4. (PrefillInv /\ FirstInv /\ FinishInv)'
  BY DEF PrefillInv, FirstInv, FinishInv
<1>5. QED
  BY <1>1, <1>2, <1>3, <1>4 DEF IInv

LEMMA EagerLayerInv ==
  ASSUME IInv, EagerLayer
  PROVE  IInv'
<1> USE DEF EagerLayer, request, layout, closures, output
<1>1. /\ layer \in Layers /\ layer \in Nat
      /\ offset \in Nat /\ kv_static_cap \in Nat /\ Len(out) < limit
      /\ Buffered(layer, offset)
  <2>1. layer \in Layers /\ layer \in Nat
    BY SizesAssumption DEF IInv, TypeOK, Layers
  <2>2. Buffered(layer, offset)
    BY <2>1 DEF IInv, DecodeInv
  <2>3. QED
    BY <2>1, <2>2 DEF IInv, TypeOK, DecodeInv
<1> DEFINE new == IF kv_static_cap > 0 THEN Scatter(kv_bufs[layer])
                                       ELSE Concat(kv_bufs[layer])
<1>2. /\ Holds(new, 0 .. offset)
      /\ DOMAIN new = IF kv_static_cap > 0 THEN 0 .. kv_static_cap - 1
                                           ELSE 0 .. offset
      /\ \A p \in DOMAIN new : new[p] \in Nat \X Nat
  <2>1. CASE kv_static_cap > 0
    BY <1>1, <2>1, LayerScattered
  <2>2. CASE ~(kv_static_cap > 0)
    <3>1. kv_static_cap = 0
      BY <1>1, <2>2
    <3>2. QED
      BY <1>1, <2>2, <3>1, LayerConcatenated
  <2>3. QED
    BY <2>1, <2>2
<1>3. /\ DOMAIN kv_bufs' = Layers
      /\ \A l \in Layers : kv_bufs'[l] = IF l = layer THEN new ELSE kv_bufs[l]
  BY <1>1 DEF IInv, TypeOK
<1> HIDE DEF new
<1>4. TypeOK'
  <2>1. DOMAIN new \subseteq Nat
    BY <1>1, <1>2
  <2>2. layer' \in 1 .. NumLayers + 1
    BY <1>1, SizesAssumption DEF Layers
  <2>3. QED
    BY <1>2, <1>3, <2>1, <2>2 DEF IInv, TypeOK
<1>5. TokensContinuePrefix' /\ RequestInv'
  BY DEF IInv, TokensContinuePrefix, RequestInv
<1>6. DecodeInv'
  <2>1. ASSUME NEW l \in Layers
        PROVE  Buffered(l, IF l < layer THEN offset + 1 ELSE offset)'
    <3>1. CASE l = layer
      <4>1. kv_bufs'[l] = new /\ l < layer' /\ (offset + 1) - 1 = offset
        BY <1>1, <1>3, <3>1
      <4>2. QED
        BY <1>2, <4>1 DEF Buffered
    <3>2. CASE l # layer
      <4>1. kv_bufs'[l] = kv_bufs[l] /\ (l < layer' <=> l < layer)
        BY <1>1, <1>3, <3>2 DEF Layers
      <4>2. Buffered(l, IF l < layer THEN offset + 1 ELSE offset)
        BY DEF IInv, DecodeInv
      <4>3. QED
        BY <4>1, <4>2 DEF Buffered, Holds
    <3>3. QED
      BY <3>1, <3>2
  <2>2. QED
    BY <2>1 DEF IInv, DecodeInv
<1>7. (PrefillInv /\ FirstInv /\ FinishInv)'
  BY DEF PrefillInv, FirstInv, FinishInv
<1>8. QED
  BY <1>4, <1>5, <1>6, <1>7 DEF IInv

LEMMA EagerEndInv ==
  ASSUME IInv, EagerEnd
  PROVE  IInv'
<1> USE DEF EagerEnd
<1>1. /\ offset \in Nat /\ offset > 0 /\ kv_static_cap \in Nat
      /\ Len(out) < limit /\ offset + 1 = plen + Len(out)
      /\ kv_static_cap > 0 => offset < kv_static_cap
  <2>1. Len(out) < limit
    BY DEF IInv, DecodeInv
  <2>2. QED
    BY <2>1, StepFacts
<1>2. ASSUME NEW l \in Layers
      PROVE  /\ Holds(kv_bufs[l], 0 .. offset)
             /\ DOMAIN kv_bufs[l] = IF kv_static_cap > 0
                                    THEN 0 .. kv_static_cap - 1 ELSE 0 .. offset
             /\ \A p \in DOMAIN kv_bufs[l] : kv_bufs[l][p] \in Nat \X Nat
  <2>1. l < layer
    BY SizesAssumption DEF Layers
  <2>2. Buffered(l, offset + 1)
    BY <2>1 DEF IInv, DecodeInv
  <2>3. (offset + 1) - 1 = offset
    BY <1>1
  <2>4. QED
    BY <2>2, <2>3 DEF Buffered, IInv, TypeOK
<1>3. Seen(kv_bufs, kv_static_cap > 0) = plen + Len(out)
  <2>1. (kv_static_cap > 0) \in BOOLEAN
    BY <1>1
  <2>2. Seen(kv_bufs, kv_static_cap > 0) = offset + 1
    BY <1>1, <1>2, <2>1, SeenAll
  <2>3. QED
    BY <1>1, <2>2
<1>4. Chooser \in {"argmax", "sampler"}
  BY DEF Chooser
<1>5. DOMAIN kv_bufs' = Layers /\ kv_bufs' = kv_bufs
  BY DEF IInv, TypeOK
<1>6. Push(plen + Len(out), Chooser)
  BY <1>3
<1>7. QED
  BY <1>1, <1>2, <1>4, <1>5, <1>6, StepDone

\* The end of the loop, the answer, and the echo.
LEMMA EndInv ==
  ASSUME IInv, LoopEnds \/ Finish \/ Echo
  PROVE  IInv'
<1> USE DEF LoopEnds, Finish, Echo, request, layout, closures, output
<1>1. TypeOK'
  <2>1. offset' \in Nat
    BY DEF IInv, TypeOK
  <2>2. out' \in Seq(Nat) /\ by' \in Seq({"argmax", "sampler"})
    BY EmptyOutput DEF IInv, TypeOK
  <2>3. QED
    BY <2>1, <2>2 DEF IInv, TypeOK
<1>2. TokensContinuePrefix'
  BY DEF IInv, TokensContinuePrefix
<1>3. RequestInv'
  BY DEF IInv, RequestInv, TokensContinuePrefix
<1>4. FinishInv'
  <2>1. CASE LoopEnds
    <3>1. Len(out) >= 1 /\ out \in Seq(Nat)
      BY <2>1 DEF IInv, TypeOK, DecodeInv
    <3>2. out # <<>>
      BY <3>1
    <3>3. QED
      BY <2>1, <3>2 DEF FinishInv
  <2>2. CASE Finish \/ Echo
    BY <2>2 DEF FinishInv
  <2>3. QED
    BY <2>1, <2>2
<1>5. (PrefillInv /\ FirstInv /\ DecodeInv)'
  BY DEF PrefillInv, FirstInv, DecodeInv
<1>6. QED
  BY <1>1, <1>2, <1>3, <1>4, <1>5 DEF IInv

-----------------------------------------------------------------------------
(* Theorems of the specification.                                          *)

LEMMA UnchangedInv == IInv /\ UNCHANGED vars => IInv'
<1> SUFFICES ASSUME IInv, UNCHANGED vars
             PROVE  IInv'
  OBVIOUS
<1> USE DEF vars, request, layout, closures, output
<1>1. TypeOK'
  BY DEF IInv, TypeOK
<1>2. TokensContinuePrefix' /\ RequestInv'
  BY DEF IInv, TokensContinuePrefix, RequestInv
<1>3. (PrefillInv /\ FirstInv /\ DecodeInv /\ FinishInv)'
  BY DEF IInv, PrefillInv, FirstInv, DecodeInv, FinishInv, Buffered, Holds
<1>4. QED
  BY <1>1, <1>2, <1>3 DEF IInv

LEMMA NextInv == IInv /\ [Next]_vars => IInv'
<1> SUFFICES ASSUME IInv, [Next]_vars
             PROVE  IInv'
  OBVIOUS
<1>1. CASE \E p \in PromptLens, m \in MaxTokens :
             \/ Reject(p, m)
             \/ \E t \in {"greedy", "sample"} :
                  Start(p, m, t) \/ StartFails(p, m, t)
  <2>1. PICK p \in PromptLens, m \in MaxTokens :
               \/ Reject(p, m)
               \/ \E t \in {"greedy", "sample"} :
                    Start(p, m, t) \/ StartFails(p, m, t)
    BY <1>1
  <2>2. CASE Reject(p, m)
    <3>1. "greedy" \in {"greedy", "sample"}
      OBVIOUS
    <3>2. QED
      BY <2>2, <3>1, StartInv
  <2>3. CASE \E t \in {"greedy", "sample"} :
                Start(p, m, t) \/ StartFails(p, m, t)
    BY <2>3, StartInv
  <2>4. QED
    BY <2>1, <2>2, <2>3
<1>2. CASE CompileReturns
  BY <1>2, CompileReturnsInv
<1>3. CASE PrefillLayer \/ PrefillEnd
  BY <1>3, PrefillStepInv
<1>4. CASE \/ PrefillFails \/ JoinPanic \/ FirstTokenFails \/ EagerFails
           \/ FinishFails
  BY <1>4, AbandonInv
     DEF PrefillFails, JoinPanic, FirstTokenFails, EagerFails, FinishFails
<1>5. CASE Join \/ JoinErr
  BY <1>5, JoinInv
<1>6. CASE FirstToken
  BY <1>6, FirstTokenInv
<1>7. CASE StaticStep
  BY <1>7, StaticStepInv
<1>8. CASE CompiledStep
  BY <1>8, CompiledStepInv
<1>9. CASE StaticStepFails \/ CompiledStepFails
  BY <1>9, FallBackInv
<1>10. CASE EagerBegin
  BY <1>10, EagerBeginInv
<1>11. CASE EagerLayer
  BY <1>11, EagerLayerInv
<1>12. CASE EagerEnd
  BY <1>12, EagerEndInv
<1>13. CASE LoopEnds \/ Finish \/ Echo
  BY <1>13, EndInv
<1>14. CASE UNCHANGED vars
  BY <1>14, UnchangedInv
<1>15. QED
  BY <1>1, <1>2, <1>3, <1>4, <1>5, <1>6, <1>7, <1>8, <1>9, <1>10, <1>11,
     <1>12, <1>13, <1>14
     DEF Next, Generate

THEOREM Inductive == Spec => []IInv
BY InitInv, NextInv, PTL DEF Spec

\* The state of the engine always has its type.
THEOREM TypeCorrect == Spec => []TypeOK
<1>1. IInv => TypeOK
  BY DEF IInv
<1>2. QED
  BY <1>1, Inductive, PTL

\* Every generated token continues exactly the prompt and the tokens before
\* it, for every number of layers and every fallback (decode_step).
THEOREM TokensRight == Spec => []TokensContinuePrefix
<1>1. IInv => TokensContinuePrefix
  BY DEF IInv
<1>2. QED
  BY <1>1, Inductive, PTL

\* Between decode steps every layer caches all tokens but the last.
THEOREM CacheRight == Spec => []CacheIsPrefix
<1>1. IInv => CacheIsPrefix
  <2> SUFFICES ASSUME IInv, pc = "loop"
               PROVE  /\ offset = plen + Len(out) - 1
                      /\ \A l \in Layers :
                           /\ Holds(kv_bufs[l], 0 .. offset - 1)
                           /\ kv_static_cap = 0 =>
                                DOMAIN kv_bufs[l] = 0 .. offset - 1
    BY DEF CacheIsPrefix
  <2>1. \A l \in Layers : Buffered(l, offset)
    BY DEF IInv, DecodeInv
  <2>2. QED
    BY <2>1 DEF IInv, TypeOK, DecodeInv, Buffered
<1>2. QED
  BY <1>1, Inductive, PTL

\* prompt + max_tokens, with any slack, is enough capacity for the request:
\* the static overflow and the missing-mask errors cannot happen.
THEOREM CapacityRight == Spec => []CapacitySuffices
<1>1. IInv => CapacitySuffices
  <2> SUFFICES ASSUME IInv, Stepping, kv_static_cap > 0
               PROVE  StaticReady
    BY DEF CapacitySuffices
  <2>1. pc \in {"loop", "eager"} /\ Len(out) < limit
    BY DEF Stepping
  <2>2. QED
    BY <2>1, StepFacts DEF StaticReady
<1>2. QED
  BY <1>1, Inductive, PTL

\* No closure outlives the buffers it was compiled for.
THEOREM ClosuresRight == Spec => []ClosureFitsBuffers
<1>1. IInv => ClosureFitsBuffers
  BY DEF IInv, TypeOK, DecodeInv, ClosureFitsBuffers
<1>2. QED
  BY <1>1, Inductive, PTL

\* Within a request decode only falls back: no step brings a closure or a
\* buffer layout back.
THEOREM FallsBackOnly == Spec => OnlyFallsBack
<1> DEFINE A == (pc \in {"loop", "eager"} /\ pc' \in {"loop", "eager"}) =>
                  /\ compiled_static' \in {compiled_static, 0}
                  /\ compiled_full' => compiled_full
                  /\ kv_static_cap' = kv_static_cap
<1>1. [Next]_vars => [A]_vars
  <2> SUFFICES ASSUME Next, pc \in {"loop", "eager"}, pc' \in {"loop", "eager"}
               PROVE  /\ compiled_static' \in {compiled_static, 0}
                      /\ compiled_full' => compiled_full
                      /\ kv_static_cap' = kv_static_cap
    OBVIOUS
  <2>1. CASE CompileReturns
    BY <2>1 DEF CompileReturns, layout, closures
  <2>2. CASE Abandon
    BY <2>2 DEF Abandon
  <2>3. CASE StaticStepFails
    BY <2>3 DEF StaticStepFails, layout
  <2>4. CASE CompiledStepFails
    BY <2>4 DEF CompiledStepFails, layout
  <2>5. CASE StaticStep \/ CompiledStep \/ EagerBegin \/ EagerLayer \/ EagerEnd
    <3>1. UNCHANGED <<layout, closures>>
      BY <2>5 DEF StaticStep, CompiledStep, EagerBegin, EagerLayer, EagerEnd
    <3>2. QED
      BY <3>1 DEF layout, closures
  <2>6. CASE \/ PrefillLayer \/ PrefillEnd \/ PrefillFails
             \/ Join \/ JoinErr \/ JoinPanic
             \/ FirstToken \/ FirstTokenFails
             \/ LoopEnds \/ Finish \/ FinishFails \/ Echo
    BY <2>6 DEF PrefillLayer, PrefillEnd, PrefillFails, Join, JoinErr, JoinPanic,
       FirstToken, FirstTokenFails, LoopEnds, Finish, FinishFails, Echo, Abandon
  <2>7. Generate => \/ Abandon \/ StaticStepFails \/ CompiledStepFails
                    \/ StaticStep \/ CompiledStep \/ EagerBegin \/ EagerLayer
                    \/ EagerEnd
                    \/ PrefillLayer \/ PrefillEnd \/ PrefillFails
                    \/ Join \/ JoinErr \/ JoinPanic
                    \/ FirstToken \/ FirstTokenFails
                    \/ LoopEnds \/ Finish \/ FinishFails \/ Echo
    BY DEF Generate, EagerFails
  <2>8. CASE \E p \in PromptLens, m \in MaxTokens :
               \/ Reject(p, m)
               \/ \E t \in {"greedy", "sample"} :
                    Start(p, m, t) \/ StartFails(p, m, t)
    BY <2>8 DEF Reject, Start, StartFails
  <2>9. QED
    BY <2>1, <2>2, <2>3, <2>4, <2>5, <2>6, <2>7, <2>8 DEF Next
<1>2. QED
  BY <1>1, PTL DEF Spec, OnlyFallsBack

-----------------------------------------------------------------------------
(* EngineDecode implements Decoder: each step emits the next right token,  *)
(* answers or refuses a request, gives up, or is invisible.                *)

LEMMA EmitStep ==
  ASSUME IInv, pc \in {"loop", "eager"}, Len(out) < limit,
         NEW how, Push(plen + Len(out), how), UNCHANGED <<request, reply>>
  PROVE  Promise!Emit \/ UNCHANGED Promise!dvars
BY DEF Push, output, request, Promise!Emit, Promise!dvars

LEMMA InvisibleStep ==
  ASSUME pc # "idle", pc' # "idle", UNCHANGED <<request, out, reply>>
  PROVE  UNCHANGED Promise!dvars
BY DEF request, Promise!dvars

LEMMA PromiseStep == IInv /\ [Next]_vars => [Promise!Next]_(Promise!dvars)
<1> SUFFICES ASSUME IInv, [Next]_vars
             PROVE  Promise!Next \/ UNCHANGED Promise!dvars
  OBVIOUS
<1>1. CASE \E p \in PromptLens, m \in MaxTokens :
             \/ Reject(p, m)
             \/ \E t \in {"greedy", "sample"} :
                  Start(p, m, t) \/ StartFails(p, m, t)
  <2>1. PICK p \in PromptLens, m \in MaxTokens :
               \/ Reject(p, m)
               \/ \E t \in {"greedy", "sample"} :
                    Start(p, m, t) \/ StartFails(p, m, t)
    BY <1>1
  <2>2. Promise!Request(p, m) \/ Promise!Reject(p, m)
    BY <2>1 DEF Reject, Start, StartFails, request, output, Promise!Request,
                Promise!Reject
  <2>3. QED
    BY <2>2 DEF Promise!Next
<1>2. CASE CompileReturns
  BY <1>2 DEF CompileReturns, request, output, Promise!dvars
<1>3. CASE PrefillLayer \/ PrefillEnd \/ Join \/ JoinErr
  BY <1>3, InvisibleStep
     DEF PrefillLayer, PrefillEnd, Join, JoinErr, request, output
<1>4. CASE \/ PrefillFails \/ JoinPanic \/ FirstTokenFails \/ EagerFails
           \/ FinishFails
  BY <1>4, InvisibleStep
     DEF PrefillFails, JoinPanic, FirstTokenFails, EagerFails, FinishFails,
         Abandon, Stepping, request, output
<1>5. CASE FirstToken
  <2>1. /\ pc # "idle" /\ pc' # "idle" /\ out = <<>> /\ limit \in Nat
        /\ limit > 0 /\ plen \in Nat /\ out' = <<plen>>
        /\ UNCHANGED <<plen, limit, reply>>
    BY <1>5 DEF FirstToken, request, IInv, TypeOK, RequestInv, FirstInv
  <2>2. Len(out) = 0 /\ Append(out, plen + Len(out)) = <<plen>>
    BY <2>1
  <2>3. Promise!Emit
    BY <2>1, <2>2 DEF Promise!Emit
  <2>4. QED
    BY <2>3 DEF Promise!Next
<1>6. CASE StaticStep
  <2> USE <1>6 DEF StaticStep, Stepping
  <2>1. kv_static_cap > 0
    BY DEF IInv, TypeOK, DecodeInv
  <2>2. Seen(kv_bufs', TRUE) = plen + Len(out)
    <3>1. /\ offset \in Nat /\ kv_static_cap \in Nat /\ offset < kv_static_cap
          /\ offset + 1 = plen + Len(out)
      BY <2>1, StepFacts
    <3>2. ASSUME NEW l \in Layers
          PROVE  /\ Holds(kv_bufs'[l], 0 .. offset)
                 /\ DOMAIN kv_bufs'[l] = 0 .. kv_static_cap - 1
      <4>1. Buffered(l, offset) /\ kv_bufs'[l] = Scatter(kv_bufs[l])
        BY DEF IInv, DecodeInv
      <4>2. QED
        BY <2>1, <4>1, LayerScattered
    <3>3. QED
      BY <3>1, <3>2, SeenAll
  <2>3. QED
    BY <2>2, EmitStep DEF Promise!Next
<1>7. CASE CompiledStep
  <2> USE <1>7 DEF CompiledStep, Stepping
  <2>1. kv_static_cap = 0
    BY DEF IInv, DecodeInv
  <2>2. Seen(kv_bufs', FALSE) = plen + Len(out)
    <3>1. offset \in Nat /\ offset + 1 = plen + Len(out)
      BY StepFacts
    <3>2. ASSUME NEW l \in Layers
          PROVE  /\ Holds(kv_bufs'[l], 0 .. offset)
                 /\ DOMAIN kv_bufs'[l] = 0 .. offset
      <4>1. Buffered(l, offset) /\ kv_bufs'[l] = Concat(kv_bufs[l])
        BY DEF IInv, DecodeInv
      <4>2. QED
        BY <2>1, <4>1, LayerConcatenated
    <3>3. QED
      BY <3>1, <3>2, SeenAll
  <2>3. QED
    BY <2>2, EmitStep DEF Promise!Next
<1>8. CASE StaticStepFails \/ CompiledStepFails \/ EagerBegin \/ EagerLayer
  BY <1>8, InvisibleStep
     DEF StaticStepFails, CompiledStepFails, EagerBegin, EagerLayer, Stepping,
         request, output
<1>9. CASE EagerEnd
  <2> USE <1>9 DEF EagerEnd
  <2>1. Len(out) < limit
    BY DEF IInv, DecodeInv
  <2>2. Seen(kv_bufs, kv_static_cap > 0) = plen + Len(out)
    <3>1. /\ offset \in Nat /\ kv_static_cap \in Nat
          /\ offset + 1 = plen + Len(out)
          /\ kv_static_cap > 0 => offset < kv_static_cap
          /\ (kv_static_cap > 0) \in BOOLEAN
      BY <2>1, StepFacts
    <3>2. ASSUME NEW l \in Layers
          PROVE  /\ Holds(kv_bufs[l], 0 .. offset)
                 /\ DOMAIN kv_bufs[l] = IF kv_static_cap > 0
                                        THEN 0 .. kv_static_cap - 1
                                        ELSE 0 .. offset
      <4>1. l < layer
        BY SizesAssumption DEF Layers
      <4>2. Buffered(l, offset + 1) /\ (offset + 1) - 1 = offset
        BY <3>1, <4>1 DEF IInv, DecodeInv
      <4>3. QED
        BY <4>2 DEF Buffered
    <3>3. QED
      BY <3>1, <3>2, SeenAll
  <2>3. QED
    BY <2>1, <2>2, EmitStep DEF Promise!Next
<1>10. CASE LoopEnds
  BY <1>10, InvisibleStep DEF LoopEnds, output
<1>11. CASE Finish
  <2>1. Promise!Answer
    BY <1>11 DEF Finish, request, output, IInv, FinishInv, Promise!Answer
  <2>2. QED
    BY <2>1 DEF Promise!Next
<1>12. CASE Echo
  <2>1. Promise!GiveUp("echo") \/ Promise!GiveUp("error")
    BY <1>12 DEF Echo, request, output, Promise!GiveUp
  <2>2. QED
    BY <2>1 DEF Promise!Next
<1>13. CASE UNCHANGED vars
  BY <1>13 DEF vars, request, output, Promise!dvars
<1>14. QED
  BY <1>1, <1>2, <1>3, <1>4, <1>5, <1>6, <1>7, <1>8, <1>9, <1>10, <1>11,
     <1>12, <1>13
     DEF Next, Generate

\* The generate loop, with its caches, closures and fallbacks, implements the
\* decoder of one request at a time (generate_via_mlx and finish_generate).
THEOREM Implements == Spec => ImplementsDecoder
<1>1. Init => Promise!Init
  BY DEF Init, Promise!Init
<1>2. QED
  BY <1>1, Inductive, PromiseStep, PTL DEF Spec, ImplementsDecoder, Promise!Spec

-----------------------------------------------------------------------------
(* Handles: the inductive invariant.                                       *)

HandleTypeOK ==
  /\ held \in [Layers -> Nat]
  /\ IsFiniteSet(live)
  /\ temps \in Nat
  /\ traced \in BOOLEAN /\ failed \in BOOLEAN /\ leaked \in BOOLEAN

\* What an unevaluated buffer is built from waits in the arena.
OwnedInv ==
  /\ In(held) \subseteq live /\ arena \subseteq live
  /\ In(held) \cap arena = {}
  /\ \A d \in lazy : d[2] \in arena

\* The layers that have a buffer to replace.
FilledInv ==
  /\ pc = "prefill" =>
       \A l \in Layers : l < layer \/ kv_static_cap > 0 => held[l] # 0
  /\ pc \in {"join", "first", "loop", "eager"} => \A l \in Layers : held[l] # 0

\* Without a failure every live buffer is in kv_bufs or waits to be freed.
\* (Concat mode is entered by a failed compilation only.)
WholeInv ==
  /\ pc \notin {"prefill", "eager"} => arena = {}
  /\ ~failed => live = In(held) \cup arena
  /\ ~failed /\ pc # "idle" => kv_static_cap > 0
  /\ pc = "echo" => failed
  /\ ~leaked

\* The first token is there: in the loop, or answered.
Answering == pc \in {"loop", "finish"} \/ (pc = "idle" /\ reply = "text")

\* A request in which nothing failed takes static steps only, and its closure
\* has been traced once it took one.
StaticInv ==
  ~failed =>
    /\ pc = "prefill" => compiler # "none"
    /\ pc \in {"first", "loop"} => compiled_static > 0
    /\ pc # "eager"
    /\ pc \in {"prefill", "join", "first"} => ~traced
    /\ Answering => offset >= plen /\ (traced <=> offset > plen)

\* The other handles dropped, after n embeddings.
Dropped(n) == Starts + PerMask * kv_static_cap + PerEmbed * n
Trace == IF traced THEN StaticTrace ELSE 0

CountInv ==
  ~failed =>
    /\ pc \in {"prefill", "join"} => temps = Dropped(1)
    /\ pc = "first" => temps = Dropped(1) + Forgotten
    /\ Answering => temps = Dropped(1 + offset - plen) + Forgotten + Trace

HInv ==
  HandleTypeOK /\ OwnedInv /\ FilledInv /\ WholeInv /\ StaticInv /\ CountInv

-----------------------------------------------------------------------------
(* The sets of handles.                                                    *)

LEMMA InIs ==
  ASSUME NEW h \in [Layers -> Nat]
  PROVE  /\ \A l \in Layers : h[l] # 0 => <<l, h[l]>> \in In(h)
         /\ \A x \in In(h) : \E l \in Layers : h[l] # 0 /\ x = <<l, h[l]>>
         /\ IsFiniteSet(In(h))
<1>1. /\ \A l \in Layers : h[l] # 0 => <<l, h[l]>> \in In(h)
      /\ \A x \in In(h) : \E l \in Layers : h[l] # 0 /\ x = <<l, h[l]>>
  BY DEF In
<1>2. IsFiniteSet(In(h))
  <2> DEFINE f == [l \in Layers |-> <<l, h[l]>>]
             T == {f[l] : l \in Layers}
  <2>1. IsFiniteSet(Layers)
    BY FS_Interval, SizesAssumption DEF Layers
  <2>2. f \in Surjection(Layers, T)
    BY DEF Surjection
  <2>3. IsFiniteSet(T)
    <3> HIDE DEF f, T
    <3>1. QED
      BY <2>1, <2>2, FS_Surjection
  <2>4. In(h) \in SUBSET T
    BY DEF In
  <2>5. QED
    <3> HIDE DEF T
    <3>1. QED
      BY <2>3, <2>4, FS_Subset
<1>3. QED
  BY <1>1, <1>2

LEMMA EmptyKv == None \in [Layers -> Nat] /\ In(None) = {}
BY DEF None, In

\* There is always a number that no live handle of a layer has.
LEMMA FreshFree ==
  ASSUME IsFiniteSet(live), NEW l \in Layers
  PROVE  Fresh(l) \in Nat \ {0} /\ <<l, Fresh(l)>> \notin live
<1> DEFINE c == Cardinality(live)
           f == [n \in 1 .. c + 1 |-> <<l, n>>]
<1>1. c \in Nat
  BY FS_CardinalityType
<1>2. \E n \in 1 .. c + 1 : <<l, n>> \notin live
  <2> SUFFICES ASSUME \A n \in 1 .. c + 1 : <<l, n>> \in live
               PROVE  FALSE
    OBVIOUS
  <2>1. f \in Injection(1 .. c + 1, live)
    <3> HIDE DEF c
    <3>1. f \in [1 .. c + 1 -> live]
      OBVIOUS
    <3>2. \A a, b \in 1 .. c + 1 : f[a] = f[b] => a = b
      OBVIOUS
    <3>3. QED
      BY <3>1, <3>2 DEF Injection, IsInjective
  <2>2. Cardinality(1 .. c + 1) <= Cardinality(live)
    <3> HIDE DEF f
    <3>1. QED
      BY <2>1, FS_Injection
  <2>3. Cardinality(1 .. c + 1) = c + 1
    <3> HIDE DEF c
    <3>1. 1 \in Int /\ c + 1 \in Int /\ ~(1 > c + 1) /\ (c + 1) - 1 + 1 = c + 1
      BY <1>1
    <3>2. Cardinality(1 .. c + 1) = IF 1 > c + 1 THEN 0 ELSE (c + 1) - 1 + 1
      BY <3>1, FS_Interval
    <3>3. QED
      BY <3>1, <3>2
  <2>4. c + 1 <= c
    BY <2>2, <2>3
  <2> HIDE DEF c
  <2>5. QED
    BY <1>1, <2>4
<1>3. Fresh(l) \in 1 .. c + 1 /\ <<l, Fresh(l)>> \notin live
  BY <1>2 DEF Fresh
<1> HIDE DEF c
<1>4. QED
  BY <1>1, <1>3

-----------------------------------------------------------------------------
(* What an action does to the handles, wherever it is taken.               *)

\* In the terms of HandleTypeOK and OwnedInv, and of the buffers accounted for.
HandlesOK == HandleTypeOK /\ OwnedInv
Accounted == ~failed => live = In(held) \cup arena

LEMMA ReplaceIs ==
  ASSUME HandlesOK, NEW l \in Layers, Replace(l)
  PROVE  /\ held' \in [Layers -> Nat] /\ held'[l] # 0
         /\ \A k \in Layers : k # l => held'[k] = held[k]
         /\ New(l) \notin live /\ New(l) = <<l, held'[l]>>
         /\ In(held') = {x \in In(held) : x # Old(l)} \cup {New(l)}
         /\ held[l] # 0 => Old(l) \in In(held)
<1>1. held \in [Layers -> Nat] /\ IsFiniteSet(live) /\ In(held) \subseteq live
  BY DEF HandlesOK, HandleTypeOK, OwnedInv
<1>2. Fresh(l) \in Nat \ {0} /\ New(l) \notin live
  BY <1>1, FreshFree DEF New
<1>3. /\ held' \in [Layers -> Nat] /\ held'[l] = Fresh(l)
      /\ \A k \in Layers : k # l => held'[k] = held[k]
  BY <1>1, <1>2 DEF Replace
<1>4. In(held') = {x \in In(held) : x # Old(l)} \cup {New(l)}
  <2>1. \A x \in In(held') : (x \in In(held) /\ x # Old(l)) \/ x = New(l)
    <3> SUFFICES ASSUME NEW x \in In(held')
                 PROVE  (x \in In(held) /\ x # Old(l)) \/ x = New(l)
      OBVIOUS
    <3>1. PICK k \in Layers : held'[k] # 0 /\ x = <<k, held'[k]>>
      BY <1>3, InIs
    <3>2. QED
      BY <1>1, <1>3, <3>1, InIs DEF Old, New
  <2>2. \A x \in In(held) : x # Old(l) => x \in In(held')
    <3> SUFFICES ASSUME NEW x \in In(held), x # Old(l)
                 PROVE  x \in In(held')
      OBVIOUS
    <3>1. PICK k \in Layers : held[k] # 0 /\ x = <<k, held[k]>>
      BY <1>1, InIs
    <3>2. QED
      BY <1>3, <3>1, InIs DEF Old
  <2>3. New(l) \in In(held')
    BY <1>2, <1>3, InIs DEF New
  <2>4. QED
    BY <2>1, <2>2, <2>3
<1>5. held[l] # 0 => Old(l) \in In(held)
  BY <1>1, InIs DEF Old
<1>6. QED
  BY <1>2, <1>3, <1>4, <1>5 DEF New

LEMMA Superseded ==
  ASSUME HandlesOK, NEW l \in Layers, held[l] # 0, Supersede(l)
  PROVE  /\ HandlesOK' /\ (Accounted => Accounted')
         /\ held'[l] # 0 /\ \A k \in Layers : k # l => held'[k] = held[k]
         /\ temps' = temps /\ traced' = traced /\ failed' = failed /\ leaked' = leaked
<1>1. /\ Replace(l) /\ live' = live \cup {New(l)}
      /\ lazy' = lazy \cup {<<New(l), Old(l)>>} /\ arena' = arena \cup {Old(l)}
      /\ temps' = temps /\ traced' = traced /\ failed' = failed /\ leaked' = leaked
  BY DEF Supersede
<1>2. /\ held' \in [Layers -> Nat] /\ held'[l] # 0
      /\ \A k \in Layers : k # l => held'[k] = held[k]
      /\ New(l) \notin live /\ Old(l) \in In(held)
      /\ In(held') = {x \in In(held) : x # Old(l)} \cup {New(l)}
  BY <1>1, ReplaceIs
<1>3. HandleTypeOK'
  <2>1. IsFiniteSet(live')
    BY <1>1, FS_AddElement DEF HandlesOK, HandleTypeOK
  <2>2. QED
    BY <1>1, <1>2, <2>1 DEF HandlesOK, HandleTypeOK
<1>4. In(held)' = {x \in In(held) : x # Old(l)} \cup {New(l)}
  <2>1. In(held)' = In(held')
    BY Zenon DEF In
  <2>2. QED
    BY <1>2, <2>1
<1>5. OwnedInv'
  <2>1. \A d \in lazy' : d[2] \in arena'
    BY <1>1 DEF HandlesOK, OwnedInv
  <2>2. QED
    BY <1>1, <1>2, <1>4, <2>1 DEF HandlesOK, OwnedInv
<1>6. Accounted => Accounted'
  BY <1>1, <1>2, <1>4 DEF Accounted
<1>7. QED
  BY <1>1, <1>2, <1>3, <1>5, <1>6 DEF HandlesOK

LEMMA StoredHandle ==
  ASSUME HandlesOK, NEW l \in Layers, Store(l)
  PROVE  /\ HandlesOK'
         /\ held'[l] # 0 /\ \A k \in Layers : k # l => held'[k] = held[k]
         /\ temps' = temps /\ traced' = traced /\ failed' = failed /\ leaked' = leaked
<1>1. /\ Replace(l) /\ live' = live \cup {New(l)} /\ lazy' = lazy /\ arena' = arena
      /\ temps' = temps /\ traced' = traced /\ failed' = failed /\ leaked' = leaked
  BY DEF Store
<1>2. /\ held' \in [Layers -> Nat] /\ held'[l] # 0
      /\ \A k \in Layers : k # l => held'[k] = held[k]
      /\ New(l) \notin live
      /\ In(held') = {x \in In(held) : x # Old(l)} \cup {New(l)}
  BY <1>1, ReplaceIs
<1>3. HandleTypeOK'
  <2>1. IsFiniteSet(live')
    BY <1>1, FS_AddElement DEF HandlesOK, HandleTypeOK
  <2>2. QED
    BY <1>1, <1>2, <2>1 DEF HandlesOK, HandleTypeOK
<1>4. In(held)' = {x \in In(held) : x # Old(l)} \cup {New(l)}
  <2>1. In(held)' = In(held')
    BY Zenon DEF In
  <2>2. QED
    BY <1>2, <2>1
<1>5. OwnedInv'
  BY <1>1, <1>2, <1>4 DEF HandlesOK, OwnedInv
<1>6. QED
  BY <1>1, <1>2, <1>3, <1>5 DEF HandlesOK

LEMMA Freed ==
  ASSUME HandlesOK, EvalAndFree
  PROVE  /\ HandlesOK' /\ (Accounted => Accounted')
         /\ arena' = {} /\ held' = held
         /\ temps' = temps /\ traced' = traced /\ failed' = failed /\ leaked' = leaked
<1>1. /\ lazy' = {} /\ live' = live \ arena /\ arena' = {} /\ held' = held
      /\ temps' = temps /\ traced' = traced /\ failed' = failed /\ leaked' = leaked
  BY DEF EvalAndFree
<1>2. In(held)' = In(held)
  BY <1>1, Zenon DEF In
<1>3. IsFiniteSet(live')
  BY <1>1, FS_Difference DEF HandlesOK, HandleTypeOK
<1>4. HandleTypeOK'
  BY <1>1, <1>3 DEF HandlesOK, HandleTypeOK
<1>5. OwnedInv'
  BY <1>1, <1>2 DEF HandlesOK, OwnedInv
<1>6. Accounted => Accounted'
  BY <1>1, <1>2 DEF HandlesOK, OwnedInv, Accounted
<1>7. QED
  BY <1>1, <1>4, <1>5, <1>6 DEF HandlesOK

\* What a compiled step loses.
Stepped == PerStep + Tracing

LEMMA TraceNat == StaticTrace \in Nat /\ ConcatTrace \in Nat
BY NormsAssumption, SizesAssumption DEF StaticTrace, ConcatTrace

LEMMA SteppedNat == Stepped \in Nat
BY TraceNat DEF Stepped, Tracing, PerStep, PerEmbed

LEMMA Committed ==
  ASSUME HandlesOK, arena = {}, Commit
  PROVE  /\ HandlesOK' /\ (Accounted => Accounted') /\ arena' = {}
         /\ \A l \in Layers : held'[l] # 0
         /\ temps' = (IF failed THEN 0 ELSE temps + Stepped)
         /\ traced' = TRUE /\ failed' = failed /\ leaked' = leaked
<1>1. /\ held' = [l \in Layers |-> Fresh(l)]
      /\ live' = (live \cup In(held')) \ In(held)
      /\ temps' = (IF failed THEN 0 ELSE temps + Stepped)
      /\ traced' = TRUE /\ lazy' = lazy /\ arena' = arena /\ failed' = failed /\ leaked' = leaked
  BY DEF Commit, Drop, Stepped
<1>2. /\ held \in [Layers -> Nat] /\ IsFiniteSet(live) /\ In(held) \subseteq live
      /\ temps \in Nat /\ lazy = {}
  BY DEF HandlesOK, HandleTypeOK, OwnedInv
<1>3. \A l \in Layers : Fresh(l) \in Nat \ {0} /\ <<l, Fresh(l)>> \notin live
  BY <1>2, FreshFree
<1>4. held' \in [Layers -> Nat] /\ \A l \in Layers : held'[l] = Fresh(l)
  BY <1>1, <1>3
<1>5. \A x \in In(held') : x \notin live
  BY <1>3, <1>4, InIs
<1>6. IsFiniteSet(live')
  <2>1. IsFiniteSet(live \cup In(held'))
    BY <1>2, <1>4, InIs, FS_Union
  <2>2. QED
    BY <1>1, <2>1, FS_Difference
<1>7. In(held)' = In(held')
  BY Zenon DEF In
<1>8. HandleTypeOK'
  <2>1. temps' \in Nat
    BY <1>1, <1>2, SteppedNat
  <2>2. QED
    BY <1>1, <1>4, <1>6, <2>1 DEF HandlesOK, HandleTypeOK
<1>9. OwnedInv'
  BY <1>1, <1>2, <1>5, <1>7 DEF HandlesOK, OwnedInv
<1>10. Accounted => Accounted'
  BY <1>1, <1>2, <1>5, <1>7 DEF Accounted
<1>11. QED
  BY <1>1, <1>3, <1>4, <1>8, <1>9, <1>10 DEF HandlesOK

LEMMA Begun ==
  ASSUME HandleTypeOK, arena = {}, Accounted, ~leaked, StartHandles, static_masks' \in Nat
  PROVE  /\ HandlesOK' /\ Accounted' /\ arena' = {} /\ \A l \in Layers : held'[l] # 0
         /\ temps' = Starts + PerMask * static_masks' + PerEmbed
         /\ ~traced' /\ ~failed' /\ ~leaked'
<1>1. /\ leaked' = (leaked \/ (~failed /\ FreeBuffers # {}))
      /\ lazy' = {} /\ arena' = {}
      /\ held' = [l \in Layers |-> 1] /\ live' = In(held')
      /\ temps' = Starts + PerMask * static_masks' + PerEmbed
      /\ traced' = FALSE /\ failed' = FALSE
  BY DEF StartHandles, ResetHandles
<1>2. held' \in [Layers -> Nat] /\ \A l \in Layers : held'[l] # 0
  BY <1>1
<1>3. IsFiniteSet(live')
  BY <1>1, <1>2, InIs
<1>4. In(held)' = live'
  BY <1>1, Zenon DEF In
<1>5. leaked' = FALSE
  BY <1>1 DEF Accounted, FreeBuffers
<1>6. temps' \in Nat
  <2>1. \A n \in Nat : Starts + PerMask * n + PerEmbed \in Nat
    BY DEF Starts, PerMask, PerEmbed
  <2>2. QED
    BY <1>1, <2>1
<1>7. HandleTypeOK'
  BY <1>1, <1>2, <1>3, <1>5, <1>6 DEF HandleTypeOK
<1>8. OwnedInv'
  BY <1>1, <1>4 DEF OwnedInv
<1>9. Accounted'
  BY <1>1, <1>4 DEF Accounted
<1>10. QED
  BY <1>1, <1>2, <1>5, <1>7, <1>8, <1>9 DEF HandlesOK

\* The ways a request fails: what kv_bufs held is dropped with it, or stays.
LEMMA Lost ==
  ASSUME HandlesOK, Accounted, ~leaked,
         \/ arena = {} /\ StartFailsHandles
         \/ AbandonHandles
         \/ JoinErrHandles
         \/ StepFailsHandles
  PROVE  /\ HandlesOK' /\ failed' /\ ~leaked'
         /\ arena = {} \/ AbandonHandles => arena' = {}
         /\ StepFailsHandles => held' = held
<1>1. CASE arena = {} /\ StartFailsHandles
  <2>1. /\ leaked' = (leaked \/ (~failed /\ FreeBuffers # {}))
        /\ lazy' = {} /\ arena' = {} /\ held' = None /\ live' = {}
        /\ temps' = 0 /\ traced' = FALSE /\ failed' = TRUE
    BY <1>1 DEF StartFailsHandles, ResetHandles
  <2>2. leaked' = FALSE
    BY <1>1, <2>1 DEF Accounted, FreeBuffers
  <2>3. In(held)' = {} /\ held' \in [Layers -> Nat]
    <3>1. In(held)' = In(held')
      BY Zenon DEF In
    <3>2. QED
      BY <2>1, <3>1, EmptyKv
  <2>4. HandleTypeOK'
    BY <2>1, <2>2, <2>3, FS_EmptySet DEF HandleTypeOK
  <2>5. OwnedInv'
    BY <2>1, <2>3 DEF OwnedInv
  <2>6. StepFailsHandles => held' = held
    BY DEF StepFailsHandles, handles
  <2>7. QED
    BY <2>1, <2>2, <2>4, <2>5, <2>6 DEF HandlesOK
<1>2. CASE AbandonHandles \/ JoinErrHandles
  <2>1. /\ held' = None /\ live' = live /\ leaked' = leaked
        /\ temps' = 0 /\ traced' = traced /\ failed' = TRUE
        /\ \/ arena' = {} /\ lazy' = {}
           \/ arena' = arena /\ lazy' = lazy
        /\ AbandonHandles => arena' = {}
    BY <1>2 DEF AbandonHandles, JoinErrHandles
  <2>2. In(held)' = {} /\ held' \in [Layers -> Nat]
    <3>1. In(held)' = In(held')
      BY Zenon DEF In
    <3>2. QED
      BY <2>1, <3>1, EmptyKv
  <2>3. HandleTypeOK'
    BY <2>1, <2>2 DEF HandlesOK, HandleTypeOK
  <2>4. OwnedInv'
    BY <2>1, <2>2 DEF HandlesOK, OwnedInv
  <2>5. StepFailsHandles => held' = held
    BY DEF StepFailsHandles, handles
  <2>6. QED
    BY <2>1, <2>3, <2>4, <2>5 DEF HandlesOK
<1>3. CASE StepFailsHandles
  <2>1. /\ held' = held /\ live' = live /\ leaked' = leaked
        /\ temps' = 0 /\ traced' = traced /\ failed' = TRUE
        /\ arena' = arena /\ lazy' = lazy
    BY <1>3 DEF StepFailsHandles, handles
  <2>2. In(held)' = In(held)
    BY <2>1, Zenon DEF In
  <2>3. HandleTypeOK'
    BY <2>1 DEF HandlesOK, HandleTypeOK
  <2>4. OwnedInv'
    BY <2>1, <2>2 DEF HandlesOK, OwnedInv
  <2>5. AbandonHandles => arena' = {}
    BY DEF AbandonHandles
  <2>6. QED
    BY <2>1, <2>3, <2>4, <2>5 DEF HandlesOK
<1>4. QED
  BY <1>1, <1>2, <1>3

LEMMA Kept ==
  ASSUME UNCHANGED handles
  PROVE  /\ OwnedInv => OwnedInv'
         /\ Accounted /\ failed' = failed => Accounted'
         /\ arena' = arena /\ held' = held /\ live' = live
<1>1. arena' = arena /\ held' = held /\ live' = live /\ lazy' = lazy
  BY DEF handles
<1>2. In(held)' = In(held)
  BY <1>1, Zenon DEF In
<1>3. QED
  BY <1>1, <1>2 DEF OwnedInv, Accounted

-----------------------------------------------------------------------------
(* Invariance.                                                             *)

LEMMA HandlesInitInv == HandlesInit => HInv
<1> SUFFICES ASSUME HandlesInit PROVE HInv
  OBVIOUS
<1>1. /\ pc = "idle" /\ reply = "none" /\ held = None /\ live = {} /\ lazy = {} /\ arena = {}
      /\ temps = 0 /\ traced = FALSE /\ failed = FALSE /\ leaked = FALSE
  BY DEF HandlesInit, Init
<1>2. In(held) = {} /\ held \in [Layers -> Nat]
  BY <1>1, EmptyKv
<1>3. HandleTypeOK
  BY <1>1, <1>2, FS_EmptySet DEF HandleTypeOK
<1>4. OwnedInv
  BY <1>1, <1>2 DEF OwnedInv
<1>5. FilledInv /\ WholeInv /\ StaticInv /\ CountInv
  BY <1>1, <1>2 DEF FilledInv, WholeInv, StaticInv, CountInv, Answering
<1>6. QED
  BY <1>3, <1>4, <1>5 DEF HInv

\* Steps that leave the handles alone.
LEMMA UntouchedInv ==
  ASSUME HInv, Untouched,
         \/ \E p, m : Reject(p, m)
         \/ CompileReturns \/ LoopEnds \/ Finish \/ Echo \/ UNCHANGED vars
  PROVE  HInv'
<1>1. /\ UNCHANGED handles
      /\ temps' = temps /\ traced' = traced /\ failed' = failed /\ leaked' = leaked
  BY DEF Untouched, handleVars
<1>2. /\ OwnedInv' /\ (Accounted => Accounted')
      /\ arena' = arena /\ held' = held /\ live' = live
  BY <1>1, Kept DEF HInv
<1>3. HandleTypeOK'
  BY <1>1, <1>2 DEF HInv, HandleTypeOK
<1>4. FilledInv'
  BY <1>1, <1>2 DEF HInv, FilledInv, Reject, CompileReturns, LoopEnds, Finish, Echo,
     vars, layout
<1>5. WholeInv'
  <2>1. /\ kv_static_cap' = kv_static_cap
        /\ \/ pc' = pc
           \/ pc = "loop" /\ pc' = "finish"
           \/ pc \in {"finish", "echo"} /\ pc' = "idle"
    BY DEF Reject, CompileReturns, LoopEnds, Finish, Echo, vars, layout
  <2>2. QED
    BY <1>1, <1>2, <2>1 DEF HInv, WholeInv, Accounted
<1>6. StaticInv' /\ CountInv'
  <2>1. CASE Echo
    BY <1>1, <2>1 DEF Echo, HInv, WholeInv, StaticInv, CountInv
  <2>2. CASE \/ \E p, m : Reject(p, m)
             \/ CompileReturns \/ LoopEnds \/ Finish \/ UNCHANGED vars
    <3>1. /\ kv_static_cap' = kv_static_cap /\ plen' = plen /\ offset' = offset
          /\ compiled_static' = compiled_static
          /\ \/ pc' = pc /\ (reply' = reply \/ reply' = "error")
             \/ pc = "loop" /\ pc' = "finish"
             \/ pc = "finish" /\ pc' = "idle"
          /\ compiler # "none" => compiler' # "none"
      BY <2>2 DEF Reject, CompileReturns, LoopEnds, Finish, vars, layout, request, closures
    <3>2. /\ Answering' => Answering
          /\ \A q \in {"prefill", "join", "first", "loop", "eager"} : pc' = q => pc = q
      BY <3>1 DEF Answering
    <3>3. StaticInv'
      BY <1>1, <3>1, <3>2 DEF HInv, StaticInv
    <3>4. CountInv'
      BY <1>1, <3>1, <3>2 DEF HInv, CountInv, Dropped, Trace
    <3>5. QED
      BY <3>3, <3>4
  <2>3. QED
    BY <2>1, <2>2
<1>7. QED
  BY <1>2, <1>3, <1>4, <1>5, <1>6 DEF HInv

\* The closures that are compiled: the static one is joined, the concat one
\* only after a failure.
LEMMA ClosureHandlesInv ==
  ASSUME HInv, IInv,
         \/ Join /\ JoinHandles
         \/ FirstToken /\ FirstTokenHandles
  PROVE  HInv'
<1>1. /\ Accounted /\ ~leaked /\ temps \in Nat /\ traced \in BOOLEAN
      /\ plen \in Nat /\ offset \in Nat /\ kv_static_cap \in Nat
  BY DEF HInv, WholeInv, Accounted, HandleTypeOK, IInv, TypeOK
<1>2. /\ UNCHANGED handles
      /\ traced' = traced /\ failed' = failed /\ leaked' = leaked
  BY DEF JoinHandles, FirstTokenHandles
<1>3. /\ OwnedInv' /\ Accounted' /\ arena' = arena /\ held' = held /\ live' = live
  BY <1>1, <1>2, Kept DEF HInv
<1>4. temps' \in Nat
  BY <1>1 DEF JoinHandles, FirstTokenHandles, Drop, Starts, Forgotten
<1>5. HandleTypeOK'
  BY <1>2, <1>3, <1>4 DEF HInv, HandleTypeOK
<1>6. /\ kv_static_cap' = kv_static_cap /\ plen' = plen
      /\ \/ pc = "join" /\ pc' = "first"
         \/ pc = "first" /\ pc' \in {"finish", "loop"}
  BY DEF Join, FirstToken, layout, request
<1>7. FilledInv' /\ WholeInv'
  BY <1>2, <1>3, <1>6 DEF HInv, FilledInv, WholeInv, Accounted
<1>8. StaticInv' /\ CountInv'
  <2> SUFFICES ASSUME ~failed PROVE StaticInv' /\ CountInv'
    BY <1>2 DEF StaticInv, CountInv
  <2>1. CASE Join /\ JoinHandles
    <3>1. /\ pc = "join" /\ pc' = "first" /\ compiled_static' = kv_static_cap
          /\ temps' = temps + Forgotten
      BY <2>1 DEF Join, JoinHandles, Drop
    <3>2. StaticInv'
      BY <1>2, <3>1 DEF HInv, WholeInv, StaticInv, Answering
    <3>3. CountInv'
      BY <1>2, <1>6, <3>1 DEF HInv, CountInv, Dropped, Answering
    <3>4. QED
      BY <3>2, <3>3
  <2>2. CASE FirstToken /\ FirstTokenHandles
    <3>1. compiled_static > 0 /\ ~traced
      BY <2>2 DEF HInv, StaticInv, FirstToken
    <3>2. /\ pc = "first" /\ pc' \in {"finish", "loop"} /\ offset' = plen
          /\ compiled_static' = compiled_static /\ compiled_full' = compiled_full
      BY <2>2, <3>1 DEF FirstToken
    <3>3. temps' = temps
      BY <1>1, <2>2, <3>2 DEF FirstTokenHandles, Drop
    <3>4. StaticInv'
      BY <1>1, <1>2, <1>6, <3>1, <3>2 DEF StaticInv, Answering
    <3>5. CountInv'
      <4>1. 1 + plen - plen = 1
        BY <1>1
      <4>2. temps = Dropped(1) + Forgotten /\ Dropped(1) \in Nat /\ Forgotten \in Nat
        BY <1>1, <3>2 DEF HInv, CountInv, Dropped, Starts, PerMask, PerEmbed, Forgotten
      <4>3. Trace' = 0
        BY <1>2, <3>1 DEF Trace
      <4>4. temps' = Dropped(1) + Forgotten + 0
        BY <3>3, <4>2
      <4>5. QED
        BY <1>6, <3>2, <4>1, <4>3, <4>4 DEF CountInv, Dropped, Answering
    <3>6. QED
      BY <3>4, <3>5
  <2>3. QED
    BY <2>1, <2>2
<1>9. QED
  BY <1>3, <1>5, <1>7, <1>8 DEF HInv

\* The count of one more embedding.
LEMMA OneMore ==
  ASSUME kv_static_cap \in Nat, NEW n \in Int
  PROVE  Dropped(n) + 2 = Dropped(n + 1)
BY DEF Dropped, PerEmbed, Starts, PerMask

LEMMA StartHandlesInv ==
  ASSUME HInv, NEW p \in PromptLens, NEW m \in MaxTokens, NEW t,
         \/ Start(p, m, t) /\ StartHandles
         \/ StartFails(p, m, t) /\ StartFailsHandles
  PROVE  HInv'
<1>1. /\ HandleTypeOK /\ OwnedInv /\ Accounted /\ arena = {} /\ ~leaked /\ HandlesOK
  BY DEF HInv, WholeInv, Accounted, HandlesOK, Start, StartFails
<1>2. CASE Start(p, m, t) /\ StartHandles
  <2>1. /\ pc' = "prefill" /\ kv_static_cap' = Capacity(p, m)
        /\ static_masks' = Capacity(p, m) /\ p > 0 /\ m > 0
    BY <1>2 DEF Start
  <2>2. Capacity(p, m) \in Nat /\ Capacity(p, m) > 0
    <3>1. p \in Nat /\ m \in Nat
      BY SizesAssumption
    <3>2. QED
      BY <2>1, <3>1, CapacityRoom
  <2>3. /\ HandlesOK' /\ Accounted' /\ arena' = {} /\ \A l \in Layers : held'[l] # 0
        /\ temps' = Starts + PerMask * static_masks' + PerEmbed
        /\ ~traced' /\ ~failed' /\ ~leaked'
    BY <1>1, <1>2, <2>1, <2>2, Begun
  <2>4. FilledInv' /\ WholeInv'
    BY <2>1, <2>2, <2>3 DEF FilledInv, WholeInv, Accounted
  <2>5. StaticInv' /\ CountInv'
    BY <1>2, <2>1, <2>3 DEF Start, StaticInv, CountInv, Dropped, PerEmbed, Answering
  <2>6. QED
    BY <2>3, <2>4, <2>5 DEF HInv, HandlesOK
<1>3. CASE StartFails(p, m, t) /\ StartFailsHandles
  <2>1. pc' = "echo"
    BY <1>3 DEF StartFails
  <2>2. HandlesOK' /\ failed' /\ ~leaked' /\ arena' = {}
    BY <1>1, <1>3, Lost
  <2>3. FilledInv' /\ WholeInv' /\ StaticInv' /\ CountInv'
    BY <2>1, <2>2 DEF FilledInv, WholeInv, StaticInv, CountInv
  <2>4. QED
    BY <2>2, <2>3 DEF HInv, HandlesOK
<1>4. QED
  BY <1>2, <1>3

LEMMA FailHandlesInv ==
  ASSUME HInv,
         \/ JoinErr /\ JoinErrHandles
         \/ (StaticStepFails \/ CompiledStepFails) /\ StepFailsHandles
         \/ (PrefillFails \/ JoinPanic \/ FirstTokenFails \/ EagerFails \/ FinishFails)
              /\ AbandonHandles
  PROVE  HInv'
<1>1. Accounted /\ ~leaked /\ HandlesOK
  BY DEF HInv, WholeInv, Accounted, HandlesOK
<1>2. /\ HandlesOK' /\ failed' /\ ~leaked'
      /\ arena = {} \/ AbandonHandles => arena' = {}
      /\ StepFailsHandles => held' = held
  BY <1>1, Lost
<1>3. StaticInv' /\ CountInv'
  BY <1>2 DEF StaticInv, CountInv
<1>4. FilledInv' /\ WholeInv'
  <2>1. CASE JoinErr /\ JoinErrHandles
    <3>1. pc = "join" /\ pc' = "prefill" /\ kv_static_cap' = 0 /\ layer' = 1
      BY <2>1 DEF JoinErr
    <3>2. ~\E l \in Layers : l < 1
      BY DEF Layers
    <3>3. QED
      BY <1>2, <3>1, <3>2 DEF HInv, FilledInv, WholeInv
  <2>2. CASE (StaticStepFails \/ CompiledStepFails) /\ StepFailsHandles
    <3>1. pc = "loop" /\ pc' = "loop"
      BY <2>2 DEF StaticStepFails, CompiledStepFails, Stepping
    <3>2. QED
      BY <1>2, <2>2, <3>1 DEF HInv, FilledInv, WholeInv
  <2>3. CASE (PrefillFails \/ JoinPanic \/ FirstTokenFails \/ EagerFails \/ FinishFails)
               /\ AbandonHandles
    <3>1. pc' = "echo"
      BY <2>3 DEF PrefillFails, JoinPanic, FirstTokenFails, EagerFails, FinishFails, Abandon
    <3>2. QED
      BY <1>2, <2>3, <3>1 DEF FilledInv, WholeInv
  <2>4. QED
    BY <2>1, <2>2, <2>3
<1>5. QED
  BY <1>2, <1>3, <1>4 DEF HInv, HandlesOK

LEMMA PrefillHandlesInv ==
  ASSUME HInv, IInv,
         \/ PrefillLayer /\ PrefillLayerHandles
         \/ PrefillEnd /\ EvalAndFree
  PROVE  HInv'
<1>1. Accounted /\ ~leaked /\ HandlesOK /\ layer \in 1 .. NumLayers + 1
  BY DEF HInv, WholeInv, Accounted, HandlesOK, IInv, TypeOK
<1>2. CASE PrefillLayer /\ PrefillLayerHandles
  <2>1. /\ pc = "prefill" /\ pc' = "prefill" /\ layer \in Layers /\ layer' = layer + 1
        /\ kv_static_cap' = kv_static_cap
    BY <1>1, <1>2, SizesAssumption DEF PrefillLayer, layout, Layers
  <2>2. /\ HandlesOK' /\ Accounted' /\ held'[layer] # 0
        /\ \A k \in Layers : k # layer => held'[k] = held[k]
        /\ temps' = temps /\ traced' = traced /\ failed' = failed /\ leaked' = leaked
    <3>1. CASE kv_static_cap > 0
      <4>1. Supersede(layer) /\ held[layer] # 0
        BY <1>2, <2>1, <3>1 DEF PrefillLayerHandles, HInv, FilledInv
      <4>2. QED
        BY <1>1, <2>1, <4>1, Superseded
    <3>2. CASE ~(kv_static_cap > 0)
      <4>1. Store(layer) /\ failed
        BY <1>2, <2>1, <3>2 DEF PrefillLayerHandles, HInv, WholeInv
      <4>2. QED
        BY <1>1, <2>1, <4>1, StoredHandle DEF Accounted
    <3>3. QED
      BY <3>1, <3>2
  <2>3. \A l \in Layers : l < layer + 1 => l < layer \/ l = layer
    BY <1>1 DEF Layers
  <2>4. FilledInv'
    BY <2>1, <2>2, <2>3 DEF HInv, FilledInv
  <2>5. WholeInv'
    BY <2>1, <2>2 DEF HInv, WholeInv, Accounted
  <2>6. StaticInv' /\ CountInv'
    BY <1>2, <2>1, <2>2 DEF PrefillLayer, HInv, StaticInv, CountInv, Dropped, Answering
  <2>7. QED
    BY <2>2, <2>4, <2>5, <2>6 DEF HInv, HandlesOK
<1>3. CASE PrefillEnd /\ EvalAndFree
  <2>1. /\ pc = "prefill" /\ pc' \in {"first", "join"} /\ layer = NumLayers + 1
        /\ kv_static_cap' = kv_static_cap
    BY <1>3 DEF PrefillEnd, layout
  <2>2. /\ HandlesOK' /\ Accounted' /\ arena' = {} /\ held' = held
        /\ temps' = temps /\ traced' = traced /\ failed' = failed /\ leaked' = leaked
    BY <1>1, <1>3, Freed
  <2>3. \A l \in Layers : l < layer
    BY <2>1, SizesAssumption DEF Layers
  <2>4. FilledInv'
    BY <2>1, <2>2, <2>3 DEF HInv, FilledInv
  <2>5. WholeInv'
    BY <2>1, <2>2 DEF HInv, WholeInv, Accounted
  <2>6. StaticInv' /\ CountInv'
    <3> SUFFICES ASSUME ~failed PROVE StaticInv' /\ CountInv'
      BY <2>2 DEF StaticInv, CountInv
    <3>1. pc' = "join" /\ ~traced
      BY <1>3, <2>1 DEF PrefillEnd, HInv, StaticInv
    <3>2. QED
      BY <2>1, <2>2, <3>1 DEF HInv, StaticInv, CountInv, Dropped, Answering
  <2>7. QED
    BY <2>2, <2>4, <2>5, <2>6 DEF HInv, HandlesOK
<1>4. QED
  BY <1>2, <1>3

\* A compiled step: every buffer is replaced and the old one freed at once.
LEMMA CommitHandlesInv ==
  ASSUME HInv, IInv, StaticStep \/ CompiledStep, Commit
  PROVE  HInv'
<1>1. /\ pc = "loop" /\ pc' \in {"loop", "finish"} /\ kv_static_cap' = kv_static_cap
      /\ plen' = plen /\ offset' = offset + 1 /\ compiled_static' = compiled_static
      /\ plen \in Nat /\ offset \in Nat /\ kv_static_cap \in Nat
      /\ compiled_static \in Nat
  BY DEF StaticStep, CompiledStep, Stepping, Push, layout, request, closures, IInv, TypeOK
<1>2. Accounted /\ ~leaked /\ HandlesOK /\ arena = {} /\ temps \in Nat /\ traced \in BOOLEAN
  BY <1>1 DEF HInv, WholeInv, Accounted, HandlesOK, HandleTypeOK
<1>3. /\ HandlesOK' /\ Accounted' /\ arena' = {} /\ \A l \in Layers : held'[l] # 0
      /\ temps' = (IF failed THEN 0 ELSE temps + Stepped)
      /\ traced' = TRUE /\ failed' = failed /\ leaked' = leaked
  BY <1>1, <1>2, Committed
<1>4. FilledInv'
  BY <1>1, <1>3 DEF FilledInv
<1>5. WholeInv'
  BY <1>1, <1>3 DEF HInv, WholeInv, Accounted
<1>6. StaticInv' /\ CountInv'
  <2> SUFFICES ASSUME ~failed PROVE StaticInv' /\ CountInv'
    BY <1>3 DEF StaticInv, CountInv
  <2>1. /\ compiled_static > 0 /\ offset >= plen /\ (traced <=> offset > plen)
        /\ temps = Dropped(1 + offset - plen) + Forgotten + Trace
    BY <1>1 DEF HInv, StaticInv, CountInv, Answering
  <2>2. StaticInv'
    BY <1>1, <1>3, <2>1 DEF StaticInv, Answering
  <2>3. CountInv'
    <3> DEFINE n == 1 + offset - plen
               u == StaticTrace
    <3>1. n \in Int /\ Dropped(n) \in Int /\ u \in Nat /\ Forgotten \in Nat
      BY <1>1, TraceNat DEF Dropped, Starts, PerMask, PerEmbed, Forgotten
    <3>2. Dropped(n) + 2 = Dropped(n + 1)
      BY <1>1, <3>1, OneMore
    <3>3. Trace + Stepped = 2 + u
      <4>1. CASE traced
        BY <3>1, <4>1 DEF Trace, Stepped, Tracing, PerStep, PerEmbed
      <4>2. CASE ~traced
        BY <2>1, <3>1, <4>2 DEF Trace, Stepped, Tracing, PerStep, PerEmbed
      <4>3. QED
        BY <4>1, <4>2
    <3>4. Trace \in Nat /\ Stepped \in Nat
      <4>1. Trace \in Nat
        BY <3>1 DEF Trace
      <4>2. QED
        BY <1>1, <4>1, SteppedNat
    <3>5. temps + Stepped = Dropped(n + 1) + Forgotten + u
      <4> HIDE DEF n, u
      <4>1. temps = Dropped(n) + Forgotten + Trace
        BY <2>1 DEF n
      <4>2. QED
        BY <3>1, <3>2, <3>3, <3>4, <4>1
    <3>6. n + 1 = 1 + (offset + 1) - plen
      BY <1>1
    <3>7. Trace' = u
      BY <1>3 DEF Trace, StaticTrace
    <3> HIDE DEF n, u
    <3>8. temps' = Dropped(1 + (offset + 1) - plen) + Forgotten + Trace'
      BY <1>3, <3>5, <3>6, <3>7
    <3>9. QED
      BY <1>1, <3>8 DEF CountInv, Dropped
  <2>4. QED
    BY <2>2, <2>3
<1>7. QED
  BY <1>3, <1>4, <1>5, <1>6 DEF HInv, HandlesOK

LEMMA EagerHandlesInv ==
  ASSUME HInv, IInv,
         \/ EagerBegin /\ EagerBeginHandles
         \/ EagerLayer /\ Supersede(layer)
         \/ EagerEnd /\ EvalAndFree
  PROVE  HInv'
<1>1. /\ Accounted /\ ~leaked /\ HandlesOK /\ layer \in 1 .. NumLayers + 1
      /\ temps \in Nat /\ plen \in Nat /\ offset \in Nat /\ kv_static_cap \in Nat
  BY DEF HInv, WholeInv, Accounted, HandlesOK, HandleTypeOK, IInv, TypeOK
<1>2. CASE EagerBegin /\ EagerBeginHandles
  <2>1. /\ pc = "loop" /\ pc' = "eager" /\ kv_static_cap' = kv_static_cap
        /\ plen' = plen /\ offset' = offset
    BY <1>2 DEF EagerBegin, Stepping, layout, request
  <2>2. /\ UNCHANGED handles
        /\ traced' = traced /\ failed' = failed /\ leaked' = leaked
        /\ temps' = (IF failed THEN 0 ELSE temps + 2)
    BY <1>2 DEF EagerBeginHandles, Drop, PerEmbed
  <2>3. /\ OwnedInv' /\ Accounted'
        /\ arena' = arena /\ held' = held /\ live' = live
    BY <1>1, <2>2, Kept DEF HInv
  <2>4. HandleTypeOK'
    <3>1. temps' \in Nat
      BY <1>1, <2>2
    <3>2. QED
      BY <2>2, <2>3, <3>1 DEF HInv, HandleTypeOK
  <2>5. FilledInv'
    BY <2>1, <2>3 DEF HInv, FilledInv
  <2>6. WholeInv'
    BY <2>1, <2>2, <2>3 DEF HInv, WholeInv, Accounted
  <2>7. StaticInv' /\ CountInv'
    <3>1. failed
      BY <1>2, <2>1 DEF EagerBegin, HInv, StaticInv
    <3>2. QED
      BY <2>2, <3>1 DEF StaticInv, CountInv
  <2>8. QED
    BY <2>3, <2>4, <2>5, <2>6, <2>7 DEF HInv
<1>3. CASE EagerLayer /\ Supersede(layer)
  <2>1. /\ pc = "eager" /\ pc' = "eager" /\ layer \in Layers
        /\ kv_static_cap' = kv_static_cap /\ plen' = plen /\ offset' = offset
    BY <1>1, <1>3, SizesAssumption DEF EagerLayer, layout, request, Layers
  <2>2. held[layer] # 0
    BY <2>1 DEF HInv, FilledInv
  <2>3. /\ HandlesOK' /\ Accounted' /\ held'[layer] # 0
        /\ \A k \in Layers : k # layer => held'[k] = held[k]
        /\ temps' = temps /\ traced' = traced /\ failed' = failed /\ leaked' = leaked
    BY <1>1, <1>3, <2>1, <2>2, Superseded
  <2>4. FilledInv'
    BY <2>1, <2>3 DEF HInv, FilledInv
  <2>5. WholeInv'
    BY <2>1, <2>3 DEF HInv, WholeInv, Accounted
  <2>6. StaticInv' /\ CountInv'
    BY <2>1, <2>3 DEF HInv, StaticInv, CountInv
  <2>7. QED
    BY <2>3, <2>4, <2>5, <2>6 DEF HInv, HandlesOK
<1>4. CASE EagerEnd /\ EvalAndFree
  <2>1. /\ pc = "eager" /\ pc' \in {"loop", "finish"} /\ kv_static_cap' = kv_static_cap
        /\ plen' = plen /\ offset' = offset + 1
    BY <1>4 DEF EagerEnd, Push, layout, request
  <2>2. /\ HandlesOK' /\ Accounted' /\ arena' = {} /\ held' = held
        /\ temps' = temps /\ traced' = traced /\ failed' = failed /\ leaked' = leaked
    BY <1>1, <1>4, Freed
  <2>3. FilledInv'
    BY <2>1, <2>2 DEF HInv, FilledInv
  <2>4. WholeInv'
    BY <2>1, <2>2 DEF HInv, WholeInv, Accounted
  <2>5. StaticInv' /\ CountInv'
    BY <2>1, <2>2 DEF HInv, StaticInv, CountInv
  <2>6. QED
    BY <2>2, <2>3, <2>4, <2>5 DEF HInv, HandlesOK
<1>5. QED
  BY <1>2, <1>3, <1>4

LEMMA HandlesStepInv == HInv /\ IInv /\ [HandlesNext]_allVars => HInv'
<1> SUFFICES ASSUME HInv, IInv, [HandlesNext]_allVars
             PROVE  HInv'
  OBVIOUS
<1> DEFINE Asks ==
             \E p \in PromptLens, m \in MaxTokens :
               \/ Reject(p, m) /\ Untouched
               \/ \E t \in {"greedy", "sample"} :
                    \/ Start(p, m, t) /\ StartHandles
                    \/ StartFails(p, m, t) /\ StartFailsHandles
<1>1. CASE Asks
  <2>1. PICK p \in PromptLens, m \in MaxTokens :
               \/ Reject(p, m) /\ Untouched
               \/ \E t \in {"greedy", "sample"} :
                    \/ Start(p, m, t) /\ StartHandles
                    \/ StartFails(p, m, t) /\ StartFailsHandles
    BY <1>1
  <2>2. CASE Reject(p, m) /\ Untouched
    BY <2>2, UntouchedInv
  <2>3. CASE \E t \in {"greedy", "sample"} :
                 \/ Start(p, m, t) /\ StartHandles
                 \/ StartFails(p, m, t) /\ StartFailsHandles
    BY <2>3, StartHandlesInv
  <2>4. QED
    BY <2>1, <2>2, <2>3
<1>2. CASE \/ (CompileReturns \/ LoopEnds \/ Finish \/ Echo) /\ Untouched
           \/ Join /\ JoinHandles
           \/ FirstToken /\ FirstTokenHandles
  BY <1>2, UntouchedInv, ClosureHandlesInv
<1>3. CASE UNCHANGED allVars
  <2>1. Untouched /\ UNCHANGED vars
    BY <1>3 DEF allVars, Untouched
  <2>2. QED
    BY <2>1, UntouchedInv
<1>4. CASE (PrefillLayer /\ PrefillLayerHandles) \/ (PrefillEnd /\ EvalAndFree)
  BY <1>4, PrefillHandlesInv
<1>5. CASE (StaticStep \/ CompiledStep) /\ Commit
  BY <1>5, CommitHandlesInv
<1>6. CASE \/ EagerBegin /\ EagerBeginHandles
           \/ EagerLayer /\ Supersede(layer)
           \/ EagerEnd /\ EvalAndFree
  BY <1>6, EagerHandlesInv
<1>7. CASE \/ JoinErr /\ JoinErrHandles
           \/ (StaticStepFails \/ CompiledStepFails) /\ StepFailsHandles
           \/ (PrefillFails \/ JoinPanic \/ FirstTokenFails \/ EagerFails \/ FinishFails)
                /\ AbandonHandles
  BY <1>7, FailHandlesInv
<1>8. \/ Asks \/ UNCHANGED allVars
      \/ CompileReturns /\ Untouched
      \/ PrefillLayer /\ PrefillLayerHandles
      \/ PrefillEnd /\ EvalAndFree
      \/ Join /\ JoinHandles
      \/ JoinErr /\ JoinErrHandles
      \/ FirstToken /\ FirstTokenHandles
      \/ (StaticStep \/ CompiledStep) /\ Commit
      \/ (StaticStepFails \/ CompiledStepFails) /\ StepFailsHandles
      \/ EagerBegin /\ EagerBeginHandles
      \/ EagerLayer /\ Supersede(layer)
      \/ EagerEnd /\ EvalAndFree
      \/ (LoopEnds \/ Finish \/ Echo) /\ Untouched
      \/ (PrefillFails \/ JoinPanic \/ FirstTokenFails \/ EagerFails \/ FinishFails)
           /\ AbandonHandles
  BY Zenon DEF HandlesNext
<1> HIDE DEF Asks
<1>9. QED
  BY <1>1, <1>2, <1>3, <1>4, <1>5, <1>6, <1>7, <1>8

-----------------------------------------------------------------------------
(* The theorems.                                                           *)

\* The loop with its handles is the loop: what is proved of
\* Spec holds of HandlesSpec.
THEOREM HandlesIsEngine == HandlesSpec => Spec
<1>1. HandlesInit => Init
  BY DEF HandlesInit
<1>2. [HandlesNext]_allVars => [Next]_vars
  <2>1. HandlesNext => Next
    BY DEF HandlesNext, Next, Generate
  <2>2. UNCHANGED allVars => UNCHANGED vars
    BY DEF allVars
  <2>3. QED
    BY <2>1, <2>2
<1>3. QED
  BY <1>1, <1>2, PTL DEF HandlesSpec, Spec

LEMMA HandlesAlways == HandlesSpec => []HInv
BY HandlesInitInv, HandlesStepInv, HandlesIsEngine, Inductive, PTL DEF HandlesSpec

\* Over any number of requests, layers and failures, no buffer is freed while
\* kv_bufs or an unevaluated graph still uses it, and none is freed twice.
THEOREM NothingFreedEarly == HandlesSpec => []HandlesOwned
<1>1. HInv => HandlesOwned
  BY DEF HInv, OwnedInv, HandlesOwned
<1>2. QED
  BY <1>1, HandlesAlways, PTL

\* A request in which nothing fails loses no KV buffer, and of its other
\* handles the number that HandlesReturn states, whatever number of steps it
\* took and whether its closure was ever traced.
THEOREM NothingLost == HandlesSpec => []HandlesReturn
<1>1. HInv /\ IInv => HandlesReturn
  <2> SUFFICES ASSUME HInv, IInv
               PROVE  HandlesReturn
    OBVIOUS
  <2>1. ~leaked
    BY DEF HInv, WholeInv
  <2>2. ASSUME pc = "idle", reply = "text", ~failed
        PROVE  temps = Starts + PerMask * kv_static_cap + Forgotten
                       + PerEmbed * (1 + (offset - plen))
                       + (IF offset - plen > 0 THEN StaticTrace ELSE 0)
    <3>1. /\ traced <=> offset > plen
          /\ temps = Dropped(1 + offset - plen) + Forgotten + Trace
      BY <2>2 DEF HInv, StaticInv, CountInv, Answering
    <3>2. offset \in Nat /\ plen \in Nat /\ kv_static_cap \in Nat
      BY DEF IInv, TypeOK
    <3>3. Trace = IF offset - plen > 0 THEN StaticTrace ELSE 0
      <4>1. offset > plen <=> offset - plen > 0
        BY <3>2
      <4>2. QED
        BY <3>1, <4>1 DEF Trace
    <3>4. Dropped(1 + offset - plen) + Forgotten
            = Starts + PerMask * kv_static_cap + Forgotten
              + PerEmbed * (1 + (offset - plen))
      BY <3>2 DEF Dropped, Starts, PerMask, PerEmbed, Forgotten
    <3>5. QED
      BY <3>1, <3>3, <3>4
  <2>3. QED
    BY <2>1, <2>2 DEF HandlesReturn
<1>2. QED
  BY <1>1, HandlesAlways, HandlesIsEngine, Inductive, PTL
=============================================================================
