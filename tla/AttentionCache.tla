--------------------------- MODULE AttentionCache ---------------------------
(***************************************************************************)
(* The caches of crates/kvcache as the attention layers of                 *)
(* crates/attention use them: a call projects a chunk of tokens, appends   *)
(* their K and V rows to the cache, gets all rows back and attends over    *)
(* them.  Every MLX call in between may return an error, with whatever was *)
(* assigned before it left in the cache.                                   *)
(*                                                                         *)
(* A row is named by the position of its token, counted from 1.  A caller  *)
(* feeds the positions in order; after an error it feeds the same chunk    *)
(* again, or resets the cache.                                             *)
(***************************************************************************)
EXTENDS Integers, Sequences

CONSTANTS
  Window,     \* window_size of a rotating cache
  MaxChunk,   \* bound: tokens in one call
  MaxRows     \* bound: rows a cache holds or has counted, between two resets

ASSUME SizesAssumption ==
  /\ Window \in Nat \ {0}
  /\ MaxChunk \in Nat
  /\ MaxRows \in Nat

Kinds == {"concat", "fp8", "rotating"}

VARIABLES
  kind,    \* type of the cache
  cache,   \* its fields; None is <<>>, and len is seq_len or total_len
  fed,     \* tokens the caller has got through the layer
  seen,    \* for each query of the last call, the <<key, value>> pairs it
           \* attended over, by their tokens; <<>> after an error
  clean    \* history: no call failed half way since the last reset

vars == <<kind, cache, fed, seen, clean>>

Fields(k, v, len, write_pos) ==
  [k |-> k, v |-> v, len |-> len, write_pos |-> write_pos]
Empty == Fields(<<>>, <<>>, 0, 0)

Chunk(n) == [i \in 1 .. n |-> fed + i]

Done(c) == [ok |-> TRUE, cache |-> c]
Failed(c) == [ok |-> FALSE, cache |-> c]

-----------------------------------------------------------------------------
(* append: what it may return and leave.                                   *)

\* self.k is assigned before v is concatenated, self.v before seq_len.
ConcatAppend(c, n) ==
  LET full_k == c.k \o Chunk(n)
      full_v == c.v \o Chunk(n)
  IN  {Failed(c), Done(Fields(full_k, full_v, c.len + n, 0))}
        \cup (IF c.v = <<>> THEN {} ELSE {Failed(Fields(full_k, c.v, c.len, 0))})

\* Both round trips through FP8 come before the first assignment.
Fp8Append(c, n) == ConcatAppend(c, n)

\* MLX cuts a slice off at the end of the array.
Slice(rows, start, end) ==
  SubSeq(rows, start + 1, IF end <= Len(rows) THEN end ELSE Len(rows))

\* A chunk that fits an empty cache is stored as it is.  Otherwise the rows
\* are concatenated, counted, and both sliced by the length K has.
RotatingAppend(c, n) ==
  LET full_k == c.k \o Chunk(n)
      full_v == c.v \o Chunk(n)
      size == Len(full_k)
      new_k == Slice(full_k, size - Window, size)
      new_v == Slice(full_v, size - Window, size)
      total == c.len + n
  IN  {Failed(c)} \cup
      IF c.len = 0 /\ n <= Window THEN {Done(Fields(Chunk(n), Chunk(n), n, n))}
      ELSE {Failed(Fields(c.k, c.v, total, c.write_pos))} \cup
           IF size > Window
           THEN {Failed(Fields(new_k, c.v, total, c.write_pos)),
                 Done(Fields(new_k, new_v, total, Window))}
           ELSE {Done(Fields(full_k, full_v, total, size))}

\* Mutant: the concat cache is given a bound by the same slices.
AppendBounded(n) == RotatingAppend(cache, n)

AppendTo(n) ==
  CASE kind = "concat" -> ConcatAppend(cache, n)
    [] kind = "fp8" -> Fp8Append(cache, n)
    [] kind = "rotating" -> RotatingAppend(cache, n)

\* KvCache::len.
CacheLen ==
  IF kind = "rotating" /\ cache.write_pos < cache.len THEN cache.write_pos ELSE cache.len

-----------------------------------------------------------------------------
(* gqa_attention, sliding_window_attention and gated_attention.            *)

\* Row j of K goes with row j of V, which a V shorter than K does not have.
\* No line on the way to the kernel compares their lengths: whether it then
\* answers or returns an error is not for this code to say.
Pair(c, j) == <<c.k[j], IF j <= Len(c.v) THEN c.v[j] ELSE 0>>

\* Mutant: the causal mask aligns the first query with the first key.
SdpaFromFirst(c, n) ==
  [i \in 1 .. n |->
     {Pair(c, j) : j \in 1 .. (IF n > 1 /\ i < Len(c.k) THEN i ELSE Len(c.k))}]

\* More than one token is a prefill, with a causal mask that aligns the last
\* query with the last key; a single query sees every row.
Sdpa(c, n) == [i \in 1 .. n |-> {Pair(c, j) : j \in 1 .. Len(c.k) - (n - i)}]

Room(n) ==
  /\ Len(cache.k) + n <= MaxRows
  /\ cache.len + n <= MaxRows

Init ==
  /\ kind \in Kinds
  /\ cache = Empty
  /\ fed = 0
  /\ seen = <<>>
  /\ clean = TRUE

Attend(n) ==
  /\ Room(n)
  /\ \E out \in AppendTo(n) :
       /\ out.ok
       /\ cache' = out.cache
       /\ seen' = Sdpa(out.cache, n)
  /\ fed' = fed + n
  /\ UNCHANGED <<kind, clean>>

\* An error before, in or after append.  It leaves the cache as it was only
\* if it came before anything was assigned.
AttendFails(n) ==
  /\ Room(n)
  /\ \E out \in AppendTo(n) : cache' = out.cache
  /\ seen' = <<>>
  /\ clean' = (clean /\ cache' = cache)
  /\ UNCHANGED <<kind, fed>>

\* Mutant: total_len survives.
ResetRows ==
  /\ cache' = [Empty EXCEPT !.len = cache.len]
  /\ fed' = 0
  /\ seen' = <<>>
  /\ clean' = TRUE
  /\ UNCHANGED kind

Reset ==
  /\ cache' = Empty
  /\ fed' = 0
  /\ seen' = <<>>
  /\ clean' = TRUE
  /\ UNCHANGED kind

Next ==
  \/ \E n \in 1 .. MaxChunk : Attend(n) \/ AttendFails(n)
  \/ Reset

Spec == Init /\ [][Next]_vars

-----------------------------------------------------------------------------
(* Properties.                                                             *)

\* Tokens of the first t that the cache is meant to hold, the last ones.
Held(t) == IF kind = "rotating" /\ t > Window THEN Window ELSE t
Rows(t) == [i \in 1 .. Held(t) |-> t - Held(t) + i]

\* One type invariant; the memory of a rotating cache is bounded.
TypeOK ==
  /\ kind \in Kinds
  /\ cache \in [k : Seq(Nat), v : Seq(Nat), len : Nat, write_pos : Nat]
  /\ kind = "rotating" => Len(cache.k) <= Window
  /\ fed \in Nat
  /\ seen \in Seq(SUBSET (Nat \X Nat))
  /\ clean \in BOOLEAN

\* Unless a call failed half way, K and V hold the rows of the last tokens,
\* as many as the kind of cache keeps, in order and once each, and len()
\* agrees: through chunks that fit the window, overflow it, or are larger
\* than it, through errors that came early enough, and after any reset.
WindowKept == clean => /\ cache.k = Rows(fed) /\ cache.v = Rows(fed)
                       /\ cache.len = fed /\ CacheLen = Held(fed)

\* No query sees a token after its own or outside its window, and the last
\* one, whose output decides the next token, sees its window whole; so does
\* every query as long as no row was cut off.
AttendsWindow ==
  clean =>
    \A i \in DOMAIN seen :
      LET p == fed - Len(seen) + i
          window == {<<j, j>> : j \in p - Held(p) + 1 .. p}
      IN  /\ seen[i] \subseteq window
          /\ i = Len(seen) \/ fed = Held(fed) => seen[i] = window

\* A value that an error left out of a concat or fp8 cache (self.k is assigned
\* before V is concatenated) shows in the lengths until a reset: whatever is
\* appended in between, K and V are of one length only while they hold the
\* same tokens, and no query meets a key beside the value of another token.
\* (The code uses such a cache without comparing the lengths, and in a
\* rotating cache the slices make them the same again.)
PairsMatch ==
  kind # "rotating" /\ Len(cache.k) = Len(cache.v) =>
    /\ cache.k = cache.v
    /\ \A i \in DOMAIN seen : \A pair \in seen[i] : pair[1] = pair[2]
=============================================================================
