---------------------------- MODULE EngineDecode ----------------------------
(***************************************************************************)
(* The generate loop of Qwen3Engine (crates/serve): reset, static KV       *)
(* allocation, prefill beside a background compile thread, first token,    *)
(* and decode steps that fall back from the static closure to the concat   *)
(* closure to the eager forward, and from a failed forward to the echo.    *)
(*                                                                         *)
(* Any MLX call may fail.  Tensors are abstracted to what decides whether  *)
(* a token is right: a KV row is the pair <<token, position>> of the       *)
(* 1-based place of its token in prompt \o output and the rotary position  *)
(* it was encoded with, and a produced token is the length of the prefix   *)
(* that attention saw, or 0 if what it saw is no prefix at all.            *)
(***************************************************************************)
EXTENDS Naturals, Sequences

CONSTANTS
  NumLayers,   \* weights.layers.len()
  PromptLens,  \* lengths a tokenized prompt may have
  MaxTokens,   \* values of max_tokens
  Slack,       \* capacity beyond prompt + max_tokens (16 in the code)
  MinCap       \* smallest capacity (256 in the code)

ASSUME SizesAssumption ==
  /\ NumLayers \in Nat \ {0}
  /\ PromptLens \subseteq Nat
  /\ MaxTokens \subseteq Nat
  /\ Slack \in Nat
  /\ MinCap \in Nat

VARIABLES
  pc,               \* where the engine thread is
  plen, limit,      \* the request: prompt tokens, max_tokens
  temp,             \* sampling.temperature: "greedy" (< 1e-6) or "sample"
  offset,           \* self.offset
  kv_static_cap,    \* capacity of the static KV buffers, 0 = concat mode
  static_masks,     \* number of pre-computed masks (and offset arrays)
  kv_bufs,          \* layer -> rows, a row being <<token, position>>
  layer,            \* loop index of prefill and of the eager step
  compiled_static,  \* capacity the static closure was built for, 0 = None
  compiled_full,    \* the concat closure is present
  compiler,         \* the background compile thread
  logits,           \* what the prefill logits were computed from
  out,              \* generated tokens, each named by its prefix length
  by,               \* how each generated token was chosen
  reply             \* outcome of the last request

request == <<plen, limit, temp>>
closures == <<compiled_static, compiled_full>>
layout == <<kv_static_cap, static_masks>>
output == <<out, by>>
vars == <<pc, request, offset, layout, kv_bufs, layer, closures, compiler,
          logits, output, reply>>

Layers == 1 .. NumLayers

\* The rows an empty cache, and a zero-filled one, hold.
NoRows == [l \in Layers |-> [p \in {} |-> <<0, 0>>]]
ZeroRows(c) == [l \in Layers |-> [p \in 0 .. c - 1 |-> <<0, 0>>]]

\* Mutant: the capacity of generate_via_mlx without its max_tokens term.
CapacityOfPromptOnly(p, m) == IF p + Slack > MinCap THEN p + Slack ELSE MinCap

Capacity(p, m) == IF p + m + Slack > MinCap THEN p + m + Slack ELSE MinCap

-----------------------------------------------------------------------------
(* What attention sees.                                                    *)

\* The row of the token being fed: its place in the sequence, its position.
Fed == <<plen + Len(out), offset>>

\* Static KV: the mask of `offset' uncovers rows 0..offset; concat: all rows.
Visible(rows, static) ==
  IF static THEN {p \in DOMAIN rows : p <= offset} ELSE DOMAIN rows

Holds(rows, S) == \A p \in S : rows[p] = <<p + 1, p>>

\* The prefix a token computed over the buffers `kv' continues, 0 for none.
Seen(kv, static) ==
  IF \A l \in Layers : /\ Visible(kv[l], static) = 0 .. offset
                       /\ Holds(kv[l], 0 .. offset)
  THEN offset + 1
  ELSE 0

\* scatter_single at `offset', and concatenate along the sequence axis.
Scatter(rows) == [p \in DOMAIN rows |-> IF p = offset THEN Fed ELSE rows[p]]
Concat(rows) ==
  LET n == IF DOMAIN rows = {} THEN 0
           ELSE (CHOOSE q \in DOMAIN rows : \A p \in DOMAIN rows : p <= q) + 1
  IN  [p \in 0 .. n |-> IF p = n THEN Fed ELSE rows[p]]

-----------------------------------------------------------------------------
Init ==
  /\ pc = "idle"
  /\ plen = 0 /\ limit = 0 /\ temp = "greedy"
  /\ offset = 0
  /\ kv_static_cap = 0
  /\ static_masks = 0
  /\ kv_bufs = NoRows
  /\ layer = 1
  /\ compiled_static = 0
  /\ compiled_full = FALSE
  /\ compiler = "none"
  /\ logits = 0
  /\ out = <<>>
  /\ by = <<>>
  /\ reply = "none"

\* An error of the MLX path: generate clears the buffers and echoes.
\* The handle of a compile thread still running is dropped: it is detached.
Abandon ==
  /\ pc' = "echo"
  /\ kv_bufs' = NoRows
  /\ offset' = 0
  /\ compiler' = "none"
  /\ UNCHANGED <<request, layout, layer, closures, logits, output, reply>>

\* max_tokens == 0 or a prompt without tokens (or that does not encode,
\* p = 0 as well) is refused before anything else.
Reject(p, m) ==
  /\ pc = "idle"
  /\ p = 0 \/ m = 0
  /\ reply' = "error"
  /\ UNCHANGED <<pc, request, offset, layout, kv_bufs, layer, closures,
                 compiler, logits, output>>

\* Mutant: a reset that keeps the concat closure of the previous request.
ResetKeepsClosure ==
  /\ offset' = 0
  /\ compiled_static' = 0
  /\ UNCHANGED compiled_full

\* The effect of reset() on the state this request starts from.
Reset ==
  /\ offset' = 0
  /\ compiled_static' = 0
  /\ compiled_full' = FALSE

\* reset, alloc_kv_static, create_starts, and the compile thread is spawned.
Start(p, m, t) ==
  /\ pc = "idle"
  /\ p > 0 /\ m > 0
  /\ plen' = p /\ limit' = m /\ temp' = t
  /\ Reset
  /\ kv_static_cap' = Capacity(p, m)
  /\ static_masks' = Capacity(p, m)
  /\ kv_bufs' = ZeroRows(Capacity(p, m))
  /\ compiler' = "running"
  /\ pc' = "prefill"
  /\ layer' = 1
  /\ logits' = 0
  /\ out' = <<>>
  /\ by' = <<>>
  /\ reply' = "none"

\* The same request when the n-th mask allocation, or create_starts after
\* all of them (n = capacity), fails: no compile thread is ever spawned.
StartFails(p, m, t) ==
  /\ pc = "idle"
  /\ p > 0 /\ m > 0
  /\ plen' = p /\ limit' = m /\ temp' = t
  /\ Reset
  /\ \E n \in 0 .. Capacity(p, m) :
       /\ static_masks' = n
       /\ kv_static_cap' \in (IF n = Capacity(p, m) THEN {0, n} ELSE {0})
  /\ kv_bufs' = NoRows
  /\ pc' = "echo"
  /\ out' = <<>>
  /\ by' = <<>>
  /\ reply' = "none"
  /\ UNCHANGED <<layer, compiler, logits>>

\* from_starts returns on its own thread, at any time during prefill.
CompileReturns ==
  /\ compiler = "running"
  /\ compiler' \in {"ok", "err", "panicked"}
  /\ UNCHANGED <<pc, request, offset, layout, kv_bufs, layer, closures,
                 logits, output, reply>>

-----------------------------------------------------------------------------
(* Prefill: every layer writes the rows of the prompt at `offset'.         *)

PrefillRow(p) == <<p + 1, offset + p>>

PrefillRows(rows) ==
  IF kv_static_cap > 0
  THEN [p \in DOMAIN rows |->
          IF p \in offset .. offset + plen - 1 THEN PrefillRow(p - offset)
                                               ELSE rows[p]]
  ELSE [p \in 0 .. plen - 1 |-> PrefillRow(p)]

PrefillLayer ==
  /\ pc = "prefill"
  /\ layer <= NumLayers
  /\ kv_bufs' = [kv_bufs EXCEPT ![layer] = PrefillRows(@)]
  /\ layer' = layer + 1
  /\ UNCHANGED <<pc, request, offset, layout, closures, compiler, logits,
                 output, reply>>

\* The prompt attends to itself only, so its logits are right when its rows
\* were encoded from position 0.  A second prefill (no thread left to join)
\* goes straight on to the first token.
PrefillEnd ==
  /\ pc = "prefill"
  /\ layer = NumLayers + 1
  /\ logits' = IF offset = 0 THEN plen ELSE 0
  /\ pc' = IF compiler = "none" THEN "first" ELSE "join"
  /\ UNCHANGED <<request, offset, layout, kv_bufs, layer, closures, compiler,
                 output, reply>>

PrefillFails == pc = "prefill" /\ Abandon

Join ==
  /\ pc = "join"
  /\ compiler = "ok"
  /\ compiled_static' = kv_static_cap
  /\ compiler' = "none"
  /\ pc' = "first"
  /\ UNCHANGED <<request, offset, layout, kv_bufs, layer, compiled_full,
                 logits, output, reply>>

\* Compilation failed: switch to concat KV and prefill the prompt again.
JoinErr ==
  /\ pc = "join"
  /\ compiler = "err"
  /\ kv_static_cap' = 0
  /\ kv_bufs' = NoRows
  /\ compiler' = "none"
  /\ pc' = "prefill"
  /\ layer' = 1
  /\ UNCHANGED <<request, offset, static_masks, closures, logits, output,
                 reply>>

JoinPanic == pc = "join" /\ compiler = "panicked" /\ Abandon

-----------------------------------------------------------------------------
(* First token and the decode loop.                                        *)

Chooser == IF temp = "greedy" THEN "argmax" ELSE "sampler"

\* The prefill logits give the first token, EOS or not; without a static
\* closure the concat one is compiled, and its failure is tolerated.
FirstToken ==
  /\ pc = "first"
  /\ out' = <<logits>>
  /\ by' = <<Chooser>>
  /\ offset' = plen
  /\ \/ pc' = "finish" /\ UNCHANGED compiled_full
     \/ /\ pc' = "loop"
        /\ IF compiled_static = 0 /\ ~compiled_full
           THEN compiled_full' \in BOOLEAN
           ELSE UNCHANGED compiled_full
  /\ UNCHANGED <<request, layout, kv_bufs, layer, compiled_static, compiler,
                 logits, reply>>

FirstTokenFails == pc = "first" /\ Abandon

\* A decode step returned token t: push it, unless it is EOS.
Push(t, how) ==
  \/ /\ out' = Append(out, t)
     /\ by' = Append(by, how)
     /\ pc' = "loop"
  \/ pc' = "finish" /\ UNCHANGED output

\* Mutant: the loop bound is inclusive.
SteppingInclusive == pc = "loop" /\ Len(out) <= limit

Stepping == pc = "loop" /\ Len(out) < limit

StaticReady == offset < static_masks /\ offset < kv_static_cap

\* decode_step_static: buffers and offset change only after the readback.
StaticStep ==
  /\ Stepping
  /\ compiled_static > 0
  /\ StaticReady
  /\ kv_bufs' = [l \in Layers |-> Scatter(kv_bufs[l])]
  /\ offset' = offset + 1
  /\ Push(Seen(kv_bufs', TRUE), "argmax")
  /\ UNCHANGED <<request, layout, layer, closures, compiler, logits, reply>>

\* Mutants: the step had moved the offset when it failed; its failure turns
\* the buffers over to concat mode, as a failed compilation does.
StaticStepFailsLate ==
  /\ Stepping
  /\ compiled_static > 0
  /\ compiled_static' = 0
  /\ offset' = offset + 1
  /\ UNCHANGED <<pc, request, layout, kv_bufs, layer, compiled_full,
                 compiler, logits, output, reply>>

StaticStepFailsToConcat ==
  /\ Stepping
  /\ compiled_static > 0
  /\ compiled_static' = 0
  /\ kv_static_cap' = 0
  /\ UNCHANGED <<pc, request, offset, static_masks, kv_bufs, layer,
                 compiled_full, compiler, logits, output, reply>>

StaticStepFails ==
  /\ Stepping
  /\ compiled_static > 0
  /\ compiled_static' = 0
  /\ UNCHANGED <<pc, request, offset, layout, kv_bufs, layer, compiled_full,
                 compiler, logits, output, reply>>

\* decode_step_compiled: launch, readback, then step_commit_compiled.
CompiledStep ==
  /\ Stepping
  /\ compiled_static = 0 /\ compiled_full
  /\ kv_bufs' = [l \in Layers |-> Concat(kv_bufs[l])]
  /\ offset' = offset + 1
  /\ Push(Seen(kv_bufs', FALSE), "argmax")
  /\ UNCHANGED <<request, layout, layer, closures, compiler, logits, reply>>

\* Mutant: the KV outputs are committed before the token is read back.
CompiledStepFailsAfterCommit ==
  /\ Stepping
  /\ compiled_static = 0 /\ compiled_full
  /\ compiled_full' = FALSE
  /\ kv_bufs' = [l \in Layers |-> Concat(kv_bufs[l])]
  /\ UNCHANGED <<pc, request, offset, layout, layer, compiled_static,
                 compiler, logits, output, reply>>

CompiledStepFails ==
  /\ Stepping
  /\ compiled_static = 0 /\ compiled_full
  /\ compiled_full' = FALSE
  /\ UNCHANGED <<pc, request, offset, layout, kv_bufs, layer,
                 compiled_static, compiler, logits, output, reply>>

\* decode_step_eager replaces the rows of one layer after the other.
EagerBegin ==
  /\ Stepping
  /\ compiled_static = 0 /\ ~compiled_full
  /\ kv_static_cap > 0 => offset < static_masks
  /\ pc' = "eager"
  /\ layer' = 1
  /\ UNCHANGED <<request, offset, layout, kv_bufs, closures, compiler, logits,
                 output, reply>>

EagerLayer ==
  /\ pc = "eager"
  /\ layer <= NumLayers
  /\ kv_bufs' = [kv_bufs EXCEPT ![layer] =
                   IF kv_static_cap > 0 THEN Scatter(@) ELSE Concat(@)]
  /\ layer' = layer + 1
  /\ UNCHANGED <<pc, request, offset, layout, closures, compiler, logits,
                 output, reply>>

EagerEnd ==
  /\ pc = "eager"
  /\ layer = NumLayers + 1
  /\ offset' = offset + 1
  /\ Push(Seen(kv_bufs, kv_static_cap > 0), Chooser)
  /\ UNCHANGED <<request, layout, kv_bufs, layer, closures, compiler, logits,
                 reply>>

EagerFails ==
  /\ pc = "eager" \/ (Stepping /\ compiled_static = 0 /\ ~compiled_full)
  /\ Abandon

\* Mutant: the loop waits for one token more than it may generate.
LoopEndsPastLimit ==
  /\ pc = "loop"
  /\ Len(out) > limit
  /\ pc' = "finish"
  /\ UNCHANGED <<request, offset, layout, kv_bufs, layer, closures, compiler,
                 logits, output, reply>>

LoopEnds ==
  /\ pc = "loop"
  /\ Len(out) >= limit
  /\ pc' = "finish"
  /\ UNCHANGED <<request, offset, layout, kv_bufs, layer, closures, compiler,
                 logits, output, reply>>

\* tokenizer.decode of the generated tokens answers the request.
Finish ==
  /\ pc = "finish"
  /\ pc' = "idle"
  /\ reply' = "text"
  /\ UNCHANGED <<request, offset, layout, kv_bufs, layer, closures, compiler,
                 logits, output>>

FinishFails == pc = "finish" /\ Abandon

\* The tracer fallback repeats the last prompt token (none if it is EOS).
Echo ==
  /\ pc = "echo"
  /\ pc' = "idle"
  /\ offset' \in {offset, offset + limit}
  /\ out' = <<>>
  /\ by' = <<>>
  /\ reply' \in {"echo", "error"}
  /\ UNCHANGED <<request, layout, kv_bufs, layer, closures, compiler, logits>>

-----------------------------------------------------------------------------
Generate ==
  \/ PrefillLayer \/ PrefillEnd \/ PrefillFails
  \/ Join \/ JoinErr \/ JoinPanic
  \/ FirstToken \/ FirstTokenFails
  \/ StaticStep \/ StaticStepFails
  \/ CompiledStep \/ CompiledStepFails
  \/ EagerBegin \/ EagerLayer \/ EagerEnd \/ EagerFails
  \/ LoopEnds \/ Finish \/ FinishFails
  \/ Echo

Next ==
  \/ \E p \in PromptLens, m \in MaxTokens :
       \/ Reject(p, m)
       \/ \E t \in {"greedy", "sample"} : Start(p, m, t) \/ StartFails(p, m, t)
  \/ CompileReturns
  \/ Generate

Spec == Init /\ [][Next]_vars

\* The engine thread runs until the request is answered; compilation ends.
FairSpec == Spec /\ WF_vars(Generate) /\ WF_vars(CompileReturns)

-----------------------------------------------------------------------------
(* Properties.                                                             *)

\* One type invariant for the engine's per-request state.
TypeOK ==
  /\ pc \in {"idle", "prefill", "join", "first", "loop", "eager", "finish",
             "echo"}
  /\ plen \in Nat /\ limit \in Nat /\ temp \in {"greedy", "sample"}
  /\ offset \in Nat /\ kv_static_cap \in Nat /\ static_masks \in Nat
  /\ DOMAIN kv_bufs = Layers
  /\ \A l \in Layers : /\ DOMAIN kv_bufs[l] \subseteq Nat
                       /\ \A p \in DOMAIN kv_bufs[l] : kv_bufs[l][p] \in Nat \X Nat
  /\ layer \in 1 .. NumLayers + 1
  /\ compiled_static \in Nat /\ compiled_full \in BOOLEAN
  /\ compiler \in {"none", "running", "ok", "err", "panicked"}
  /\ logits \in Nat
  /\ out \in Seq(Nat) /\ by \in Seq({"argmax", "sampler"})
  /\ reply \in {"none", "text", "echo", "error"}

\* Every generated token continues exactly the prompt and the tokens before
\* it, whichever of the static, concat and eager paths produced it and
\* whichever fallbacks happened in between (decode_step's dispatch).
TokensContinuePrefix == \A i \in DOMAIN out : out[i] = plen + i - 1

\* Between two decode steps every layer's cache holds the rows of all tokens
\* but the last, each once and at its own position: no fallback skips,
\* repeats or misplaces a row.
CacheIsPrefix ==
  pc = "loop" =>
    /\ offset = plen + Len(out) - 1
    /\ \A l \in Layers :
         /\ Holds(kv_bufs[l], 0 .. offset - 1)
         /\ kv_static_cap = 0 => DOMAIN kv_bufs[l] = 0 .. offset - 1

\* The capacity chosen by generate_via_mlx is never outgrown: neither
\* "static KV overflow" nor a missing mask can end a request.
CapacitySuffices == Stepping /\ kv_static_cap > 0 => StaticReady

\* A closure present during decode was built for the buffers in use: the
\* static one for their capacity, the concat one for growing buffers.
ClosureFitsBuffers ==
  pc \in {"loop", "eager"} =>
    /\ compiled_static > 0 => compiled_static = kv_static_cap
    /\ compiled_full => kv_static_cap = 0

\* Within a request the engine only ever falls back (static -> concat ->
\* eager); a closure that failed is not tried again.
OnlyFallsBack ==
  [][(pc \in {"loop", "eager"} /\ pc' \in {"loop", "eager"}) =>
       /\ compiled_static' \in {compiled_static, 0}
       /\ compiled_full' => compiled_full
       /\ kv_static_cap' = kv_static_cap]_vars

\* Every request the engine starts is answered, whatever fails on the way.
EveryRequestAnswered == (pc # "idle") ~> (pc = "idle")

\* The promise this module implements.
Promise == INSTANCE Decoder WITH busy <- pc # "idle"
ImplementsDecoder == Promise!Spec

\* What sampler.rs says of temperature > 0: tokens are sampled from logits
\* read back to the CPU.
SampledWhenAsked ==
  temp = "sample" => \A i \in DOMAIN by : by[i] = "sampler"
=============================================================================
