# A verification project for engine-mlx

TLA+ models of the parts of this repository whose correctness depends on the
order of steps, on failures or on shared state; TLC configurations that check
them on small instances; and TLAPS proofs, for every value of the constants, of
nearly all the safety properties those configurations check.

Paths below are relative to the repository; `serve/engine.rs` is short for
`crates/serve/src/engine.rs`, and likewise for the other crates.

## 1. The system

`engine-mlx` serves a Qwen3 model on Apple's MLX. One process holds an HTTP
server (tokio, axum) and one *MLX thread* that owns the engine and every GPU
call. The other crates are libraries around it.

| Component | State it keeps | Operations | Modelled in |
|---|---|---|---|
| Generate loop (`serve/generate.rs`, `engine.rs`, `engine_ext.rs`, `forward_qwen3.rs`, `decode_*.rs`, `compiled.rs`) | KV buffers per layer, `offset`, static capacity and masks, two optional compiled closures, a background compile thread | `generate` = reset, allocate, prefill beside compilation, first token, decode steps, text; echo on error | `EngineDecode`, `Decoder` |
| Inference handle and server (`serve/handle.rs`, `server.rs`, `main.rs`) | an unbounded mpsc channel, a reply channel per call, tokio's blocking pool | chat completion, MLX thread: load, self test, serve | `InferServer`, `InferService` |
| Model plan cache (`modelplan/lib.rs`, `cache.rs`, `parser.rs`) | `model.plan.toml` and its `.sha256` sidecar, shared by processes | `ensure_plan`, `load_plan`, `save_plan` | `ModelPlan` |
| Prefill pipeline (`prefill/*.rs`) | prefix cache with LRU timestamps, a state counter | `run`, `reset`, `lookup`, `store` | `PrefillPipeline`, `LruOrder` |
| KV caches and attention layers (`kvcache/*.rs`, `attention/*.rs`) | K, V and lengths | `append`, `get`, `reset`, called by `gqa_attention`, `sliding_window_attention`, `gated_attention` | `AttentionCache` |
| Tokenizer (`tokenizer/pure.rs`, `serve/tokenizer.rs`) | a cache of encoded pretokens, under a mutex | `encode`, `decode` | `PureTokenizer`, `TokenizerModels`, `TextPipeline`, `ByteLevel`, `Bpe`, `BpeMerge` |
| Expert spill (`spill/*.rs`) | mmaps, expert index, activation history, pins | `open`, `on_expert_selected`, `prefetch_for_step`, `update_pins`, bulk prefetch, release | `Spill`, `ExpertIndex` |
| Model introspection (`modelplan/ops_detector.rs`, `plan.rs`, `lib.rs`) | none | `introspect`, `from_manifest` | `Introspection`, `Load` |
| Server scripts (`scripts/server.sh`, `mlx_lm_server.sh`, `scripts/lib/common.sh`) | pid file, processes, port, registry file | `start`, `stop`, `restart`, `models scan`, `resolve_model` | `ServerScripts`, `ModelRegistry` |
| MLX handle ownership (`serve/generate.rs`, `engine_ext.rs`, `forward_qwen3.rs`, `decode_*.rs`) | live C handles | every allocation and `mlx_array_free` of a request | `EngineHandles` |
| CPU sampler (`serve/sampler.rs`) | a random generator | `sample_token` | `Sampler` |
| Weight loader (`serve/loader/weights.rs`, `safetensors.rs`) | none | `load_weights_from_manifest`, the cuts of fused projections | `WeightLoader`, `Load` |
| Gated delta layer, expert routing (`ops/gdn_forward.rs`, `gdn_*.rs`, `moe.rs`) | convolution window, recurrent state; none | `gdn_forward`; `topk_cpu`, `moe_forward`, `moe_forward_batch` | `GatedDelta`, `MoeRouting` |
| Numeric kernels (`mlx-ffi/ops`), benchmarks and probes | none | arithmetic, measurement | no |

How they interact:

- An axum handler moves the call into `spawn_blocking`; that task sends
  `InferRequest::Generate` with a fresh reply sender over the channel and blocks
  in `recv`. The MLX thread receives requests one at a time, calls
  `Qwen3Engine::generate` and sends the result. Nothing is shared but the channels.
- `generate` spawns one compile thread per request and joins it after prefill;
  on an error before the join the thread is detached.
- The loader calls `ensure_plan` on the model directory before the server is
  ready; the `nxm-modelplan` tool does the same from other processes, without a lock.
- The engine's production path writes KV buffers of its own; the caches of `kvcache` belong to the
  attention layers of `crates/attention`, generic over the `KvCache` trait.
- `generate` encodes and decodes through `serve/tokenizer.rs`, a mutex around `PureTokenizer`.
- A router tells `SpeculativePrefetch` which experts it selected; that drives `ExpertTracker` and,
  over the index `MmapExperts` built, advises the page cache.
- `server.sh` starts the server process and finds it again by its pid file and `/health`; invocations share
  nothing else, and the server knows nothing of them. It takes the model directory from the registry file
  that `models scan` writes.
- The gated delta layer and expert routing belong to hybrid models of the library; nothing in `serve` calls them.
- The prefill pipeline is handed the forward function as a callback; in this
  repository only a test drives it.

What is hard in it: fallbacks half way through a request (three decode paths over
the same buffers); a panic of the one thread that everybody waits for; a client
that leaves while its task blocks a pool thread; two files that have to be
written together by processes that may die or overlap; timestamps that have to
amount to an LRU order; two arrays that must stay in step though the call between them may
fail; a heap that keeps outdated candidates; a ring that wraps; buffers that an unevaluated graph still needs;
shell commands of several invocations between a check and its use. `PROJECT.json` lists each hazard at its line with
the properties that cover it.

What makes each component correct:

- *generate*: a token is computed from exactly the prompt and the tokens before
  it, whatever failed on the way; the request always ends; capacities suffice.
- *server*: every call is answered once, in the order accepted; nobody waits on a
  dead thread; blocking threads come back.
- *plan cache*: a plan loaded describes the sources; a crash heals by itself.
- *prefix cache*: bounded, LRU, and no token is fed twice or left out.
- *KV caches*: K and V hold the rows of the last tokens, whole and in step; attention
  sees each query's window and nothing else.
- *tokenizer*: each model computes what its name promises; the cache never shows; decoding undoes encoding.
- *spill*: an expert's ranges are its share of the data; what is predicted is what was used last.
- *introspection*: what a model requires covers what its layers run.
- *handles*: no buffer is freed twice, or while something unevaluated is built from it; a request without a
  failure loses no KV buffer, and of other handles no more with each token than the arrays of `embed`.
- *sampler*: exactly what top-k and top-p leave is drawn, in proportion.
- *weight loader*: every path multiplies with the rows the checkpoint means, however it stores them.
- *gated delta layer, routing*: how tokens are cut into calls does not show, and a failed call taints few tokens; each token goes to its own best experts.
- *scripts*: a serving process is one the pid file names; no stranger is signalled; "up" means one's own server;
  the registry describes the directories and keeps its default.

## 2. Modules and how they correspond to the code

### EngineDecode, with Decoder and EngineProofs

`pc` is the place in `generate` / `generate_via_mlx` / `finish_generate`; `offset`,
`kv_static_cap`, `kv_bufs`, `compiled_static`, `compiled_full` are the fields of
`Qwen3Engine` of the same name (`static_masks` is the length of the mask vectors);
`layer` is the index of the two layer loops; `compiler` is the background thread.

Tensors are abstracted to what decides whether a token is right. A KV row is the
pair <<token, position>>: which place of the sequence it encodes, and the rotary
offset it was encoded with. A produced token is named by the length of the
prefix attention saw, `Seen`, and is 0 if what it saw (a stale row, a missing row, a
row at the wrong position, a zero row under an open mask) is no prefix. So the token
after the first n has name n exactly when every cache was right.

Any MLX call may fail. The failing alternatives (`StartFails`, `PrefillFails`,
`StaticStepFails`, `CompiledStepFails`, `EagerFails`, ...) leave what the code
leaves: the compiled paths assign buffers and offset only after the readback, the
eager path replaces one layer after the other, `Abandon` is the `Err` branch of
`generate`, which clears the buffers, forgets the compile thread and goes on to the
echo. `EagerBegin` carries the mask check of the eager path.

`Decoder` is the promise: accept a request, emit up to `limit` tokens, the i-th
named `plen + i - 1`, then answer, or give up. `EngineDecode` implements it under
the mapping `busy <- pc # "idle"`.

### EngineHandles, with EngineProofs

`EngineHandles` takes every action of `EngineDecode` together with what it does to MLX handles: `held` is what
`kv_bufs` holds, `arena` what waits in `scratch` and `stale_kv`, `lazy` which buffer is built from which and not
yet evaluated, `live` what is not freed. A buffer a step replaces is superseded (eager step, static prefill), stored
(concat prefill) or freed after the readback (compiled steps); an error drops vectors without freeing. `temps`
counts the other handles a request loses: the arrays of `embed`, of the masks and of `create_starts`, the closure that
`compile_shapeless` forgets, and what `build_step` makes and never frees while it is traced (`mlx_array` is `Copy`, without `Drop`).
A closure is traced by its first call and replayed by the others (`traced`). `StaticTrace` and `ConcatTrace` count the handles of a
trace, line by line of `build_step`, by the number of layers and, since they are optional, of the norms of q and k (`Norms`).

### InferServer, with InferService and ServerProofs

One action per step of a handler (`Ask`, `Respond`), of its blocking task
(`StartTask`, `Send`, `Receive`), of the client (`Disconnect`) and of the MLX thread
(`Load`, `SelfTest`, `Take`, `Reply`, `Panic`, `ReceiverDropped`). `slot[c]` is what
the task's `recv` would find: nothing, a result, or a closed channel. A panic
closes the reply sender of the request in hand first; the receiver, and with it all
queued requests, is dropped a step later, so a call may be sent in between. tokio and
axum are external: a dropped handler does not stop its blocking task, and at most
`PoolSize` tasks run. A failed load and a serving engine use the same `Take` and
`Reply`; only the answers differ. The text of answers, SSE framing and usage counts
are left out: the SSE branch makes the same call and frames the result afterwards.

`InferService` is the promise made to callers: accepted calls are answered one by one
in their order; after the service stopped every call gets an error. The mapping makes
`order` of the request in hand followed by the channel.

### ModelPlan, with ModelPlanProofs

Each process runs `ensure_plan` one file access at a time. A manifest is the pair of
the config version and the weights version it was read from; a hash covers what
`hash_sources` reads, the config only (`HashOf`). `fs::write` is two steps, truncation
and content; `CutFile` is a file cut in between. `Fail` is a crash or an I/O error at
any step. `Edit` is the user. `overlap`, `broken`, `disturbed` are history variables that
name the circumstances the cache has no defence against, so that the properties can say what holds
without them. The sequence `SaveSteps` gives the order in `save_plan`.

### Introspection, with Load and MCModelPlan

What a manifest says, as operators on records of the config (family of the model type, layers, experts,
linear attention, window, quantization) and on what tensor names give away. `DetectOps`, `ClassifyLayers`,
`Introspect` and `FromManifest` are the functions of these names; sizes and the hints made of them are
left out. `Load` puts it beside `ModelPlan`, whose manifests are only
named by their sources, and beside `WeightLoader`, and asks about any config (`ModelConfigs`) and any shape of model (`Shapes`);
`MCModelPlan` gives it small sets of both. `manifest_builder.rs` and `layer_classifier.rs` repeat these functions but are not
modules of the crate, and the copy has drifted: it compares `max_window_layers` with the number of layers
where `introspect` compares the window itself (`lib.rs:53`), which makes most sliding models "sliding".

### PrefillPipeline, with LruOrder and PrefillPipelineProofs

A key is the token sequence rather than its SHA-1. `Run` is `PrefillPipeline::run`
whole: lookup at the five checkpoints, chunks, store with eviction; `RunFails` is a
`forward_fn` that fails on some chunk; `Reset` is `reset`. `prefix_cache_enabled` is
a public field and may differ from run to run. 256, the last checkpoint, is the constant
`SystemLen`. `LruOrder` is a least-recently-used cache as its set of keys and the order they were last used in; the
timestamps are shown to implement it: what is evicted is the one entry used longest ago.

### AttentionCache, with LayersProofs

One cache of any of the three kinds, and the attention call that uses it. A row is named by the position
of its token. `Attend(n)` is a whole call with n tokens: append, get, SDPA. Each MLX call in it may return an error;
`ConcatAppend`, `Fp8Append` and `RotatingAppend` give the set of results `append` may
have, each with the fields it leaves: the old ones, K replaced and V not, the count advanced and the rows not. `AttendFails`
is an error before, in or after `append`. The caller then feeds the same chunk again, or resets. `get` cannot fail after an
`append` that did not. MLX cuts slices off at the end of an array (`Slice`) and aligns the
causal mask with the last key (`Sdpa`). No line on the way to the kernel compares the lengths of K and V, so `Attend` does not either:
a row of K past the end of V is paired with no token (`Pair`), and whether MLX answers such a call or refuses it is left open.
`clean` is a history variable: no call has failed half way since the last reset. What a row contains, RoPE and FP8
rounding among it, is abstracted away.

### GatedDelta, MoeRouting and Sampler, with Ranking, MCLayers and LayersProofs

`Forward(n)` is a call of `gdn_forward` with n tokens, named by their positions: the convolution over the kept
rows and the new ones, the expansion of key heads to value heads, the scan. The recurrent state is the sequence of updates it has
absorbed: `GdnStep` is what one token does to it and `Scan` the state after each token of a call. A call fails before `conv_buf` is assigned (`gdn_forward.rs:98`), between it and the recurrent state (193), or
after both; the caller feeds the chunk again, goes on, or resets. `since` is a history variable, the tokens got through since the last
such failure; `DamageEnds` is about what the layer is after it, with nobody resetting it.

`MoeRouting` is `topk_cpu` and the two ways to use it: `moe_forward_batch` routes row by row, `moe_forward` reads the scores of
all rows as one list, which is the same for one row only.

`Sampler` is `sample_token` over integer weights in the place of probabilities: the stable sort, top-k with
its ties, the nucleus, the draw and its fallback. `Ranking` is the sort and the sum these two share. `MCLayers` puts all of
it beside `AttentionCache`; `RoutedRight` and `SampledFairly` compare routing and sampling with definitions that do not sort,
over all scores, and all weights and draws.

### WeightLoader

The load as a function from a file (tensor names to dtypes and rows) to weights: the names it asks for, a fused projection
or the separate ones concatenated, the optional norms and head, the dtypes that refuse a load; then the three places that cut
a fused result apart: by sizes in prefill and the eager step, by sizes inside the compiled step. `Load` asks
about it in its initial states: `Checkpoint` is a file in any of the layouts, whole or with one tensor lost.

### ServerScripts and ModelRegistry, with MCServerScripts and ServerProofs

`ServerScripts` runs `start`, `stop` and `restart` one shell command at a time: `inv[c].at` is the command the invocation
comes to next and `pid` the pid it has read. A server process builds, then binds the port or exits, and may end at
any time; its pid may be given to another process. An invocation may be cut anywhere. The history variable
`past` says which of the circumstances the scripts do not guard against have happened (two invocations at once, one cut short,
a pid recycled), so that the properties say what holds without them; `fell` are servers that ended of themselves.

`ModelRegistry` is `resolve_model` (registry first, then a scan of the directories) and `models scan`, which reads the old
default, truncates the file and writes it anew. JSON and the shell's parsing of it are reduced to whether `jq` can read the file.

### Bpe and BpeMerge, with BpeMergeProofs

`Bpe` defines byte pair encoding: as long as an adjacent pair is in the merge list, the leftmost of
those of lowest rank is merged. `BpeMerge` is `bpe_merge`: cells linked both ways by index, and a
heap of candidates in which a merge leaves outdated ones (`Skip`, `Current`). It refines `Bpe`
with the tokens read along `next`.

### PureTokenizer, with TokenizerModels, TextPipeline, ByteLevel, MCPureTokenizer, MCTokenizer and TokenizerProofs

`Encode` is `encode` whole: added tokens cut out (`Segments`), normalizers and pre-tokenizers
(`TextPipeline`), the model (`ModelEncode`: byte pairs by definition, WordPiece, Unigram) through the cache, post-processor.
`TokenizerModels` holds the three models, functions of a record of the vocabulary and a pretoken; `LongestAdded` is the longest added
token at a place, the first listed of equals. What the code does by a position that moves through a text is the recursive function `CutUp`.
`Decode` is `decode` with its decoders. Text is a sequence of code points; `ByteLevel` holds UTF-8
and the byte table. Log-probabilities are integers, and the penalty of 10^6 for an unknown character
is 1000. A tokenizer is a record of what its `tokenizer.json` says. `MCPureTokenizer` has six, one or two
of each kind the crate's table lists. `PureTokenizer` takes the result of merging a word from `Bpe`, and `BpeMerge` is the
loop that computes it; `MCTokenizer` checks the two side by side.

### Spill, with ExpertIndex, MCSpill and SpillProofs

`ExpertIndex` is what `open` computes: the layout found, then for each layer and expert the ranges of
its slices, in whichever file a tensor is. The length of a slice is computed as the code does, from the element type with its default of 4 bytes
(`ElemSize`) and the dimensions after the first (`ElemsPerExpert`). A file says of each tensor where its data begins, how long it is, its type and
its shape; the parser of safetensors, modelled by `Parsed`, refuses one whose length is not that of its shape. `Wellformed` says which
checkpoints the index is for: a tensor is in one file, the tensors of a
layer have one layout and one name for each part; the rest, a missing tensor, an unlisted type or a first dimension
other than `num_experts` included, is open. `Spill` has the calls: selections recorded in a ring per layer, the
prediction (what the layer used last and its most frequent experts), the lookahead of 4, 8, ...
layers, pins, release. `Advise` cuts a list of ranges off anywhere, as a failing `madvise` does; the layers of a hash map come in any
order. `used` is the whole history of selections, which the code does not keep.

## 3. Runs

| Run | Bounds | What it shows |
|---|---|---|
| `engine_decode` | 2 layers, prompts of 0-2 tokens, max_tokens 0, 1, 4, slack 0, minimal capacity 2 | tokens, caches, capacities and closures are right on every path; handles are owned and returned; it implements `Decoder` |
| `engine_sampling` (violation) | 1 layer | with temperature > 0 the closures still choose by argmax |
| `infer_server` | 3 calls, pool of 2 | `NobodyForgotten`, `BacklogBounded`, liveness, implements `InferService` |
| `model_plan` | 2 processes, 2 configs, 2 weights, 3 calls, 2 edits | what the cache guarantees and under which proviso; `KernelsCoverLayers` over every config of up to 5 layers; `LoadedAsStored` over three shapes, every layout, every single tensor lost |
| `plan_stale` (violation) | 1 process, 1 edit of the weights | a stale plan is served |
| `prefill_pipeline` | 2 entries, chunks of 3, `SomePrompts`, `MaxOps` 7 | chunks, LRU refinement |
| `layers` | window 3, chunks of 1-4, 8 rows; kernel 4, 2 key and 4 value heads, 6 tokens, 2 failures; 3 experts with scores 0, 1, 2, 4; 3 tokens of weight 1, 2, 3, 6 | K and V are the window, and a K ahead of V shows, through errors, retries and resets; chunks do not show in the gated delta layer, and the damage of a failed call ends; experts are chosen per token; the sampler draws fairly |
| `tokenizer` | six tokenizers, caches of 1 and 2 entries, the short texts over each one's alphabet; all lists of 3 merges out of 6 pairs, words of up to 5 letters | cache, added tokens, Unigram, WordPiece, ASCII round trip; the heap loop ends and implements `Bpe` |
| `tokenizer_round_trip` (violation) | the same | a character of two bytes decodes as two characters |
| `spill` | 5 layers, 2 experts, six sets of files, ring of 2, 3 selections | byte ranges and lookahead |
| `spill_layers` (violation) | the same | a model opens with an empty index |
| `server_scripts` | 3 invocations, 3 pids, 2 polls each; 2 organisations, 2 names, 2 scans | what holds of servers and their pid file while nothing disorderly has happened; the registry agrees with the directories |

Why the bounds are enough:

- *engine_decode*: two layers are the fewest at which an eager step can leave the layers
  different; four tokens are a first token, a step, a step after a fallback and one after a second fallback; the
  minimal capacity 2 makes some requests exceed it and others not; slack 0 is the tightest
  case (the code has 16). Requests follow one another without bound, so what one leaves to the
  next is covered. The proofs remove all of these bounds.
- *infer_server*: with 3 calls and a pool of 2 there is one in hand, one queued and one
  that waits for a thread. A call is used again, so histories are unbounded. The proofs remove both bounds for safety.
- *model_plan*: `MaxCalls` 3 lets a crashed call, a second and a third one follow one another or
  overlap; `MaxEdits` 2 lets a source change and change back. The proofs remove these bounds, and those on configs,
  checkpoints and shapes.
- *prefill_pipeline*: `SomePrompts` holds prompts of which some are prefixes of others at and
  beside checkpoints. `MaxOps` bounds the timestamps between two resets, not the number of operations. The proofs remove all of it.
- *layers*: chunks of 4 are larger than the window of 3, and 8 rows fill it, overflow it and go round
  again; errors and resets may follow each other without bound. The proofs remove these bounds. In the gated delta layer
  six tokens shift its window of three rows out twice, in calls shorter and longer than it; two failures are one
  in each place a call may fail in, in either order. Three experts give ties and a middle, and k runs past them. The
  parts of this run share nothing, so each moves while the other is in its initial state.
- *tokenizer*, merging: three merges suffice for a pair of low rank that only a merge of high rank brings about, and
  for candidates outdated on either side; five letters for two that overlap. The proofs remove both bounds.
- *tokenizer*, encoding: the cache is smaller than the number of words of a text, so it is cleared within a call and
  between calls. The proofs remove the bounds for `AnswersAlike` and `SegmentsTile`. The T5 scores make neither the first nor the longest piece the best one.
- *spill*: the ring of 2 wraps at the third selection; of five layers 0 and 4 are one lookahead
  apart; the file sets have one and two files, either layout, a dense first layer and a missing tensor, types of
  1, 2 and 4 bytes, tensors of one to three dimensions, and one model the index misreads (an unlisted type and a wrong first dimension), of
  which nothing is claimed. The proofs remove these bounds.
- *server_scripts*: three invocations are one that works, one that disturbs it and one that comes later; three pids a server,
  the one it lost a race to and a stranger's; two polls are a first and a last. `CONSTRAINT Claimed` stops at states after
  a circumstance the scripts do not guard against, where nothing is claimed; the three invocations, pids, scans and organisations are
  interchangeable, and all properties are about safety, so the symmetry is sound. The proofs need neither constraint nor symmetry.
- `KernelsCoverLayers`, `LoadedAsStored`, `SampledFairly` and `RoutedRight` are about functions, so they are asked in
  the initial states alone. Five layers show a whole period of ornith's pattern and deepseek's dense first layer; the shapes of
  `LoadedAsStored` are with and without grouped heads, a head wider and narrower than the feed-forward; weights 1, 2, 3, 6 have ties
  and sums that meet a tenth of the whole exactly, and sums that do not.

Deadlock is checked except where the system really stops: in `model_plan` and `plan_stale` every process may
have used its calls, in `tokenizer` and `tokenizer_round_trip` the word is done, in `spill` and `spill_layers` `open` may have
failed. `MaxOps`, `MaxRows`, `MaxTokens` and `MaxFailures` leave a reset enabled.

Each run checks what may go wrong rather than types. The type invariants are proved (section 4); TLC finds them, and the
inductive invariants of the proofs, true of the instances of these runs.

### Fairness

- `EngineDecode`: `WF(Generate)`, the MLX thread keeps executing its request, and
  `WF(CompileReturns)`, tracing and compilation end. No choice between success and failure
  is fair: liveness holds if every call fails forever.
- `InferServer`: weak fairness of the listener, of the blocking pool and of each task and handler, as
  tokio polls what is ready; and of the MLX thread, since loading ends and each generation ends
  (`EngineDecode!EveryRequestAnswered`, checked in `engine_decode`). Clients owe nothing: neither `Ask` nor
  `Disconnect` is fair. Per-call fairness of `Send`, `Receive` and `Respond` is what the runtime
  gives each task; `StartTask` serves the pool's queue in order.
- `EngineHandles` has the fairness of `EngineDecode`: its variables are read by nobody.
- `MCTokenizer`: weak fairness of the merge loop, which is sequential code; a client need not encode.
- The other modules state safety only.

### Disagreements of documents and code

Each is a `violation` run with its quotation in `PROJECT.json`:

- `engine_sampling`: with temperature > 0 only the first token is sampled (`serve/sampler.rs:4`);
- `plan_stale`: a plan is "missing or stale" or else returned, but the hash leaves out the weights
  (`modelplan/lib.rs:198`);
- `tokenizer_round_trip`: "encode text to tokens and back" (`tokenizer/traits.rs:9`) fails beyond ASCII;
- `spill_layers`: "Test if this shard has any experts" (`spill/mmap_experts.rs:97`) asks layer 0 only.

Met while modelling and not made into runs, because no text of the repository claims otherwise, or what it
claims is too vague:

- a quantization config with 4 bits and a method other than mlx, gptq or awq, or none (read as "unknown"), gets
  the format "q4" in the manifest but no `quant_matmul_q4` among its operations (`ops_detector.rs:24`,
  `lib.rs:131`);
- a model type other than ornith with a linear attention config gets the attention type "hybrid", but every layer
  is classified as attention (`ops_detector.rs:227`);
- `hot_experts` includes experts never activated, so a prediction is never empty;
- `contiguous_range` (`expert_index.rs:40`) spans from the gate weights to the down bias of one expert, which
  contains the ranges between them only if the stacked tensors lie in the file in that order; only a test calls it;
- the tokenizer's cache is described as LRU (`pure.rs:1003`) but is cleared whole;
- an added token with an empty text is found at every place and never gets past it, so that `split_added` does not end (`pure.rs:1135`);
- `decode` leaves out added tokens whose id is past the vocabulary, and the byte fallback of Unigram at
  `pure.rs:877` cannot be reached;
- WordPiece keeps the pieces found before the unknown rest of a word;
- a rotating cache whose V slice failed and that is used without a reset pairs K rows with V rows
  a chunk older; and the earlier queries of a chunk that overflows the window see less than their window, where
  `kvcache/lib.rs:16` says "Perfect (within window)". `AttendsWindow` says what does hold;
- after a failed V `concat` (`concat.rs:42`) a cache used without the reset is attended over with K a chunk ahead of V: neither
  `gqa.rs:100`, `ops/attention.rs:173` nor `mlx-ffi/ops/real/blas.rs:82` compares the two. `PairsMatch` says no more than that the lengths
  differ until the reset, so that one comparison would find it;
- a tensor of a type the match in `mmap_experts.rs:307` does not list counts 4 bytes an element, and the first dimension is never compared
  with `num_experts`: the ranges of such a tensor are wrong, and may lie outside it;
- "the resource count" is not exactly "flat between requests" (`engine_ext.rs:25`): `embed` loses two handles per call, each
  mask two, `create_starts` four, the compiled closure one and its trace some thirty for each layer, as `HandlesReturn` says;
- an error between the window and the state of the gated delta layer (`gdn_forward.rs:98` and 193) leaves the window a chunk ahead, and
  nothing tells the caller: a chunk fed again is convolved with its own rows in the place of those before it;
- nothing keeps two invocations of `server.sh` apart: of two starts that pass `is_running` together (`server.sh:83`) the pid file may name the
  one that could not bind, and two scans at a time, or one cut after the truncation (`server.sh:170`), lose the default. `ServerNamed`, `UpMeansMine` and
  `DefaultKept` hold up to there; after it they do not, and exclude it by their preconditions;
- f32 rounding, which `Sampler` leaves out, can make the sampler return a last token of probability 0 (`sampler.rs:195`), and a
  draw of "[0, 1)" (`sampler.rs:72`) can round to 1.0;
- `gdn_metal.rs:55` falls back to `gdn_step` "when the kernel fails", but `gdn_forward.rs:186` passes the error on;
- `moe_forward` is documented for `[seq_len, hidden]` (`moe.rs:99`) but routes as if all rows were one token
  (`moe.rs:127`); only `moe_forward_batch` routes each row;
- a checkpoint quantized to other than 4 or 8 bits, in mxfp8, or declared under `quantization` rather than
  `quantization_config` (`parser.rs:166`) is loaded as 4 bits; an `lm_head` whose scales are missing gives way to the embedding while
  the log says "lm_head loaded (separate, non-tied)" (`weights.rs:187`); a U8 or BOOL tensor that nobody asks for refuses the whole load;
- the scripts are safe one invocation at a time only: two starts may both pass `is_running` (`server.sh:83`); `stop` may remove the pid file
  of a server started meanwhile (`common.sh:227`); a start cut between launch and pid file leaves a server nothing can stop; KILL is not
  awaited (`common.sh:226`), so that the "up" of a restart may be the dying server's; a recycled pid is taken for the server
  (`common.sh:200`); `/health` says 200 before the model is loaded, and if it fails to load (`server.rs:243`);
- a `models scan` cut after it truncated the registry leaves an empty file, on which every later scan fails
  (`server.sh:170`); a registry default that is a bare name not listed is taken for a path (`common.sh:105`).

## 4. Proofs

Every theorem is of the form `Spec => []P`, `Spec => [][A]_vars` or `Spec => Abstract!Spec`, for all values of the constants that the
named assumptions of the modules allow. Bounds of the runs (`MaxOps`, `MaxCalls`, `MaxRows`, ...) are constants too, so a proof
covers every length of run. In each proof the invariant that is to be shown is seldom inductive; what is added to it, and why, follows.

### Assumptions

- `SizesAssumption`, `PipelineAssumption`, `GdnAssumption`, `ServerAssumption`, `PlanAssumption`, `ScriptsAssumption` and
  `RegistryAssumption` say that sizes are natural numbers, positive where a model without a layer, a head, a row of cache or a
  process would be none, and that the values standing for nothing are none of the others. `ValueHeads >= KeyHeads` is what grouped heads mean.
- `TokAssumption`: texts are sequences of code points, the cache has room for one entry (10 000 in the code), an added token is not
  empty (`split_added` would not end), and an operation of a pipeline has the fields its name calls for. `WordsAreTexts` and
  `ScoresAssumption`: words are sequences, scores and weights natural numbers, weights positive, and a vocabulary is finite.
- `LoadAssumption`: configs and shapes consist of natural numbers; nothing else is asked of them.
- `IndexAssumption` and `SpillAssumption`: a router selects different experts that exist, a part of an expert has a name to
  try, and checkpoints are `Wellformed` (section 2). A layer stored in both layouts, or a tensor in two files, is
  outside what `open` looks for.

### EngineProofs

About the loop:

- `TypeCorrect`, `TokensRight`, `CacheRight`, `CapacityRight`, `ClosuresRight`: the type invariant and the four others the run checks;
- `FallsBackOnly`: the action property `OnlyFallsBack`;
- `Implements`: `EngineDecode` implements `Decoder`.

`TokensContinuePrefix` alone is not inductive: the next token is right only if the buffers are, so the
invariant `IInv` says for every `pc` what they hold.

- `PrefillInv`: before the first token `offset` is 0 and layers below `layer` hold the prompt;
  the static layout is in use exactly as long as there is a compile thread to join (so a second
  prefill is always a concat prefill).
- `FirstInv`: at the first token every layer is filled, and the closure, if any, has the capacity in use.
- `DecodeInv`: between steps every layer holds the tokens before the current one; inside an
  eager step the layers already passed hold one more.
- `RequestInv`: capacity is at least prompt plus max_tokens, with a mask for each row.

The argument: `ScatterAppends` and `ConcatAppends` show that either way of writing the current
token extends `offset` right rows to `offset + 1`; `SeenAll` that attention then sees exactly that
prefix; `PushRight` that the token pushed is the right one; `StepDone` puts them together once
for the three decode paths. Fallbacks (`FallBackInv`) change nothing but the closure. The
refinement has one case per action on the same invariant.

About handles: `HandlesIsEngine`, that `EngineHandles` adds variables to `EngineDecode` and takes nothing from its
behaviours, so that `IInv` holds there too; `NothingFreedEarly` (`HandlesOwned`) and `NothingLost` (`HandlesReturn`). `HInv` says what
an unevaluated buffer is built from is in the arena, which shares nothing with `kv_bufs` (`OwnedInv`); which layers have a buffer to replace at each `pc`
(`FilledInv`); that without a failure all that lives is in `kv_bufs` or the arena, and the arena is empty between the
steps that fill it (`WholeInv`); and how many other handles are gone after so many embeddings (`CountInv`), where `StaticInv` says which
closure a request without a failure steps with, and `Trace` and `Stepped` that it was traced exactly if a step was made. A path of the code is
one of four ways to replace a buffer, and there is one lemma for each: `Superseded`, `StoredHandle`, `Freed`, `Committed`.

### LayersProofs: caches and attention

For every window, chunk length and number of rows:

- `TypeCorrect`, `WindowRight`, `AttendedRight`: the type invariant, `WindowKept` and `AttendsWindow`.
  `WindowKept` is inductive with `TypeOK`: an error that was not clean ends its claim until a reset, any other
  leaves the cache. The step of `append` rests on two lemmas about sequences of consecutive
  positions: `RunConcat` (such a run followed by the next positions is one) and `RunSlice` (its tail is one). The attended
  pairs follow from the rows and the shape of the mask (`SdpaWindow`).
- `PairsRight`: `PairsMatch`, by the invariant that in a concat or fp8 cache K and V are equal, or K is
  longer. K that ran ahead of V grows by as much as V does, so the two are never of one length again before a
  reset, whatever is appended. No row is looked at: the argument is about
  lengths alone, which is why the rotating cache, whose slices even them out, is left out. That a cache in this state is not
  attended over is not claimed: the code does so.

### ServerProofs: the inference server

For any set of calls, finite or not, and any pool: `TypeCorrect`,
`TasksRemembered` (`NobodyForgotten`), `BacklogWithinPool` (`BacklogBounded`) and `Implements` (`ImplementsService`).
`NobodyForgotten` is not inductive: that a reply or a drop of the receiver reaches a task depends on where its request is. `IInv`
adds that a request is in one place, in the channel once or in hand (`ChanInv`); that it is there exactly when its task
blocks without an answer (`HeldInv`); that answers exist for tasks that block only, and results for handlers that
still wait (`AnswerInv`); that a thread not serving has nothing in hand and a dead one an empty channel (`ThreadInv`). The backlog is
bounded because the channel, without repetition, maps into the calls that block a thread (`DistinctBounded`). The
refinement reads the status of a call from its task, its reply channel and its result, and the order from the request
in hand and the channel; a panic with a request in hand is an answer, the drop of the receiver the stop.

### ModelPlanProofs

For any processes, configs, weights and any number of edits and calls: `PlanTypes`, `FreshUnlessDisturbed` (`StaleOnlyIfDisturbed`),
`CrashesHeal` (`CrashHeals`), `Settled` (`CacheSettles`). Each part of `IInv` is a fact the others need:

- `SaveInv`: undisturbed, a regeneration works on the sources there are, so what it writes is right whoever wrote in between;
- `FitInv`: a plan beside a sidecar that is not its own is of the sources as they are, and somebody who regenerates it has left it;
- `ValidInv`: a sidecar found valid promises that the plan is of the sources, from its read to the read of the plan;
- `OweInv`: as long as the files do not fit, some process has yet to write. This is what `CacheSettles` comes from: when nobody
  owes anything, they fit;
- `HealInv`: with one call at a time a valid sidecar stands next to a whole plan only, since `save_plan` writes the plan first.

From `SaveSteps` only the order is used (`SaveOrder`, `Proceeds`).

The two theorems about loading are facts about functions, for any config and any shape:

- `KernelsCovered` (`KernelsCoverLayers`): a layer's kind comes from `classify_layers`, the operations from `detect_ops`; `LayerKind` gives the kinds a
  family can have and `OpsOfFamily` what is required of it, and one case for each kind compares them.
- `LoadedRight` (`LoadedAsStored`): `CutTwo` and `CutThree` show that cutting a concatenation by the sizes of its pieces gives them back, whatever
  they are, and `SplitsRight` that the sizes used are those of the projections, in all the three readers. `ProjectionsRight` follows the
  fallback from a fused projection to separate ones when a tensor is lost, `WholeLoads` that nothing is refused when none is,
  `HeadRight` that a head with a part missing gives way as a whole.

### PrefillPipelineProofs

For any prompts, limit, chunk size and system length: `PipelineTypes`, `FedOnce` (`EveryTokenFedOnce`), `CacheBounded` and `LruImplemented`
(`ImplementsLru`). `PInv` adds that no two entries were last used at one time and none later than the counter (`Timed`), and the
bound on the entries (`Fits`; a limit of 0 still lets the map hold one). `ChunksCover` shows that `make_chunks` cuts a list into pieces
that give it back; the refinement maps timestamps to the order they are in, `StampedLast` and `RemovedOrder` say what a use and an
eviction do to that order, and `SmallestOldest` that the entry evicted is the one used longest ago.

### LayersProofs: the gated delta layer

For any kernel, heads and calls: `GdnTypes`, `AnswersWhole` (`ChunksDontShow`), `DamagePasses` (`DamageEnds`). `StateInv` says that before a call has
failed half way the window and the recurrent state are those of one call with all the tokens so far. `ConvRight` and `HeadsRight`
show that what a token adds does not depend on where a call begins; `ScanRight` that the state after each token of a call is
what the updates until then make of it. `DamageEnds` needs `WindowInv`: those rows of the window that came in since the last failure are of
the last tokens, whatever the others are. `InputSince` says it of the rows a call convolves, `StepSince` that an update made of such rows alone is
the right one, and `ForwardSince` that a call which succeeds leaves both as they were.

### LayersProofs: routing and sampling

`RoutedAlways` (`RoutedRight`) and `RoutesRight`, for batches of any length, any scores, k and either normalization;
`SampledAlways` (`SampledFairly`) and `DrawsRight`, for any vocabulary, any positive weights, any top_k and every top_p in tenths. They
are facts about functions, so the behaviours add nothing; the instances the run asks about follow from the general theorems.

- Sums: `Total` is a fold, and `TotalIs` unfolds it; `Along` says that the sum along an order is the sum over the set of places,
  and from there on the proofs speak of sets (`OverUnion`, `OverSubset`).
- Ranking: each place comes before or after any other (`BeforeIs`), so the numbers of places before it are all different and
  the r-th place exists (`RankedIs`, a function from a finite set to itself that is one to one is onto).
- The sampler: `TopKIs` and `NucleusTop` say without an order what the two filters leave, ties at the threshold included;
  `DrawIs` that a draw finds the id in whose share of the mass it falls, so an id is drawn by as many draws as it has weight.
- The routing: `TopkIs` says what `topk_cpu` lists, `FlattenSingles` that the rows routed one by one come back in order.

### ServerProofs: the scripts

For any directories, scans, invocations, process ids and timeouts: `RegistryTypes`, `RegistryAgrees` (`FreshAgrees`),
`DefaultSurvives` (`DefaultKept`); `ScriptTypes`, `NoOrphan` (`ServerNamed`), `NoStrangerKilled` (`StrangersSpared`),
`UpIsMine` (`UpMeansMine`). The registry's default is at each moment in the file or with the one scan that has truncated it (`DefaultInv`).
About the scripts, `ReadInv` says that a pid an invocation has read is in the file still, or the file is gone; `LooseInv` that a server which was
not sent KILL is the one in the file, or one whose file is about to be written, or one another stop still polls;
`StrangerInv` that no recycled pid is one a script knows. `NoOrphan` allows overlaps between stops, which
is why two servers at a time have to be counted with: one that dies and one that is started.

### SpillProofs

For any number of layers and experts, any window, depth and number of selections, any well-formed checkpoint and wherever a call that advises
fails: `SpillInductive`, `SlicesRight` (`SlicesTile`), `ReuseCovered` (`LookaheadCoversReuse`). The invariant: the index is that of the files, or there is none;
the entry before the position of a layer's ring is its last selection (`HistInv`), however often the ring went round.
`FlattenHolds` says that a flattened sequence holds what its members hold. `FlattenSeq` is a recursive function, and the library's
induction is out of reach, so `FlattenUnfolds` shows by a smallest counterexample that a function with its recursion exists, and
then that this one has the property. `NameIs` and `ShardIs` find the tensor of a part, and `BytesFrom` compares the bytes of its slices with those of
the tensor. That a computed length is an expert's share of the data is `PieceIs`: `ProductUnfolds` unfolds the product of the dimensions,
`VolumeIs` shows that the product of all of them is the first times that of the others, for any rank, and `ShareIs` divides. It assumes of the
layer what `Stacked` says, the listed types and a first dimension of `num_experts`.

### BpeMergeProofs

`LoopImplementsDefinition`: for any merge lists and any texts, `bpe_merge` implements `Bpe`; every merge it makes is of the leftmost pair of
lowest rank, and it ends only when no pair is left. `IInv` says that the cells in use form a chain from the first cell, linked both ways and
in order, that a cell merged away is linked nowhere (`Links`), and that any two neighbours with a rank are in the heap under it (`Complete`).
The heap may hold more: candidates whose cells were merged or changed. Hence three facts: a candidate `Skip` drops is none that
`Complete` asks for (`SkipHolds`); the smallest one that stands is the best pair (`MergeHolds`), since the heap orders candidates by rank
and then by place, as the definition does; an empty heap leaves no pair (`EmitHolds`). `VisitedIs` shows that reading along `next` visits
the chain, and `Unlinked` that a merge takes one cell out of it.

### TokenizerProofs

For any tokenizer `TokAssumption` allows, any texts and any limit of the cache: `CacheSound`; `AnswersAlways` (`AnswersAlike`, an action
property); `SegmentsAlways` (`SegmentsTile`).

The cache. `AnswersAlike` needs to know what is in the cache, so `IInv` says that each entry is what the model says of its pretoken, and
that there are no more entries than the limit. What the model says is left unexpanded: the argument holds for any function of a pretoken. Two
calls are then followed side by side, one from the cache there is and one from an empty one: `Alike` is that their ids so far are equal and both
caches are sound, whatever each holds, and one pretoken (`PretokenAlike`), one segment (`SegmentAlike`) and so the call (`EncodeAlike`)
preserve it, hits, misses and a clearing half way included.

The segments. `LongestIs`, `HitIs` and `ToIs` say of each place where the next added token is and where it ends; `Tiles` says of a list of
segments that it covers the text from a place on as it should, `RegularTiles` and `AddedTiles` that the empty list and a cut put before
such a list give one again, and `SegmentsTiles` goes down from the end of the text. `SegmentsRight` turns that into the property.

What both rest on:

- folds and recursive functions are unfolded by showing that a function with the recursion exists, up to each length (`FoldSolved`,
  `CutUpIs`, `FlattenUnfolds`); `FoldWalks` turns a fold into the sequence of its accumulators;
- the pipelines keep texts texts: `NormalizeOpTyped` and `PretokenizeOneTyped` go through every normalizer and pre-tokenizer,
  through regular expressions (`MatchLengthIs`, `PiecesTyped`) and the byte table (`Utf8Typed`, `BytesTyped`).

## 5. Only model-checked

- Liveness (`EveryRequestAnswered`, `EveryCallAnswered`, `ThreadsReturn`, the end of the merge loop in `MergesAsDefined`), which
  needs fairness, out of the proof system's reach. The rest of `MergesAsDefined`, the refinement of `Bpe`, is `LoopImplementsDefinition`.
- `PiecesBest`. It is not true of every tokenizer: with enough pieces whose scores are below the penalty an unknown character costs,
  Unigram prefers the unknown token, and in WordPiece the unknown token may itself be a piece of a word. The run has tokenizers without
  these; the weakest condition that excludes them is open, and the sequence of known ids is a `SelectSeq`, which the provers cannot unfold.
- `AsciiRoundTrip`, which speaks of the tokenizers in `Reversible`: whether decoders undo what normalizers and pre-tokenizers do is a
  matter of each one's configuration, so there is nothing to show for all of them.

## 6. Not modelled

- int4 KV and draft verification (`engine_ext.rs`, `forward_qwen3.rs`): reached from debug tests only.
- Numeric kernels: the engine, cache and layer models state what they need of them. Floating point, and with it f32 rounding
  of scores and probabilities, is out of the tools' reach.
- What a detached compile thread and the next request do to each other inside MLX.
- The contents of messages and answers; sizes, hints and scratch of a manifest.
- Prefill: `optimal_chunk_size`, which nothing calls.
- Tokenizer: Unicode normalization forms, accent stripping, regular expressions beyond runs of character
  classes, the external `tokenizers` crate that only tests use.
- Spill: hit counters, which nothing reads; the single-file index builder, which nothing calls; the arrays made from the
  mapping.
- Scripts: `status` and `logs`, which only read; arguments, JSON and colours.
- Benchmarks and probes: measurement only.

## 7. Plan

All modules of the plan are written, and all safety properties of the runs but two are proved. What is left:

1. `PiecesBest` under conditions: scores above the penalty for Unigram, an unknown token that is no piece of a word for WordPiece.
2. That `BpeEncode`, which repeats `Bpe`'s merge until nothing changes, gives the tokens `Bpe` ends with; the run compares them.
3. That the table of bytes has an inverse (`UnicodeToBytes`), a first step to a round trip for byte-level tokenizers.
