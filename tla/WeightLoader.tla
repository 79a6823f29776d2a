---------------------------- MODULE WeightLoader ----------------------------
(***************************************************************************)
(* How a safetensors file becomes the weights the forward passes multiply  *)
(* with: load_weights_from_manifest of crates/serve/src/loader, and the    *)
(* three places that cut a fused projection apart again.                   *)
(*                                                                         *)
(* A file is a function from tensor names to tensors; a name is            *)
(* <<layer, matrix, part>>, with layer Global for those outside the layers.*)
(* A tensor is its dtype and its sequence of rows; a column of a           *)
(* projection's result is a row of the projection, so the activations the  *)
(* code slices are sequences of rows here.                                 *)
(***************************************************************************)
EXTENDS Integers, Sequences

Global == -1
Parts == {"weight", "scales", "biases"}
Failed == [failed |-> TRUE]

\* safetensors_dtype_to_mlx and load_tensor_as_mlx: U8 and BOOL have an MLX
\* dtype that the copy then has no case for.
Mappable == {"F32", "F16", "BF16", "U32", "I32", "U8", "BOOL"}
Loadable == Mappable \ {"U8", "BOOL"}

Quantized(layer, matrix) == {<<layer, matrix, part>> : part \in Parts}

-----------------------------------------------------------------------------
(* load_weights_from_manifest.                                             *)

\* concatenate_many along axis 0, for one part of some matrices of a layer.
Concatenated(file, layer, matrices, part) ==
  LET rows(i) == file[<<layer, matrices[i], part>>].rows
  IN  IF Len(matrices) = 2 THEN rows(1) \o rows(2) ELSE rows(1) \o rows(2) \o rows(3)

\* The fused projection of the file if its weight is there, with its own scales
\* and biases; else one made of the separate projections.
FromFused(file, layer, fused) == <<layer, fused, "weight">> \in DOMAIN file

NamesOf(file, layer, fused, matrices) ==
  IF FromFused(file, layer, fused) THEN Quantized(layer, fused)
  ELSE UNION {Quantized(layer, matrices[i]) : i \in DOMAIN matrices}

Projection(file, layer, fused, matrices) ==
  [part \in Parts |->
     IF FromFused(file, layer, fused) THEN file[<<layer, fused, part>>].rows
     ELSE Concatenated(file, layer, matrices, part)]

QkvNames == <<"q_proj", "k_proj", "v_proj">>
GateUpNames == <<"gate_proj", "up_proj">>

\* What the load asks for with `?`; q_norm, k_norm and lm_head are optional.
Needed(cfg, file) ==
  Quantized(Global, "embed_tokens") \cup {<<Global, "norm", "weight">>}
    \cup UNION {NamesOf(file, l, "qkv_proj", QkvNames)
                  \cup NamesOf(file, l, "gate_up_proj", GateUpNames)
                  \cup Quantized(l, "o_proj") \cup Quantized(l, "down_proj")
                  \cup {<<l, norm, "weight">> :
                          norm \in {"input_layernorm", "post_attention_layernorm"}}
                : l \in 0 .. cfg.layers - 1}

Stored(file, layer, matrix) == [part \in Parts |-> file[<<layer, matrix, part>>].rows]

LayerWeights(file, l) ==
  [qkv_proj |-> Projection(file, l, "qkv_proj", QkvNames),
   gate_up_proj |-> Projection(file, l, "gate_up_proj", GateUpNames),
   o_proj |-> Stored(file, l, "o_proj"),
   down_proj |-> Stored(file, l, "down_proj"),
   norms |-> {norm \in {"q_norm", "k_norm"} : <<l, norm, "weight">> \in DOMAIN file}]

\* Every tensor of the file is copied before one is looked up, so a tensor that
\* nobody asks for can fail the load too.
LoadWeights(cfg, file) ==
  IF \/ \E name \in DOMAIN file : file[name].dtype \notin Loadable
     \/ ~ (Needed(cfg, file) \subseteq DOMAIN file)
  THEN Failed
  ELSE [layers |-> [l \in 0 .. cfg.layers - 1 |-> LayerWeights(file, l)],
        embed |-> Stored(file, Global, "embed_tokens"),
        lm_head |-> [part \in {p \in Parts : <<Global, "lm_head", p>> \in DOMAIN file} |->
                       file[<<Global, "lm_head", part>>].rows]]

-----------------------------------------------------------------------------
(* The readers of the weights.                                             *)

\* The head is lm_head with all its parts, else the embedding: in prefill, in
\* the eager step and in the compiled step.
HeadUsed(loaded) ==
  IF DOMAIN loaded.lm_head = Parts THEN loaded.lm_head ELSE loaded.embed

\* prefill and decode_step slice with bounds.
StaticSplits(cfg, qkv, gup) ==
  LET nh == cfg.heads * cfg.dim
      nkv == cfg.kv_heads * cfg.dim
  IN  [q_proj |-> SubSeq(qkv, 1, nh),
       k_proj |-> SubSeq(qkv, nh + 1, nh + nkv),
       v_proj |-> SubSeq(qkv, nh + nkv + 1, nh + 2 * nkv),
       gate_proj |-> SubSeq(gup, 1, cfg.ff),
       up_proj |-> SubSeq(gup, cfg.ff + 1, 2 * cfg.ff)]

\* Mutant: the starts of k and v are swapped.
StartsSwapped(cfg) ==
  [zero |-> 0, k |-> cfg.heads * cfg.dim + cfg.kv_heads * cfg.dim,
   v |-> cfg.heads * cfg.dim, up |-> cfg.ff]

\* create_starts: the offsets the compiled step holds as arrays.
Starts(cfg) ==
  [zero |-> 0, k |-> cfg.heads * cfg.dim,
   v |-> cfg.heads * cfg.dim + cfg.kv_heads * cfg.dim, up |-> cfg.ff]

\* The compiled step slices at a start for a length.
Dsplit(rows, start, len) == SubSeq(rows, start + 1, start + len)

CompiledSplits(cfg, qkv, gup) ==
  LET starts == Starts(cfg)
      nkv == cfg.kv_heads * cfg.dim
  IN  [q_proj |-> Dsplit(qkv, starts.zero, cfg.heads * cfg.dim),
       k_proj |-> Dsplit(qkv, starts.k, nkv),
       v_proj |-> Dsplit(qkv, starts.v, nkv),
       gate_proj |-> Dsplit(gup, starts.zero, cfg.ff),
       up_proj |-> Dsplit(gup, starts.up, cfg.ff)]
=============================================================================
