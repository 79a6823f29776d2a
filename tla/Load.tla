-------------------------------- MODULE Load --------------------------------
(***************************************************************************)
(* What loading a model makes of its directory: the cached plan of         *)
(* ModelPlan, what an introspection says of a config (Introspection), and  *)
(* the weights read from a checkpoint (WeightLoader).                      *)
(***************************************************************************)
EXTENDS ModelPlan, Introspection, WeightLoader

CONSTANTS
  ModelConfigs,  \* configs introspected
  Shapes         \* shapes of models whose checkpoints are loaded

ASSUME LoadAssumption ==
  /\ ModelConfigs \subseteq RawConfig(Nat, Nat, Seq(Nat))
  /\ Shapes \subseteq [layers : Nat, heads : Nat, kv_heads : Nat, dim : Nat, ff : Nat]

-----------------------------------------------------------------------------
(* Engine plans.                                                           *)

\* What a layer of each kind runs.
CoreKernels(core) ==
  CASE core = "Attention" -> {"rope", "flash_attn_decode"}
    [] core \in {"GatedDeltaNet", "LinearAttention"} -> {"fused_gdn_step", "conv1d"}
    [] core = "Mamba2" -> {"mamba2_scan", "conv1d"}

MlpKernels(mlp) == IF mlp = "MoE" THEN {"moe_routing"} ELSE {mlp}

\* The kinds of the layers and the operations required are found apart, by
\* classify_layers and detect_ops; in an engine plan they agree: each layer
\* finds its kernels among those the plan requires, and every layer of a
\* model that is not purely recurrent has a core the manifest describes.  It is
\* asked of a directory without a plan, which the first ensure_plan introspects.
KernelsCoverLayers ==
  plan = NoFile /\ edits + calls = 0 =>
    \A c \in ModelConfigs, t \in RawTensors :
      LET engine == FromManifest(Introspect(c, t))
      IN  \A i \in DOMAIN engine.layers :
            /\ CoreKernels(engine.layers[i].core) \subseteq engine.required_kernels
            /\ MlpKernels(engine.layers[i].mlp) \subseteq engine.required_kernels
            /\ engine.layers[i].core = "Mamba2" => c.family = "mamba"

-----------------------------------------------------------------------------
(* Checkpoints.                                                            *)

Rows(shape, matrix) ==
  CASE matrix = "q_proj" -> shape.heads * shape.dim
    [] matrix \in {"k_proj", "v_proj"} -> shape.kv_heads * shape.dim
    [] matrix \in {"gate_proj", "up_proj"} -> shape.ff
    [] OTHER -> 2

\* A row carries where it comes from.
TrueRows(shape, layer, matrix, part) ==
  [i \in 1 .. Rows(shape, matrix) |-> <<layer, matrix, part, i>>]

FusedRows(shape, layer, matrix, part) ==
  LET true(m) == TrueRows(shape, layer, m, part)
  IN  CASE matrix = "qkv_proj" -> true("q_proj") \o true("k_proj") \o true("v_proj")
        [] matrix = "gate_up_proj" -> true("gate_proj") \o true("up_proj")
        [] OTHER -> true(matrix)

\* A projection is stored fused, apart, or both ways.
Layouts == {{"fused"}, {"apart"}, {"fused", "apart"}}

Matrices(qkv, gup) ==
  {"o_proj", "down_proj"}
    \cup (IF "fused" \in qkv THEN {"qkv_proj"} ELSE {})
    \cup (IF "apart" \in qkv THEN {"q_proj", "k_proj", "v_proj"} ELSE {})
    \cup (IF "fused" \in gup THEN {"gate_up_proj"} ELSE {})
    \cup (IF "apart" \in gup THEN {"gate_proj", "up_proj"} ELSE {})
Norms == {"input_layernorm", "post_attention_layernorm", "q_norm", "k_norm"}

CheckpointNames(shape, qkv, gup, head) ==
  LET layers == 0 .. shape.layers - 1
  IN  (layers \X Matrices(qkv, gup) \X Parts) \cup (layers \X Norms \X {"weight"})
        \cup Quantized(Global, "embed_tokens") \cup {<<Global, "norm", "weight">>}
        \cup (IF head THEN Quantized(Global, "lm_head") ELSE {})

Checkpoint(shape, names) ==
  [n \in names |-> [dtype |-> IF n[3] = "weight" THEN "U32" ELSE "BF16",
                    rows |-> FusedRows(shape, n[1], n[2], n[3])]]

\* The three readers of a layer's projections multiply with the rows meant.
RightLayer(shape, l, w) ==
  \A part \in Parts :
    LET true == [m \in {"q_proj", "k_proj", "v_proj", "gate_proj", "up_proj"} |->
                   TrueRows(shape, l, m, part)]
    IN  /\ StaticSplits(shape, w.qkv_proj[part], w.gate_up_proj[part]) = true
        /\ CompiledSplits(shape, w.qkv_proj[part], w.gate_up_proj[part]) = true

\* The head is the one stored, if it is whole, else the embedding.
RightHead(shape, whole, loaded) ==
  HeadUsed(loaded) = [part \in Parts |->
    TrueRows(shape, Global, IF whole THEN "lm_head" ELSE "embed_tokens", part)]

\* Whatever way a checkpoint stores its projections, it loads when it is whole,
\* and when it loads, whole or with one tensor lost, prefill and the eager step
\* on the one side and the compiled step on the other multiply with the same
\* rows, those of the matrix meant, and no matrix is put together of parts of
\* two: fused scales never go with separate weights, and a head that lost a part
\* gives way to the embedding as a whole.
LoadedAsStored ==
  plan = NoFile /\ edits + calls = 0 =>
    \A shape \in Shapes, qkv \in Layouts, gup \in Layouts, head \in BOOLEAN :
      LET names == CheckpointNames(shape, qkv, gup, head)
      IN  \A lost \in {{}} \cup {{n} : n \in names} :
            LET loaded == LoadWeights(shape, Checkpoint(shape, names \ lost))
            IN  /\ lost = {} => loaded # Failed
                /\ loaded # Failed =>
                     /\ RightHead(shape, head /\ lost \cap Quantized(Global, "lm_head") = {}, loaded)
                     /\ \A l \in 0 .. shape.layers - 1 : RightLayer(shape, l, loaded.layers[l])
=============================================================================
