--------------------------- MODULE Introspection ----------------------------
(***************************************************************************)
(* What crates/modelplan says about a model: introspect makes a manifest   *)
(* of config.json and the tensor names, and from_manifest an engine plan   *)
(* of the manifest.  Which operations a model requires and what kind each  *)
(* layer is are found by separate functions, each with cases of its own.   *)
(*                                                                         *)
(* Model types that are treated alike are one family; an absent number of  *)
(* experts is 0; window is <<>> or <<sliding_window>>; "mlx" stands for    *)
(* gptq and awq too, "unknown" for every other method.  Sizes, and the     *)
(* hints computed from them, are left out.                                 *)
(***************************************************************************)
EXTENDS Naturals, Sequences

Families == {"standard", "moe", "deepseek", "ornith", "lfm", "mamba"}

\* What parse_model_dir reads in config.json.
RawConfig(layers, experts, windows) ==
  [family : Families, layers : layers, experts : experts, linear : BOOLEAN,
   window : windows, method : {"none", "mlx", "mxfp4", "mxfp8", "unknown"},
   bits : {0, 4, 8}]

\* What the tensor names give away.
RawTensors == [gdn : BOOLEAN, mxfp4 : BOOLEAN]

-----------------------------------------------------------------------------
(* detect_ops.                                                             *)

\* Model types with experts ask for routing before the config is looked at.
BaseOps(family) ==
  {"rmsnorm", "residual_add", "embedding_lookup", "lm_head_matmul", "silu"}
    \cup (IF family = "mamba" THEN {"mamba2_scan", "conv1d"}
          ELSE {"rope", "flash_attn_decode", "swiglu"})
    \cup (IF family \in {"moe", "deepseek", "ornith", "lfm"} THEN {"moe_routing"} ELSE {})
    \cup (IF family = "ornith" THEN {"fused_gdn_step"} ELSE {})
    \cup (IF family \in {"ornith", "lfm"} THEN {"conv1d"} ELSE {})

QuantOps(c, t) ==
  (IF c.method = "mlx" /\ c.bits = 4 THEN {"quant_matmul_q4"} ELSE {})
    \cup (IF c.method = "mxfp4" \/ t.mxfp4 THEN {"quant_matmul_mxfp4"} ELSE {})
    \cup (IF c.method = "mxfp8" THEN {"quant_matmul_mxfp8"} ELSE {})

\* Mutant: routing is left to the model type.
DetectByType(c, t) ==
  BaseOps(c.family) \cup QuantOps(c, t)
    \cup (IF c.linear \/ t.gdn THEN {"fused_gdn_step", "conv1d"} ELSE {})

DetectOps(c, t) ==
  BaseOps(c.family) \cup QuantOps(c, t)
    \cup (IF c.experts > 0 THEN {"moe_routing"} ELSE {})
    \cup (IF c.linear \/ t.gdn THEN {"fused_gdn_step", "conv1d"} ELSE {})

\* In ornith two layers of attention alternate with two of gated delta net.
ClassifyLayers(c) ==
  LET all == IF c.layers = 0 THEN {} ELSE 0 .. c.layers - 1
      gdn == IF c.family = "ornith" THEN {i \in all : i % 4 >= 2} ELSE {}
  IN  [total |-> c.layers,
       attention |-> IF c.family = "mamba" THEN {} ELSE all \ gdn,
       gdn |-> gdn,
       moe |-> IF c.experts = 0 THEN {}
               ELSE IF c.family = "deepseek" THEN all \ {0} ELSE all]

-----------------------------------------------------------------------------
(* introspect and from_manifest.                                           *)

AttnType(c) ==
  IF c.linear \/ (c.window # <<>> /\ c.window[1] < c.layers) THEN "hybrid"
  ELSE IF c.window # <<>> THEN "sliding" ELSE "full"

QuantFormat(c) ==
  IF c.method \in {"none", "mxfp4", "mxfp8"} THEN c.method
  ELSE IF c.bits = 4 THEN "q4" ELSE IF c.bits = 8 THEN "q8" ELSE c.method

Introspect(c, t) ==
  LET ops == DetectOps(c, t)
  IN  [layers |-> ClassifyLayers(c),
       attention |-> IF ops \cap {"flash_attn_decode", "rope"} = {} THEN "none" ELSE AttnType(c),
       gdn |-> c.linear,
       moe |-> c.experts > 0,
       mlp |-> IF "swiglu" \in ops THEN "swiglu" ELSE IF "silu" \in ops THEN "silu" ELSE "gelu",
       quant |-> QuantFormat(c),
       ops |-> ops]

CoreOp(m, i) ==
  IF i \in m.layers.gdn THEN IF m.gdn THEN "GatedDeltaNet" ELSE "LinearAttention"
  ELSE IF i \in m.layers.attention THEN IF m.attention # "none" THEN "Attention" ELSE "LinearAttention"
  ELSE "Mamba2"

MlpOp(m, i) == IF i \in m.layers.moe /\ m.moe THEN "MoE" ELSE m.mlp

FromManifest(m) ==
  [layers |-> [i \in 1 .. m.layers.total |->
                 [core |-> CoreOp(m, i - 1), mlp |-> MlpOp(m, i - 1)]],
   required_kernels |-> m.ops]
=============================================================================
