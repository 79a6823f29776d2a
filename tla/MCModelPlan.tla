----------------------------- MODULE MCModelPlan -----------------------------
(***************************************************************************)
(* Load for TLC: all configs of up to five layers, and a few shapes, with  *)
(* and without grouped heads, the block of a head wider and narrower than  *)
(* the feed-forward.                                                       *)
(***************************************************************************)
EXTENDS Load

SmallConfigs == RawConfig(0 .. 5, {0, 1, 8}, {<<>>, <<0>>, <<4>>})

SmallShapes ==
  {[layers |-> 2, heads |-> 4, kv_heads |-> 2, dim |-> 1, ff |-> 3],
   [layers |-> 1, heads |-> 2, kv_heads |-> 1, dim |-> 2, ff |-> 1],
   [layers |-> 1, heads |-> 2, kv_heads |-> 2, dim |-> 1, ff |-> 2]}
=============================================================================
