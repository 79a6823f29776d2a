------------------------------ MODULE MCLayers ------------------------------
(***************************************************************************)
(* The layers of the model library for TLC: attention over its caches, the *)
(* gated delta layer, and the two places where scores decide, the routing  *)
(* to experts and the sampling of a token.  Nothing is shared between two  *)
(* layers, so interleaving them would show nothing more: each of the two   *)
(* with a state moves while the other is in its initial one.               *)
(***************************************************************************)
EXTENDS AttentionCache, GatedDelta, MoeRouting, Sampler

CONSTANTS
  Experts, Scores,  \* number of experts, gate scores
  Vocab, Weights    \* size of the vocabulary, weights of its tokens

\* A probability is never negative; exp, taken exactly, is never 0.
ASSUME ScoresAssumption ==
  /\ Experts \in Nat \ {0} /\ Scores \subseteq Nat
  /\ Vocab \in Nat \ {0} /\ Weights \subseteq Nat \ {0}

layerVars == <<vars, gdnVars>>

LayersInit == Init /\ GdnInit

LayersNext ==
  \/ conv_buf = <<>> /\ Next /\ UNCHANGED gdnVars
  \/ cache = Empty /\ seen = <<>> /\ GdnNext /\ UNCHANGED vars

LayersSpec == LayersInit /\ [][LayersNext]_layerVars

-----------------------------------------------------------------------------
(* Properties of functions, looked at once: before the first call.         *)

Unused == cache = Empty /\ fed = 0 /\ conv_buf = <<>> /\ kind = "concat"

\* Every token of a batch of one or two is sent to its own best experts, with
\* its own probabilities for weights (moe.rs moe_forward_batch).
RoutedRight ==
  Unused =>
    \A n \in 1 .. 2 : \A probs \in [1 .. n -> [1 .. Experts -> Scores]] :
      \A k \in 1 .. Experts + 1, normalize \in BOOLEAN :
        RoutedApart(probs, k, normalize)

\* For every distribution over a small vocabulary, every top_k and top_p, the
\* sampler draws exactly the tokens these leave, each in proportion to its
\* probability (sampler.rs sample_token).
SampledFairly ==
  Unused =>
    \A w \in [1 .. Vocab -> Weights], k \in 0 .. Vocab + 1, p \in 0 .. 10 :
      DrawnInProportion(w, k, p)
=============================================================================
