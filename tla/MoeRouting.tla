----------------------------- MODULE MoeRouting -----------------------------
(***************************************************************************)
(* moe_forward and moe_forward_batch of crates/ops: which experts a token  *)
(* is sent to, and with what weights.  The gate probabilities of a token   *)
(* are whole numbers; an expert's output is the expert and the token it    *)
(* was applied to, a weight is a fraction <<n, d>>.  Experts are counted   *)
(* from 0.                                                                 *)
(***************************************************************************)
EXTENDS Ranking

\* take(k) takes what there is; weights that sum to 0 stay as they are.
TopkCpu(scores, k, normalize) ==
  LET order == Ranked(scores)
      top == SubSeq(order, 1, IF k < Len(order) THEN k ELSE Len(order))
      sum == Total([r \in DOMAIN top |-> scores[top[r]]])
  IN  [r \in DOMAIN top |->
         [index |-> top[r] - 1,
          weight |-> <<scores[top[r]], IF normalize /\ sum > 0 THEN sum ELSE 1>>]]

\* The rows of x are read back as one sequence of scores; every expert of the
\* ranking is applied to the whole of x.  With one row that is the routing
\* of a token; with more, an index may be no expert at all.
MoeForward(x, probs, k, normalize) ==
  LET flat == FlattenSeq([t \in DOMAIN x |-> probs[x[t]]])
      top == TopkCpu(flat, k, normalize)
  IN  [t \in DOMAIN x |->
         {[expert |-> top[r].index, of |-> x[t], weight |-> top[r].weight] :
            r \in DOMAIN top}]

\* Mutant: the rows are not cut apart before they are routed.
MoeForwardAll(x, probs, k, normalize) == MoeForward(x, probs, k, normalize)

MoeForwardBatch(x, probs, k, normalize) ==
  FlattenSeq([t \in DOMAIN x |-> MoeForward(<<x[t]>>, probs, k, normalize)])

-----------------------------------------------------------------------------
\* The experts a token goes to: fewer than k are better than each of them,
\* or as good and of a smaller number.
Best(scores, k) ==
  {e \in DOMAIN scores : Cardinality(Before(scores, e)) < k}

\* Every token of a batch is sent to its own best experts, whatever the other
\* tokens are; the weights are their probabilities, and with normalization
\* they have one denominator, their sum.
RoutedApart(probs, k, normalize) ==
  LET x == [t \in DOMAIN probs |-> t]
      out == MoeForwardBatch(x, probs, k, normalize)
      Score(e, t) == probs[t][e + 1]
  IN  /\ DOMAIN out = DOMAIN x
      /\ \A t \in DOMAIN x :
           /\ {o.expert + 1 : o \in out[t]} = Best(probs[t], k)
           /\ \A o \in out[t] :
                /\ o.of = t /\ o.weight[1] = Score(o.expert, t)
                /\ o.weight[2] =
                     LET sum == TotalOver(probs[t], Best(probs[t], k))
                     IN  IF normalize /\ sum > 0 THEN sum ELSE 1
=============================================================================
