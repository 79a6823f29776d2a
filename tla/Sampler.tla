------------------------------- MODULE Sampler -------------------------------
(***************************************************************************)
(* sample_token of serve/sampler.rs for temperature > 0, over exact        *)
(* weights: w[i] stands for exp((logit[i] - max) / temperature), so that   *)
(* order and ties among weights are those of the logits.  top_p is in      *)
(* tenths, and a draw r of next_f32 is a number of 0 .. mass, mass being   *)
(* the 1.0 to which a draw may round.  The sums are exact: when those of   *)
(* the code fall short of 1 in f32, its first loop keeps every token and   *)
(* its last one may return a token of probability 0.                       *)
(***************************************************************************)
EXTENDS Ranking

\* Top-k: ids below the k-th largest weight get none.  Ties with it stay.
TopK(w, k) ==
  IF k > 0 /\ k < Len(w)
  THEN [i \in DOMAIN w |-> IF w[i] < w[Ranked(w)[k]] THEN 0 ELSE w[i]]
  ELSE w

\* Top-p: ids in order until their mass reaches top_p of all, at least one.
Nucleus(w, p) ==
  LET order == Ranked(w)
      Mass(n) == Total([m \in 1 .. n |-> w[order[m]]])
      Kept(n) == n = 1 \/ 10 * Mass(n - 1) < p * Total(w)
  IN  {order[n] : n \in {m \in DOMAIN w : Kept(m)}}

\* The weights that are left, to be normalized.
Filtered(w, p) == [i \in DOMAIN w |-> IF i \in Nucleus(w, p) THEN w[i] ELSE 0]

\* Mutant: the draw may equal the cumulative sum.
ReachedInclusive(w, r, i) == r <= Total(SubSeq(w, 1, i))

Reached(w, r, i) == r < Total(SubSeq(w, 1, i))

\* The first id whose cumulative sum exceeds the draw, else the last one kept.
Draw(w, kept, r) ==
  IF \E i \in DOMAIN w : Reached(w, r, i)
  THEN CHOOSE i \in DOMAIN w : /\ Reached(w, r, i)
                              /\ \A j \in 1 .. i - 1 : ~Reached(w, r, j)
  ELSE Max(kept)

SampleToken(w, k, p, r) ==
  LET top == TopK(w, k) IN Draw(Filtered(top, p), Nucleus(top, p), r)

-----------------------------------------------------------------------------
\* What top-k and top-p promise of id i: it may be drawn when fewer than k
\* weights exceed its own, and the ids before it in the order do not hold
\* top_p of the mass already.
InTop(w, k) ==
  {i \in DOMAIN w : k = 0 \/ Cardinality({j \in DOMAIN w : w[j] > w[i]}) < k}

Candidates(w, k, p) ==
  {i \in InTop(w, k) : Before(w, i) = {} \/ 10 * TotalOver(w, Before(w, i))
                                              < p * TotalOver(w, InTop(w, k))}

\* A candidate is drawn in proportion to its weight, by as many draws as it
\* has; nothing else is ever drawn, not even by a draw of 1.0.
DrawnInProportion(w, k, p) ==
  LET total == TotalOver(w, Candidates(w, k, p)) IN
  /\ \A i \in DOMAIN w :
       Cardinality({r \in 0 .. total - 1 : SampleToken(w, k, p, r) = i})
         = IF i \in Candidates(w, k, p) THEN w[i] ELSE 0
  /\ SampleToken(w, k, p, total) \in Candidates(w, k, p)
=============================================================================
