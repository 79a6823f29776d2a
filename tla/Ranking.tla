------------------------------- MODULE Ranking -------------------------------
(***************************************************************************)
(* Sorting by score, as crates/ops/src/moe.rs and serve/sampler.rs do it:  *)
(* a stable sort with the highest score first.  Scores are whole numbers.  *)
(***************************************************************************)
EXTENDS Naturals, Sequences, FiniteSets, SequencesExt

\* The places that come before place i.
Before(w, i) == {j \in DOMAIN w : w[j] > w[i] \/ (w[j] = w[i] /\ j < i)}

\* The places by falling score: r - 1 of them come before the r-th.
Ranked(w) ==
  [r \in DOMAIN w |-> CHOOSE i \in DOMAIN w : Cardinality(Before(w, i)) = r - 1]

Total(w) == FoldLeft(LAMBDA a, b : a + b, 0, w)

\* What the scores at the places S add up to.
TotalOver(w, S) == Total([i \in DOMAIN w |-> IF i \in S THEN w[i] ELSE 0])
=============================================================================
