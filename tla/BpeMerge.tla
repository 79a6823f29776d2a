------------------------------ MODULE BpeMerge ------------------------------
(***************************************************************************)
(* BpeData::bpe_merge of crates/tokenizer: the tokens of a word in an      *)
(* array, linked both ways, and a heap of candidate pairs.  Entries of the *)
(* heap are never removed when a merge outdates them: they are recognised  *)
(* when they are popped.                                                   *)
(***************************************************************************)
EXTENDS Integers, Sequences, FiniteSets, Bags

CONSTANTS
  MergeTables,  \* merge lists a model may have: sequences of pairs of tokens
  Words         \* pretokens: sequences of characters

VARIABLES
  merges,  \* the merge list of the model loaded
  word,    \* the pretoken
  cells,   \* tokens: index -> sequence of characters
  prev,    \* index -> index before it, -1 for none
  next,    \* index -> index after it, -1 for none
  heap,    \* bag of candidates <<rank, index of the left token>>
  done     \* the heap is empty and the tokens are looked up

vars == <<merges, word, cells, prev, next, heap, done>>

\* The tokens are numbered from 0, as in the code.
Indices == 0 .. Len(word) - 1

\* pair_ranks: a pair listed twice has its last rank; 0 stands for no rank.
Rank(a, b) ==
  LET at == {k \in DOMAIN merges : merges[k] = <<a, b>>}
  IN  IF at = {} THEN 0 ELSE CHOOSE k \in at : \A m \in at : m <= k

\* What is pushed for the pair of tokens a, b whose left one is at index i.
Candidate(a, b, i) ==
  IF Rank(a, b) = 0 THEN EmptyBag ELSE SetToBag({<<Rank(a, b), i>>})

Linked(n) == [i \in 0 .. n - 1 |-> IF i = n - 1 THEN -1 ELSE i + 1]

\* The arrays and the heap before the loop.
Init ==
  /\ merges \in MergeTables
  /\ word \in Words
  /\ cells = [i \in Indices |-> <<word[i + 1]>>]
  /\ prev = [i \in Indices |-> i - 1]
  /\ next = Linked(Len(word))
  /\ heap = SetToBag({<<Rank(cells[i], cells[i + 1]), i>> :
                        i \in {k \in 0 .. Len(word) - 2 :
                                 Rank(cells[k], cells[k + 1]) # 0}})
  /\ done = FALSE

-----------------------------------------------------------------------------
Smallest(c) ==
  /\ c \in DOMAIN heap
  /\ \A d \in DOMAIN heap : c[1] < d[1] \/ (c[1] = d[1] /\ c[2] <= d[2])

\* Mutant: a candidate counts as long as there is a token to its right.
CurrentIfLinked(c) == next[c[2]] >= 0

\* A popped candidate still stands: its token is linked to a right one, and
\* the two have the rank it was pushed with.
Current(c) ==
  /\ next[c[2]] >= 0
  /\ Rank(cells[c[2]], cells[next[c[2]]]) = c[1]

Skip ==
  /\ \E c \in DOMAIN heap :
       /\ Smallest(c) /\ ~Current(c)
       /\ heap' = heap (-) SetToBag({c})
  /\ UNCHANGED <<merges, word, cells, prev, next, done>>

Relinked(i, j) ==
  [k \in Indices |-> IF k = next[j] THEN i ELSE IF k = j THEN -1 ELSE prev[k]]

\* The heap after the pop of c and the merge into cell i.
Pushed(c, i, nj) ==
  (heap (-) SetToBag({c}))
    (+) (IF prev[i] >= 0 THEN Candidate(cells[prev[i]], cells'[i], prev[i])
                         ELSE EmptyBag)
    (+) (IF nj >= 0 THEN Candidate(cells'[i], cells[nj], i) ELSE EmptyBag)

Merge ==
  /\ \E c \in DOMAIN heap :
       LET i == c[2]
           j == next[i]
       IN  /\ Smallest(c) /\ Current(c)
           /\ cells' = [cells EXCEPT ![i] = @ \o cells[j]]
           /\ next' = [next EXCEPT ![i] = next[j], ![j] = -1]
           /\ prev' = Relinked(i, j)
           /\ heap' = Pushed(c, i, next[j])
  /\ UNCHANGED <<merges, word, done>>

\* The loop has ended; a word of one character, or none, never enters it.
Emit ==
  /\ heap = EmptyBag /\ ~done
  /\ done' = TRUE
  /\ UNCHANGED <<merges, word, cells, prev, next, heap>>

Next == Skip \/ Merge \/ Emit

Spec == Init /\ [][Next]_vars

-----------------------------------------------------------------------------
(* Properties.                                                             *)

\* The indices the result loop visits, from cell 0 along the links nx of n cells.
Visited(n, nx) ==
  LET from[i \in 0 .. n - 1] ==
        <<i>> \o (IF nx[i] > i THEN from[nx[i]] ELSE <<>>)
  IN  IF n = 0 THEN <<>> ELSE from[0]

Chain == Visited(Len(word), next)

Tokens == [k \in DOMAIN Chain |-> cells[Chain[k]]]

\* Heap, links and outdated candidates amount to the definition of BPE.
Definition == INSTANCE Bpe WITH tokens <- Tokens
ImplementsBpe == Definition!Spec
=============================================================================
