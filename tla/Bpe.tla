-------------------------------- MODULE Bpe ---------------------------------
(***************************************************************************)
(* Byte pair encoding as it is defined: while some two neighbouring tokens *)
(* are a merge of the table, the leftmost pair of the lowest rank becomes  *)
(* one token.                                                              *)
(***************************************************************************)
EXTENDS Naturals, Sequences, FiniteSets

CONSTANTS
  MergeTables,  \* merge lists a model may have: sequences of pairs of tokens
  Words         \* pretokens: sequences of characters

VARIABLES
  merges,  \* the merge list of the model loaded
  tokens,  \* the word, cut into tokens; a token is a sequence of characters
  done     \* nothing is left to merge

bvars == <<merges, tokens, done>>

\* The rank of a pair is its last place in the list, 0 if it is not there.
Rank(table, a, b) ==
  LET at == {k \in DOMAIN table : table[k] = <<a, b>>}
  IN  IF at = {} THEN 0 ELSE CHOOSE k \in at : \A m \in at : m <= k

RankAt(i) == Rank(merges, tokens[i], tokens[i + 1])

Mergeable == {i \in 1 .. Len(tokens) - 1 : RankAt(i) # 0}

Best(i) ==
  /\ i \in Mergeable
  /\ \A k \in Mergeable :
       RankAt(i) < RankAt(k) \/ (RankAt(i) = RankAt(k) /\ i <= k)

Init ==
  /\ merges \in MergeTables
  /\ \E w \in Words : tokens = [i \in DOMAIN w |-> <<w[i]>>]
  /\ done = FALSE

Merge ==
  /\ ~done
  /\ \E i \in Mergeable :
       /\ Best(i)
       /\ tokens' = SubSeq(tokens, 1, i - 1) \o <<tokens[i] \o tokens[i + 1]>>
                      \o SubSeq(tokens, i + 2, Len(tokens))
  /\ UNCHANGED <<merges, done>>

Finish ==
  /\ ~done /\ Mergeable = {}
  /\ done' = TRUE
  /\ UNCHANGED <<merges, tokens>>

Next == Merge \/ Finish

Spec == Init /\ [][Next]_bvars
=============================================================================
