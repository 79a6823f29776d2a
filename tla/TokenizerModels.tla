-------------------------- MODULE TokenizerModels ---------------------------
(***************************************************************************)
(* The three models of crates/tokenizer/src/pure.rs: byte pair encoding,   *)
(* WordPiece and Unigram.  Each turns one pretoken into ids and keeps      *)
(* nothing.  A model m is part of the record of a tokenizer:               *)
(*   kind          "BPE", "WordPiece" or "Unigram"                         *)
(*   vocab         sequence of tokens; the id of a token is its place,     *)
(*                 counted from 0                                          *)
(*   scores        integer log-probability of each token (Unigram)         *)
(*   merges        merge list (BPE)                                        *)
(*   byteFallback  BOOLEAN                                                 *)
(*   unk           id of the unknown token                                 *)
(***************************************************************************)
EXTENDS Integers, TextPipeline

Prefix == <<35, 35>>   \* continuing_subword_prefix, "##"
UnkPenalty == 1000     \* score of an unknown character, 10^6 in the code
MaxInputChars == 100   \* max_input_chars_per_word

Known(m, token) == \E k \in DOMAIN m.vocab : m.vocab[k] = token
IdOf(m, token) == (CHOOSE k \in DOMAIN m.vocab : m.vocab[k] = token) - 1

-----------------------------------------------------------------------------
(* Byte pair encoding.                                                     *)

IdOrZero(m, token) == IF Known(m, token) THEN IdOf(m, token) ELSE 0

LookupToken(m, token) ==
  LET bytes == FlattenSeq([k \in DOMAIN token |-> Utf8(token[k])])
  IN  IF Known(m, token) THEN <<IdOf(m, token)>>
      ELSE [k \in DOMAIN bytes |->
              IdOrZero(m, IF m.byteFallback THEN ByteToken(bytes[k])
                       ELSE <<BytesToUnicode[bytes[k]]>>)]

\* bpe_merge by what it computes (module BpeMerge shows that it does).
Definition(m, tokens) ==
  INSTANCE Bpe WITH MergeTables <- {}, Words <- {}, merges <- m.merges, done <- FALSE

BpeEncode(m, word) ==
  LET merged[tokens \in Seq(Seq(Nat))] ==
        IF Definition(m, tokens)!Mergeable = {} THEN tokens
        ELSE LET i == CHOOSE k \in DOMAIN tokens : Definition(m, tokens)!Best(k)
             IN  merged[SubSeq(tokens, 1, i - 1) \o <<tokens[i] \o tokens[i + 1]>>
                          \o SubSeq(tokens, i + 2, Len(tokens))]
      tokens == merged[[k \in DOMAIN word |-> <<word[k]>>]]
  IN  FlattenSeq([k \in DOMAIN tokens |-> LookupToken(m, tokens[k])])

-----------------------------------------------------------------------------
(* WordPiece.                                                              *)

\* The token for word[i .. j]: pieces after the first carry the prefix.
WordPiece(word, i, j) ==
  (IF i > 1 THEN Prefix ELSE <<>>) \o SubSeq(word, i, j)

\* End of the longest piece that starts at i, 0 if there is none.
LongestPiece(m, word, i) ==
  LET ends == {j \in i .. Len(word) : Known(m, WordPiece(word, i, j))}
  IN  IF ends = {} THEN 0 ELSE CHOOSE j \in ends : \A k \in ends : k <= j

WordPieceEncode(m, word) ==
  LET from[i \in 1 .. Len(word) + 1] ==
        LET j == LongestPiece(m, word, i)
        IN  IF i > Len(word) THEN <<>>
            ELSE IF j = 0 THEN <<m.unk>>
            ELSE <<IdOf(m, WordPiece(word, i, j))>> \o from[j + 1]
  IN  IF Len(word) > MaxInputChars THEN <<m.unk>> ELSE from[1]

-----------------------------------------------------------------------------
(* Unigram.                                                                *)

\* Edges of the Viterbi lattice into position j (characters 1 .. j are
\* done), one from each i: a piece of the vocabulary, or the unknown token
\* for one character where no piece begins.
Piece(word, i, j) == SubSeq(word, i + 1, j)
Begins(m, word, i) == \E j \in i + 1 .. Len(word) : Known(m, Piece(word, i, j))
Edges(m, word, j) ==
  {i \in 0 .. j - 1 : Known(m, Piece(word, i, j)) \/ (i = j - 1 /\ ~Begins(m, word, i))}
EdgeId(m, word, i, j) ==
  IF Known(m, Piece(word, i, j)) THEN IdOf(m, Piece(word, i, j)) ELSE m.unk
EdgeScore(m, word, i, j) ==
  IF Known(m, Piece(word, i, j)) THEN m.scores[EdgeId(m, word, i, j) + 1]
  ELSE -UnkPenalty

\* Mutant: the first path to reach a position is kept.
FirstEdge(totals) == CHOOSE i \in DOMAIN totals : \A k \in DOMAIN totals : i <= k

\* totals: score of the best path through each edge; the first best stays.
BestEdge(totals) ==
  CHOOSE i \in DOMAIN totals : \A k \in DOMAIN totals :
    totals[i] > totals[k] \/ (totals[i] = totals[k] /\ i <= k)

\* The best path into position j, from the best paths into those before.
PathInto(m, word, paths, j) ==
  LET into == {i \in Edges(m, word, j) : paths[i + 1].reached}
      totals == [i \in into |-> paths[i + 1].score + EdgeScore(m, word, i, j)]
      i == BestEdge(totals)
  IN  IF into = {} THEN [reached |-> FALSE, score |-> 0, ids |-> <<>>]
      ELSE [reached |-> TRUE, score |-> totals[i],
            ids |-> Append(paths[i + 1].ids, EdgeId(m, word, i, j))]

UnigramEncode(m, word) ==
  LET start == <<[reached |-> TRUE, score |-> 0, ids |-> <<>>]>>
      paths == FoldLeft(LAMBDA ps, j : Append(ps, PathInto(m, word, ps, j)), start,
                        [j \in DOMAIN word |-> j])
  IN  Last(paths).ids

-----------------------------------------------------------------------------
ModelEncode(m, pretoken) ==
  CASE m.kind = "BPE" -> BpeEncode(m, pretoken)
    [] m.kind = "WordPiece" -> WordPieceEncode(m, pretoken)
    [] m.kind = "Unigram" -> UnigramEncode(m, pretoken)
=============================================================================
