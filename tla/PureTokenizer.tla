--------------------------- MODULE PureTokenizer ----------------------------
(***************************************************************************)
(* Tokenizer of crates/tokenizer/src/pure.rs: added tokens are cut out of  *)
(* the text, the rest is normalized, split into pretokens, and each of     *)
(* these encoded by the model through a cache that lives as long as the    *)
(* tokenizer.  The crates/serve wrapper runs encode and decode under a     *)
(* mutex, so a call is one step.                                           *)
(*                                                                         *)
(* A tokenizer is a record of what its tokenizer.json says: a model        *)
(* (TokenizerModels) and                                                   *)
(*   added         added tokens <<text, id>>                               *)
(*   normalizers, pretokenizers, decoders                                  *)
(*                 operations of TextPipeline                              *)
(*   stripSpace    the post-processor drops a leading space token          *)
(*   cacheMax      10 000 in the code                                      *)
(***************************************************************************)
EXTENDS TokenizerModels

CONSTANTS
  Toks,           \* tokenizers that may be loaded
  TextsOf(_),     \* texts a tokenizer is asked to encode
  Reversible      \* tokenizers whose decoders undo what they do to a text

\* The regular expressions of TextPipeline, and what an operation needs.
Regexes == Seq([lead : SUBSET Nat, of : SUBSET Nat, max : Nat])
Normalizes(n) ==
  /\ n.op = "Replace" => n.regex \in Regexes
  /\ n.op \in {"Replace", "Prepend"} => n.content \in Seq(Char)
Splits(p) ==
  /\ p.op \in {"Split", "Bert", "WhitespaceSplit", "ByteLevel", "Metaspace"}
  /\ p.op \in {"Split", "Bert"} => p.regex \in Regexes

ASSUME TokAssumption ==
  /\ Reversible \subseteq Toks
  /\ \A t \in Toks :
       /\ t.cacheMax \in Nat \ {0}
       /\ t.added \in Seq((Seq(Char) \ {<<>>}) \X Nat)
       /\ t.normalizers \in Seq({n \in ToSet(t.normalizers) : Normalizes(n)})
       /\ t.pretokenizers \in Seq({p \in ToSet(t.pretokenizers) : Splits(p)})
       /\ TextsOf(t) \subseteq Seq(Char)

VARIABLES
  tok,    \* the tokenizer loaded
  cache,  \* pretoken -> ids
  text,   \* the last text encoded
  ids     \* its ids

vars == <<tok, cache, text, ids>>

-----------------------------------------------------------------------------
(* Added tokens.                                                           *)

AddedAt(t, i) ==
  {k \in DOMAIN tok.added : IsPrefix(tok.added[k][1], SubSeq(t, i, Len(t)))}

\* Mutant: a match that ends where the text ends is not looked at.
LongestAddedInside(t, i) ==
  LET at == {k \in AddedAt(t, i) : i + Len(tok.added[k][1]) <= Len(t)}
  IN  IF at = {} THEN 0 ELSE CHOOSE k \in at : \A m \in at : k <= m

\* The longest added token at i, the first of several; 0 if there is none.
LongestAdded(t, i) ==
  LET at == AddedAt(t, i)
      size(k) == Len(tok.added[k][1])
  IN  IF at = {} THEN 0
      ELSE CHOOSE k \in at :
             \A m \in at : size(k) > size(m) \/ (size(k) = size(m) /\ k <= m)

Regular(t) == IF t = <<>> THEN <<>> ELSE <<[added |-> FALSE, text |-> t]>>
Added(k) == <<[added |-> TRUE, text |-> tok.added[k][1], id |-> tok.added[k][2]]>>

\* split_added: what is cut off at i is the text up to the next added token,
\* and that token.
Segments(t) ==
  LET longest == [i \in DOMAIN t |-> LongestAdded(t, i)]
      hits == {i \in DOMAIN t : longest[i] # 0}
      end == Len(t) + 1
      hit == [i \in DOMAIN t |-> FirstFrom(i, hits, end)]
      to == [i \in DOMAIN t |->
               IF hit[i] = end THEN end
               ELSE hit[i] + Len(tok.added[longest[hit[i]]][1])]
      cut == [i \in DOMAIN t |->
                Regular(SubSeq(t, i, hit[i] - 1))
                  \o IF hit[i] = end THEN <<>> ELSE Added(longest[hit[i]])]
  IN  IF hits = {} THEN <<[added |-> FALSE, text |-> t]>>
      ELSE CutUp(Len(t), cut, to)

-----------------------------------------------------------------------------
(* encode and decode.                                                      *)

\* A full cache is emptied before the next entry goes in.
Kept(entries) ==
  IF Cardinality(DOMAIN entries) >= tok.cacheMax THEN <<>> ELSE entries

\* The cache with one more entry.
Stored(entries, pretoken, new) ==
  [p \in DOMAIN Kept(entries) \cup {pretoken} |->
     IF p = pretoken THEN new ELSE entries[p]]

\* Mutant: the entry is made from all the ids of the call so far.
EncodePretokenAll(acc, pretoken) ==
  IF pretoken \in DOMAIN acc.cache
  THEN [ids |-> acc.ids \o acc.cache[pretoken], cache |-> acc.cache]
  ELSE LET all == acc.ids \o ModelEncode(tok, pretoken)
       IN  [ids |-> all, cache |-> Stored(acc.cache, pretoken, all)]

EncodePretoken(acc, pretoken) ==
  IF pretoken \in DOMAIN acc.cache
  THEN [ids |-> acc.ids \o acc.cache[pretoken], cache |-> acc.cache]
  ELSE LET new == ModelEncode(tok, pretoken)
       IN  [ids |-> acc.ids \o new, cache |-> Stored(acc.cache, pretoken, new)]

Pretokens(t) == Pretokenize(Normalize(t, tok.normalizers), tok.pretokenizers)

EncodeSegment(acc, seg) ==
  IF seg.added THEN [ids |-> Append(acc.ids, seg.id), cache |-> acc.cache]
  ELSE FoldLeft(EncodePretoken, acc, Pretokens(seg.text))

\* The post-processor knows the space token of BPE models only.
PostProcess(out) ==
  LET space == <<BytesToUnicode[Space]>>
  IN  IF /\ tok.stripSpace /\ tok.kind = "BPE" /\ Known(tok, space)
         /\ out # <<>> /\ out[1] = IdOf(tok, space)
      THEN Tail(out) ELSE out

\* The ids of a text and the cache left, from a cache before.
EncodeWith(entries, t) ==
  FoldLeft(EncodeSegment, [ids |-> <<>>, cache |-> entries], Segments(t))

Decode(out) ==
  LET decoders == IF tok.decoders = <<>> THEN <<[op |-> "ByteLevel"]>> ELSE tok.decoders
      isAdded(id) == \E k \in DOMAIN tok.added :
                       tok.added[k][2] = id /\ (Len(tok.added[k][1]) > 1 \/ tok.added[k][1][1] >= 128)
      token(id) == IF id < Len(tok.vocab) THEN <<tok.vocab[id + 1]>>
                   ELSE IF tok.byteFallback /\ ~isAdded(id) THEN << <<id>> >> ELSE <<>>
  IN  DecodeTokens(FlattenSeq([k \in DOMAIN out |-> token(out[k])]), decoders)

Init ==
  /\ tok \in Toks
  /\ cache = <<>>
  /\ text = <<>> /\ ids = <<>>

Encode(t) ==
  LET done == EncodeWith(cache, t)
  IN  /\ text' = t
      /\ ids' = PostProcess(done.ids)
      /\ cache' = done.cache
      /\ UNCHANGED tok

Next == \E t \in TextsOf(tok) : Encode(t)

Spec == Init /\ [][Next]_vars

-----------------------------------------------------------------------------
(* Properties.                                                             *)

\* The cache keeps to its limit, also over a call with more pretokens than it
\* holds, and does not show: what was encoded before makes no difference to an
\* encoding, whatever the cache was cleared of in the middle of a call.
AnswersAlike ==
  [][/\ Cardinality(DOMAIN cache') <= tok.cacheMax
     /\ ids' = PostProcess(EncodeWith(<<>>, text').ids)]_vars

\* Segments put the text together again, an added token is cut out wherever
\* one occurs, and of two that begin at one place the longer one.
SegmentsTile ==
  LET segs == Segments(text)
      at(k) == 1 + Len(FlattenSeq([m \in 1 .. k - 1 |-> segs[m].text]))
  IN  /\ FlattenSeq([k \in DOMAIN segs |-> segs[k].text]) = text
      /\ \A k \in DOMAIN segs :
           /\ ~segs[k].added =>
                \A i \in DOMAIN segs[k].text : AddedAt(segs[k].text, i) = {}
           /\ segs[k].added =>
                \A m \in AddedAt(text, at(k)) :
                  Len(tok.added[m][1]) <= Len(segs[k].text)

\* Every way to cut a word into pieces, as the set of places cut at.
Cuts(word) == SUBSET (1 .. Len(word) - 1)
PiecesOf(word, cut) ==
  LET ends == cut \cup {Len(word)}
      start(j) == CHOOSE i \in {0} \cup cut :
                    i < j /\ \A k \in cut : k < j => k <= i
  IN  [j \in ends |-> Piece(word, start(j), j)]

\* A word that can be put together from pieces is, and no other choice of
\* pieces has a higher score.
UnigramBest ==
  tok.kind = "Unigram" =>
    \A word \in ToSet(Pretokens(text)) : \A cut \in Cuts(word) :
      LET pieces == PiecesOf(word, cut)
          chosen == UnigramEncode(tok, word)
      IN  (\A j \in DOMAIN pieces : Known(tok, pieces[j])) =>
            /\ FlattenSeq([k \in DOMAIN chosen |-> tok.vocab[chosen[k] + 1]]) = word
            /\ FoldFunction(+, 0, [k \in DOMAIN chosen |-> tok.scores[chosen[k] + 1]])
                 >= FoldFunction(+, 0, [j \in DOMAIN pieces |-> tok.scores[IdOf(tok, pieces[j]) + 1]])

\* The pieces of a word put the word together again, up to the place where
\* the rest is unknown, and each is the longest there is.
WordPieceGreedy ==
  tok.kind = "WordPiece" =>
    \A word \in ToSet(Pretokens(text)) :
      LET pieces == SelectSeq(WordPieceEncode(tok, word), LAMBDA id : id # tok.unk)
          bare(k) == LET t == tok.vocab[pieces[k] + 1]
                     IN  IF k = 1 THEN t ELSE SubSeq(t, Len(Prefix) + 1, Len(t))
          spelt == FlattenSeq([k \in DOMAIN pieces |-> bare(k)])
      IN  /\ IsPrefix(spelt, word)
          /\ spelt # word => \A j \in Len(spelt) + 1 .. Len(word) :
                               ~Known(tok, WordPiece(word, Len(spelt) + 1, j))

\* Unigram and WordPiece choose the pieces their definitions ask for.
PiecesBest == UnigramBest /\ WordPieceGreedy

IsAscii(t) == \A k \in DOMAIN t : t[k] < 128
InVocab == \A k \in DOMAIN ids : ids[k] < Len(tok.vocab)

\* decode undoes encode on ASCII text, unless an added token in it has an id
\* past the vocabulary: decode leaves such tokens out.
AsciiRoundTrip ==
  tok \in Reversible /\ InVocab /\ IsAscii(text) => Decode(ids) = text

\* decode undoes encode.  It does not: bytes become characters one by one.
RoundTrip == tok \in Reversible /\ InVocab => Decode(ids) = text
=============================================================================
