---------------------------- MODULE TextPipeline ----------------------------
(***************************************************************************)
(* The stages a tokenizer.json configures around its model: normalizers,   *)
(* pre-tokenizers and decoders.  Each is a sequence of operations, records *)
(* with a field op, applied in order.  A text is a sequence of characters. *)
(*                                                                         *)
(* A regular expression is a sequence of alternatives: up to max           *)
(* characters of a set, after an optional one of another set, which is the *)
(* form of the expressions tokenizers use ( ?\w+, \s+, \p{N}{1,3}).        *)
(***************************************************************************)
EXTENDS ByteLevel, SequencesExt

White == {9, 10, 13, Space}

\* The elements of s at some of its places.
Picked(s, places) ==
  FlattenSeq([k \in DOMAIN s |-> IF k \in places THEN <<s[k]>> ELSE <<>>])

\* The first of the places from i on, else the end.
FirstFrom(i, places, end) == Min({k \in places : k >= i} \cup {end})

\* What is cut off a text of n characters from its first to its last: cut[i]
\* is a sequence of one or more parts cut off at i, to[i] where it goes on.
CutUp(n, cut, to) ==
  LET from[i \in 1 .. n + 1] ==
        IF i > n THEN <<>> ELSE cut[i] \o from[to[i]]
  IN  from[1]

-----------------------------------------------------------------------------
(* Regular expressions.                                                    *)

\* How many characters from i on are in the set, at most max.
RunLength(set, max, text, i) ==
  FirstFrom(i, {k \in DOMAIN text : text[k] \notin set} \cup {i + max},
            Len(text) + 1) - i

AltLength(alt, text, i) ==
  LET lead == IF text[i] \in alt.lead THEN 1 ELSE 0
      led  == RunLength(alt.of, alt.max, text, i + lead)
  IN  IF lead = 1 /\ led > 0 THEN 1 + led
      ELSE RunLength(alt.of, alt.max, text, i)

\* Length of the match at i: the first alternative that matches wins.
MatchLength(regex, text, i) ==
  LET lengths == [a \in DOMAIN regex |-> AltLength(regex[a], text, i)]
      matching == {a \in DOMAIN regex : lengths[a] > 0}
  IN  IF matching = {} THEN 0 ELSE lengths[Min(matching)]

\* The text cut into the matches of find_iter and the gaps between them.
Pieces(regex, text) ==
  LET match == [i \in DOMAIN text |-> MatchLength(regex, text, i)]
      hits == {i \in DOMAIN text : match[i] > 0}
      to == [i \in DOMAIN text |->
               IF i \in hits THEN i + match[i]
               ELSE FirstFrom(i, hits, Len(text) + 1)]
      piece == [i \in DOMAIN text |->
                  <<[hit |-> i \in hits, text |-> SubSeq(text, i, to[i] - 1)]>>]
  IN  CutUp(Len(text), piece, to)

Texts(pieces) == [k \in DOMAIN pieces |-> pieces[k].text]
Hits(pieces) == Picked(pieces, {k \in DOMAIN pieces : pieces[k].hit})
Gaps(pieces) == Picked(pieces, {k \in DOMAIN pieces : ~pieces[k].hit})

\* One regex that matches a single character, as a pattern string does.
Only(c) == <<[lead |-> {}, of |-> {c}, max |-> 1]>>

Substitute(regex, content, text) ==
  LET pieces == Pieces(regex, text)
  IN  FlattenSeq([k \in DOMAIN pieces |->
                    IF pieces[k].hit THEN content ELSE pieces[k].text])

-----------------------------------------------------------------------------
(* Normalizers.                                                            *)

Lowercase(text) ==
  [k \in DOMAIN text |-> IF text[k] \in 65 .. 90 THEN text[k] + 32 ELSE text[k]]

IsCjk(c) ==
  \/ c \in 19968 .. 40959 \/ c \in 13312 .. 19903 \/ c \in 63744 .. 64255
  \/ c \in 131072 .. 173791 \/ c \in 12352 .. 12543 \/ c \in 44032 .. 55215

WhiteRun == <<[lead |-> {}, of |-> White, max |-> 100]>>
SplitWhitespace(text) == Texts(Gaps(Pieces(WhiteRun, text)))

Joined(words, sep) ==
  FlattenSeq([k \in DOMAIN words |-> IF k = 1 THEN words[k] ELSE sep \o words[k]])

CleanText(text) ==
  LET clean == {k \in DOMAIN text : text[k] >= 32 \/ text[k] \in White}
  IN  Joined(SplitWhitespace(Picked(text, clean)), <<Space>>)

SpaceCjk(text) ==
  FlattenSeq([k \in DOMAIN text |-> IF IsCjk(text[k]) THEN <<Space, text[k], Space>>
                                    ELSE <<text[k]>>])

BertNormalize(text, lowercase) ==
  LET spaced == SpaceCjk(CleanText(text))
  IN  IF lowercase THEN Lowercase(spaced) ELSE spaced

NormalizeOp(text, n) ==
  CASE n.op = "Replace" -> Substitute(n.regex, n.content, text)
    [] n.op = "Prepend" -> n.content \o text
    [] n.op = "Lowercase" -> Lowercase(text)
    [] n.op = "BertNormalizer" -> BertNormalize(text, n.lowercase)
    [] OTHER -> text

Normalize(text, normalizers) == FoldLeft(NormalizeOp, text, normalizers)

-----------------------------------------------------------------------------
(* Pre-tokenizers: from a sequence of texts to a longer one.               *)

ByteEncode(text) ==
  FlattenSeq([k \in DOMAIN text |->
    LET bytes == Utf8(text[k])
    IN  [m \in DOMAIN bytes |-> BytesToUnicode[bytes[m]]]])

ToUnderline(text) ==
  [k \in DOMAIN text |-> IF text[k] = Space THEN Underline ELSE text[k]]

\* Mutant: what lies between the matches is dropped, as Bert splits.
SplitMatches(text, p) == Texts(Hits(Pieces(p.regex, text)))

\* merged_with_previous and merged_with_next are treated as isolated.
Split(text, p) ==
  LET pieces == Pieces(p.regex, text)
  IN  IF p.behavior = "removed" THEN <<FlattenSeq(Texts(Gaps(pieces)))>>
      ELSE Texts(pieces)

PretokenizeOne(text, p) ==
  CASE p.op = "Split" -> Split(text, p)
    [] p.op = "Bert" -> Texts(Hits(Pieces(p.regex, text)))
    [] p.op = "WhitespaceSplit" -> SplitWhitespace(text)
    [] p.op = "ByteLevel" -> <<ByteEncode(text)>>
    [] p.op = "Metaspace" ->
         <<ToUnderline(IF p.addPrefixSpace THEN <<Space>> \o text ELSE text)>>

PretokenizeOp(texts, p) ==
  FlattenSeq([k \in DOMAIN texts |-> PretokenizeOne(texts[k], p)])

Pretokenize(text, pretokenizers) ==
  LET texts == FoldLeft(PretokenizeOp, <<text>>, pretokenizers)
  IN  Picked(texts, {k \in DOMAIN texts : texts[k] # <<>>})

-----------------------------------------------------------------------------
(* Decoders: each token through every operation, then the tokens joined.   *)

\* The character of each byte, whatever character the bytes form together.
ByteDecode(token) ==
  LET known == Picked(token, {k \in DOMAIN token : token[k] \in DOMAIN UnicodeToBytes})
  IN  [k \in DOMAIN known |-> UnicodeToBytes[known[k]]]

FallbackDecode(token) ==
  IF \E b \in Byte : token = ByteToken(b)
  THEN <<CHOOSE b \in Byte : token = ByteToken(b)>> ELSE token

DecodeOp(token, d) ==
  CASE d.op = "ByteLevel" -> ByteDecode(token)
    [] d.op = "ByteFallback" -> FallbackDecode(token)
    [] d.op = "Replace" -> Substitute(d.regex, d.content, token)
    [] d.op = "Metaspace" -> Substitute(Only(Underline), <<Space>>, token)
    [] d.op = "WordPiece" -> IF IsPrefix(d.prefix, token)
                             THEN SubSeq(token, Len(d.prefix) + 1, Len(token))
                             ELSE token
    [] OTHER -> token

\* A WordPiece decoder puts a space before each token that starts a word.
Spaced(tokens, decoders, k) ==
  \E d \in ToSet(decoders) : /\ d.op = "WordPiece" /\ k > 1
                             /\ ~IsPrefix(d.prefix, tokens[k])

DropsFirstSpace(decoders) ==
  decoders # <<>> /\ decoders[1].op = "Metaspace" /\ decoders[1].addPrefixSpace

DecodeTokens(tokens, decoders) ==
  LET out == FlattenSeq([k \in DOMAIN tokens |->
               (IF Spaced(tokens, decoders, k) THEN <<Space>> ELSE <<>>)
                 \o FoldLeft(DecodeOp, tokens[k], decoders)])
  IN  IF DropsFirstSpace(decoders) /\ out # <<>> /\ out[1] = Space
      THEN Tail(out) ELSE out
=============================================================================
