--------------------------- MODULE MCPureTokenizer --------------------------
(* Tokenizers of the five kinds the crate's table lists, with a handful of *)
(* tokens each.                                                            *)
EXTENDS PureTokenizer

A == 97
B == 98
Eacute == 233
Cjk == 19968

\* The GPT-2 expression, with letters, and anything else that is not white.
Letters == {A, B, 65, 66, Eacute}
Word == [lead |-> {Space}, of |-> Letters, max |-> 100]
Other == [lead |-> {Space}, of |-> {60, 62, 35, Cjk, Underline}, max |-> 100]
Blank == [lead |-> {}, of |-> White, max |-> 100]
Gpt2 == <<Word, Other, Blank>>
Bert == <<[Word EXCEPT !.lead = {}], [Other EXCEPT !.lead = {}]>>

Sp == <<288>>   \* the space of the byte table
U == <<Underline>>
Hi == <<60, 62>>  \* an added token, "<>"
His == <<60, 62, A>>

ByteTokens(bytes) == [k \in DOMAIN bytes |-> <<BytesToUnicode[bytes[k]]>>]

Base == [kind |-> "BPE", vocab |-> <<>>, scores |-> <<>>, merges |-> <<>>,
         byteFallback |-> FALSE, unk |-> 0, added |-> <<>>, normalizers |-> <<>>,
         pretokenizers |-> <<>>, decoders |-> <<>>, stripSpace |-> FALSE, cacheMax |-> 2]

\* Qwen, Llama, Mistral: byte level BPE; the long added token begins like
\* the short one, and one of them has an id past the vocabulary.
Qwen == [Base EXCEPT
  !.vocab = ByteTokens(<<60, 62, A, B, 32, 195, 169, 35>>)
              \o <<<<A, B>>, Sp \o <<A>>, Hi, His, Sp \o <<A, B>>>>,
  !.merges = << <<Sp, <<A>>>>, <<<<A>>, <<B>>>>, <<Sp \o <<A>>, <<B>>>> >>,
  !.added = << <<His, 11>>, <<Hi, 10>> >>,
  !.pretokenizers = <<[op |-> "Split", regex |-> Gpt2, behavior |-> "isolated"],
                      [op |-> "ByteLevel"]>>]

\* The same with the post-processor that strips a leading space token.
Roberta == [Qwen EXCEPT !.stripSpace = TRUE, !.added = <<>>, !.cacheMax = 1]

\* Gemma: spaces replaced, unknown characters as <0xXX>.
Gemma == [Base EXCEPT
  !.vocab = <<<<A>>, <<B>>, U, U \o <<A>>, <<A, B>>, ByteToken(195), ByteToken(169),
              ByteToken(60), ByteToken(62), ByteToken(35)>>,
  !.merges = << <<U, <<A>>>>, <<<<A>>, <<B>>>> >>,
  !.byteFallback = TRUE,
  !.added = << <<His, 12>> >>,
  !.normalizers = <<[op |-> "Replace", regex |-> Only(Space), content |-> U]>>,
  !.pretokenizers = <<[op |-> "Split", regex |-> Only(Space), behavior |-> "merged"]>>,
  !.decoders = <<[op |-> "Replace", regex |-> Only(Underline), content |-> <<Space>>],
                 [op |-> "ByteFallback"], [op |-> "Fuse"]>>]

\* MiniLM: lowercased words, pieces after the first with ##.
MiniLM == [Base EXCEPT
  !.kind = "WordPiece",
  !.vocab = <<<<91, 85, 93>>, <<A>>, <<A, B>>, Prefix \o <<A>>, Prefix \o <<B, B>>,
              <<60>>, <<Cjk>>, Prefix \o <<A, B>>>>,
  !.normalizers = <<[op |-> "BertNormalizer", lowercase |-> TRUE]>>,
  !.pretokenizers = <<[op |-> "Bert", regex |-> Bert]>>,
  !.decoders = <<[op |-> "WordPiece", prefix |-> Prefix]>>,
  !.cacheMax = 1]

\* T5: words marked with U+2581, pieces with scores; greedy choice of the
\* first or of the longest piece is not the best one.
T5 == [Base EXCEPT
  !.kind = "Unigram",
  !.vocab = <<<<60, 117>>, U, <<A>>, <<B>>, U \o <<A>>, <<A, B>>, <<B, A>>, <<A, B, A>>>>,
  !.scores = <<0, -3, -4, -5, -5, -6, -2, -9>>,
  !.pretokenizers = <<[op |-> "WhitespaceSplit"],
                      [op |-> "Metaspace", addPrefixSpace |-> TRUE]>>,
  !.decoders = <<[op |-> "Metaspace", addPrefixSpace |-> TRUE]>>,
  !.cacheMax = 1]

\* A Unigram model without pre-tokenizers.
Plain == [T5 EXCEPT !.pretokenizers = <<>>]

SomeToks == {Qwen, Roberta, Gemma, MiniLM, T5, Plain}
SomeReversible == {Qwen, Gemma}

Strings(chars, n) == UNION {[1 .. k -> chars] : k \in 0 .. n}

\* Texts with up to five words, more than the cache has room for.
Long == {<<A, Space, B, Space, A, B, Space, A, A>>,
         <<B, B>> \o Hi \o <<A, Space, A>> \o Hi \o <<Space, B>>,
         Hi \o <<Space>> \o Hi, His \o His, <<A>> \o Hi}

SomeTextsOf(t) ==
  CASE t = Qwen -> Strings({A, Space}, 3) \cup Long \cup {<<A, Eacute>>, <<60, A>>}
    [] t = Roberta -> Strings({A, B, Space}, 3) \cup {<<66>>}
    [] t = Gemma -> Strings({A, Space}, 3) \cup Long \cup {<<Eacute, B>>}
    [] t = MiniLM -> Strings({A, 66, Space}, 3) \cup {<<A, 66, B, A, 66, B>>} \cup {<<A, Cjk, B, 7>>, <<60, A>>}
    [] t \in {T5, Plain} -> Strings({A, B}, 4) \cup Strings({A, B, Space}, 2)
                            \cup {<<A, Eacute, B>>, <<A, B, Space, A>>, <<Space, B, A>>}
=============================================================================
