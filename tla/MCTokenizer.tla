---------------------------- MODULE MCTokenizer -----------------------------
(***************************************************************************)
(* The two halves of the tokenizer in one model: what encode does around   *)
(* the merging of a word, where PureTokenizer takes the result of merging  *)
(* from its definition (Bpe), and the loop that computes it (BpeMerge).    *)
(* The mutex of serve/tokenizer.rs and the call of one by the other leave  *)
(* them nothing to interleave, so a behaviour is about one of the two.     *)
(***************************************************************************)
EXTENDS MCPureTokenizer

VARIABLES
  subject,                                      \* "encode" or "merge"
  merges, word, cells, prev, next, heap, done   \* of BpeMerge

mergeVars == <<merges, word, cells, prev, next, heap, done>>

\* Two letters, words of up to five of them, and every list of three different
\* merges of a few pairs: lists in which a token merged late has a pair of low
\* rank are among them.
MaxLen == 5
a == <<"a">>
b == <<"b">>
Pairs == {<<a, b>>, <<b, a>>, <<a, a>>, <<a \o b, a>>, <<a, a \o b>>, <<a \o a, b>>}
SomeTables == {t \in [1 .. 3 -> Pairs] : \A i, j \in 1 .. 3 : t[i] = t[j] => i = j}
SomeTable == << <<a, b>>, <<b, a>>, <<a, a>> >>
SomeWords == UNION {[1 .. n -> {"a", "b"}] : n \in 0 .. MaxLen}

Loop == INSTANCE BpeMerge WITH MergeTables <- SomeTables, Words <- SomeWords

BothInit ==
  /\ Init /\ Loop!Init
  /\ \/ subject = "encode" /\ word = <<>> /\ merges = SomeTable
     \/ subject = "merge" /\ tok = Qwen

\* A client encodes a text.
EncodeStep ==
  /\ subject = "encode"
  /\ Next
  /\ UNCHANGED <<subject, mergeVars>>

\* The loop over one word.
MergeStep ==
  /\ subject = "merge"
  /\ Loop!Next
  /\ UNCHANGED <<subject, vars>>

BothNext == EncodeStep \/ MergeStep

\* The loop is sequential code; nothing obliges a client to encode.
BothSpec ==
  BothInit /\ [][BothNext]_<<subject, vars, mergeVars>> /\ WF_mergeVars(MergeStep)

-----------------------------------------------------------------------------
(* Properties.                                                             *)

\* bpe_merge ends, and with its heap of outdated candidates and its linked
\* cells it has computed byte pair encoding as it is defined.
MergesAsDefined ==
  Loop!ImplementsBpe /\ <>(subject = "merge" => done)
=============================================================================
