---------------------------- MODULE ExpertIndex -----------------------------
(***************************************************************************)
(* The index MmapExperts::open builds over the safetensors files of a      *)
(* model: for each layer with experts, for each expert, the byte ranges of *)
(* its slices of the stacked tensors.                                      *)
(*                                                                         *)
(* A file (shard) is a record [tensors]: tensors maps the name             *)
(* <<layout, layer, part>> to [at, size, dtype, shape], where the data of  *)
(* the tensor begins, its length in bytes, and what the header says it is. *)
(***************************************************************************)
EXTENDS Naturals, Sequences, FiniteSets, SequencesExt

CONSTANTS
  NumLayers,   \* num_hidden_layers
  NumExperts,  \* num_experts
  Parts        \* the parts of an expert, each a sequence of names to try

ASSUME IndexAssumption ==
  /\ NumLayers \in Nat \ {0} /\ NumExperts \in Nat \ {0}
  /\ Parts \in Seq(Seq(STRING)) /\ Parts # <<>>
  /\ \A p \in DOMAIN Parts : Parts[p] # <<>>

Gate == "gate_proj.weight"
Layers == 0 .. NumLayers - 1

Has(shard, layout, layer, part) == <<layout, layer, part>> \in DOMAIN shard.tensors

\* detect_expert_prefix: the layout of the first layer found in either; its
\* probes for layer 0 are the first round of the loop that follows them.
DetectLayout(shard) ==
  LET at == {i \in Layers : Has(shard, "switch_mlp", i, Gate) \/ Has(shard, "experts", i, Gate)}
  IN  IF at # {} /\ ~Has(shard, "switch_mlp", Min(at), Gate) THEN "experts"
      ELSE "switch_mlp"

\* The layout of the first shard whose layout holds for its layer 0.
Layout(shards) ==
  LET fits == SelectSeq(shards, LAMBDA s : Has(s, DetectLayout(s), 0, Gate))
  IN  IF fits = <<>> THEN "experts" ELSE DetectLayout(fits[1])

HasExperts(shards, layout, layer) ==
  \E s \in DOMAIN shards : Has(shards[s], layout, layer, Gate)

\* Where a tensor is: the first shard that has it, 0 if none does.
ShardOf(shards, name) ==
  LET at == {s \in DOMAIN shards : name \in DOMAIN shards[s].tensors}
  IN  IF at = {} THEN 0 ELSE CHOOSE s \in at : \A k \in at : s <= k

\* The names of a part are tried one after the other, each in all shards.
NameOf(shards, layout, layer, part) ==
  LET found == {k \in DOMAIN part : ShardOf(shards, <<layout, layer, part[k]>>) # 0}
  IN  <<layout, layer, part[IF found = {} THEN 1 ELSE Min(found)]>>

Complete(shards, layout, layer) ==
  \A p \in DOMAIN Parts :
    ShardOf(shards, NameOf(shards, layout, layer, Parts[p])) # 0

\* The product of the dimensions from the given one on.
Product(dims, first) ==
  LET product[k \in first - 1 .. Len(dims)] ==
        IF k = first - 1 THEN 1 ELSE product[k - 1] * dims[k]
  IN  product[Len(dims)]

\* shape[1..] of the code.
ElemsPerExpert(shape) == IF Len(shape) > 1 THEN Product(shape, 2) ELSE 1

\* Mutant: bytes fall under the default.
ElemSizeOfWords(dtype) == IF dtype \in {"F16", "BF16"} THEN 2 ELSE 4

\* F32, U32 and I32, and every type the match does not list.
ElemSize(dtype) ==
  IF dtype \in {"F16", "BF16"} THEN 2 ELSE IF dtype = "U8" THEN 1 ELSE 4

\* The first dimension is not looked at.
Slice(shards, name, expert) ==
  LET s == ShardOf(shards, name)
      t == shards[s].tensors[name]
      len == ElemsPerExpert(t.shape) * ElemSize(t.dtype)
  IN  [file |-> s, offset |-> t.at + expert * len, len |-> len]

\* The ranges of an expert, in the order all_ranges lists them.
ExpertOffset(shards, layout, layer, expert) ==
  [p \in DOMAIN Parts |->
     Slice(shards, NameOf(shards, layout, layer, Parts[p]), expert)]

\* A layer without experts has an empty entry.
BuildIndex(shards) ==
  LET layout == Layout(shards)
  IN  [layer \in Layers |->
         IF HasExperts(shards, layout, layer)
         THEN [e \in 1 .. NumExperts |-> ExpertOffset(shards, layout, layer, e - 1)]
         ELSE <<>>]

\* open fails on the first layer that lacks one of its tensors.
OpenSucceeds(shards) ==
  LET layout == Layout(shards)
  IN  \A layer \in Layers :
        HasExperts(shards, layout, layer) => Complete(shards, layout, layer)

\* What safetensors stores: its types of whole bytes, and the bytes of an
\* element of each.
DTypes == {"F64", "I64", "U64", "F32", "I32", "U32", "F16", "BF16", "I16", "U16", "U8", "I8", "BOOL"}

Width(dtype) ==
  IF dtype \in {"F64", "I64", "U64"} THEN 8
  ELSE IF dtype \in {"F32", "I32", "U32"} THEN 4
  ELSE IF dtype \in {"F16", "BF16", "I16", "U16"} THEN 2 ELSE 1

\* The parser refuses a file in which a length is not that of the shape.  A
\* stacked tensor has a first dimension.
Parsed(t) ==
  /\ t.at \in Nat /\ t.dtype \in DTypes
  /\ t.shape \in Seq(Nat) /\ t.shape # <<>>
  /\ t.size = Product(t.shape, 1) * Width(t.dtype)

\* The checkpoints the index is for: a tensor is in one file, and those of a
\* layer are of one layout and one for each part, under one of its names.
Wellformed(shards) ==
  /\ DOMAIN shards \subseteq Nat \ {0}
  /\ \A s \in DOMAIN shards : \A n \in DOMAIN shards[s].tensors :
       /\ n = <<n[1], n[2], n[3]>>
       /\ Parsed(shards[s].tensors[n])
       /\ \E p \in DOMAIN Parts : n[3] \in ToSet(Parts[p])
  /\ \A s, t \in DOMAIN shards :
       \A n \in DOMAIN shards[s].tensors, m \in DOMAIN shards[t].tensors :
         n[2] = m[2] =>
           /\ n[1] = m[1]
           /\ \A p \in DOMAIN Parts :
                n[3] \in ToSet(Parts[p]) /\ m[3] \in ToSet(Parts[p]) => n = m /\ s = t
=============================================================================
