------------------------------ MODULE MCSpill -------------------------------
(* Models of five layers and two experts in one and two files.             *)
EXTENDS Spill

SomeParts == << <<Gate>>, <<"down_proj.biases", "down_proj.bias">> >>

\* Shapes and element types: packed weights, half-precision and one-byte
\* biases; and what the index misreads, bytes with a sign and a tensor of
\* three experts.
Packed == [dtype |-> "U32", shape |-> <<2, 1, 2>>]
Half   == [dtype |-> "BF16", shape |-> <<2, 2>>]
Byte   == [dtype |-> "U8", shape |-> <<2, 1, 3>>]
Vector == [dtype |-> "F16", shape |-> <<2>>]
Signed == [dtype |-> "I8", shape |-> <<2, 2>>]
Three  == [dtype |-> "U8", shape |-> <<3, 2>>]

Size(kind) == Product(kind.shape, 1) * Width(kind.dtype)

\* A file of tensors, a sequence of names and kinds, one after the other from
\* byte 8 on.
File(tensors) ==
  LET at[k \in 1 .. Len(tensors) + 1] == IF k = 1 THEN 8 ELSE at[k - 1] + Size(tensors[k - 1][2])
      place(n) == CHOOSE k \in DOMAIN tensors : tensors[k][1] = n
  IN  [tensors |-> [n \in {tensors[k][1] : k \in DOMAIN tensors} |->
         [at |-> at[place(n)], size |-> Size(tensors[place(n)][2])] @@ tensors[place(n)][2]]]

S(layer, part) == <<"switch_mlp", layer, part>>
E(layer, part) == <<"experts", layer, part>>

\* Experts in layers 0 and 4, in one file.
OneFile ==
  <<File(<< <<S(0, Gate), Packed>>, <<S(0, "down_proj.biases"), Half>>,
            <<S(4, "down_proj.biases"), Byte>>, <<S(4, Gate), Packed>> >>)>>

\* The same layers, the tensors of both spread over two files.
TwoFiles ==
  <<File(<< <<E(0, "down_proj.bias"), Byte>>, <<E(4, Gate), Packed>> >>),
    File(<< <<E(4, "down_proj.bias"), Vector>>, <<E(0, Gate), Packed>> >>)>>

\* Layer 0 has no experts.
DenseFirst == <<File(<< <<E(1, Gate), Packed>>, <<E(1, "down_proj.bias"), Half>> >>)>>
DenseFirstSwitch == <<File(<< <<S(1, Gate), Packed>>, <<S(1, "down_proj.biases"), Half>> >>)>>

\* The biases of layer 4 are missing.
Incomplete ==
  <<File(<< <<S(0, Gate), Packed>>, <<S(0, "down_proj.biases"), Half>>, <<S(4, Gate), Packed>> >>)>>

\* Experts in layer 1, misread for their first dimension and their type.
Misread == <<File(<< <<E(1, Gate), Three>>, <<E(1, "down_proj.bias"), Signed>> >>)>>

SomeFileSets == {OneFile, TwoFiles, DenseFirst, DenseFirstSwitch, Incomplete, Misread}
SomeSelections == {<<0>>, <<1>>, <<1, 0>>}
=============================================================================
