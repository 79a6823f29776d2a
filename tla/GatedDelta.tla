----------------------------- MODULE GatedDelta -----------------------------
(***************************************************************************)
(* gdn_forward of crates/ops: the recurrent layer that hybrid models have  *)
(* in place of attention.  It keeps a window of the last inputs of its     *)
(* convolution and a recurrent state of fixed size, and must give each     *)
(* token the same answer however the tokens are cut into calls.  Every MLX *)
(* call may return an error, with what was assigned before it in place.    *)
(*                                                                         *)
(* A token is its position, counted from 1; 0 is a row of zeros.  What the *)
(* recurrent state holds is the sequence of the updates it has absorbed.   *)
(* A caller feeds the positions in order; after an error it feeds the same *)
(* chunk, or another one, or resets the layer.                             *)
(***************************************************************************)
EXTENDS Naturals, Sequences, SequencesExt

CONSTANTS
  Kernel,                \* conv_kernel_size
  KeyHeads, ValueHeads,  \* num_key_heads and num_value_heads
  MaxTokens,             \* bound: tokens in one call, and in the state
  MaxFailures            \* bound: calls that fail half way between two resets

ASSUME GdnAssumption ==
  /\ Kernel \in Nat \ {0} /\ KeyHeads \in Nat \ {0} /\ ValueHeads \in Nat
  /\ ValueHeads >= KeyHeads
  /\ MaxTokens \in Nat /\ MaxFailures \in Nat

VARIABLES
  conv_buf,  \* rows kept for the convolution; None is <<>>
  h,         \* updates absorbed by the recurrent state; None is <<>>
  through,   \* tokens the caller has got through the layer
  answers,   \* what the last call returned; <<>> after an error
  failures,  \* history: calls that failed half way since the last reset
  since      \* history: tokens got through since the last of them, or since
             \* the reset

gdnVars == <<conv_buf, h, through, answers, failures, since>>

keep == Kernel - 1
Input(n) == [i \in 1 .. n |-> through + i]

-----------------------------------------------------------------------------
(* One call.                                                               *)

ConvInput(n) ==
  (IF conv_buf = <<>> THEN [i \in 1 .. keep |-> 0] ELSE conv_buf) \o Input(n)

\* Mutant: only rows of this call are kept, and zeros before them.
KeptOfCall(n) ==
  [i \in 1 .. keep |-> IF n + i > keep THEN through + n + i - keep ELSE 0]

\* Mutant: the window begins one row early.
KeptOneEarly(n) == SubSeq(ConvInput(n), n, n + keep - 1)

\* The last kernel - 1 rows, of this call and of those before it.
Kept(n) == SubSeq(ConvInput(n), n + 1, n + keep)

Conv1d(input, n) == [i \in 1 .. n |-> SubSeq(input, i, i + keep)]

\* tile over an axis put behind the heads, then reshape: each head is
\* repeated in place.
Tiled(heads, factor) ==
  [j \in 1 .. factor * Len(heads) |-> heads[((j - 1) \div factor) + 1]]

\* The key head of each value head, expanded once, before the scan; the step
\* is given value heads only and does not expand again.
Expanded ==
  LET heads == [j \in 1 .. KeyHeads |-> j]
      factor == ValueHeads \div KeyHeads
  IN  IF factor > 1 THEN Tiled(heads, factor) ELSE heads

\* A reshape to the value heads fails if they are not that many.
HeadsFit == Len(Expanded) = ValueHeads

\* What gdn_step and the Metal kernel write after the decay: the rows of q,
\* k and v, the token of the gates, the key head of each value head.
GdnStep(row, token) == [rows |-> row, gates |-> token, heads |-> Expanded]

\* The state after each token of the scan; y_t reads the state it wrote.
Scan(n) ==
  LET rows == Conv1d(ConvInput(n), n)
      steps == [t \in 1 .. n |-> GdnStep(rows[t], Input(n)[t])]
  IN  [t \in 1 .. n |-> h \o SubSeq(steps, 1, t)]

-----------------------------------------------------------------------------
GdnInit ==
  /\ conv_buf = <<>>
  /\ h = <<>>
  /\ through = 0
  /\ answers = <<>>
  /\ failures = 0
  /\ since = 0

Fits(n) == Len(h) + n <= MaxTokens

GdnForward(n) ==
  /\ Fits(n) /\ HeadsFit
  /\ conv_buf' = Kept(n)
  /\ h' = Last(Scan(n))
  /\ answers' = Scan(n)
  /\ through' = through + n
  /\ since' = since + n
  /\ UNCHANGED failures

\* An error before the projections, between the convolution buffer and the
\* end of the scan (the Metal kernel's too: it is not tried again without
\* it), or behind it, in the output projection.
GdnFails(n) ==
  /\ Fits(n)
  /\ \/ UNCHANGED <<conv_buf, h>>
     \/ conv_buf' = Kept(n) /\ UNCHANGED h
     \/ HeadsFit /\ conv_buf' = Kept(n) /\ h' = Last(Scan(n))
  /\ answers' = <<>>
  /\ IF conv_buf' = conv_buf /\ h' = h
     THEN UNCHANGED <<failures, since>>
     ELSE failures' = failures + 1 /\ since' = 0
  /\ failures' <= MaxFailures
  /\ UNCHANGED through

GdnReset ==
  /\ conv_buf' = <<>>
  /\ h' = <<>>
  /\ through' = 0
  /\ answers' = <<>>
  /\ failures' = 0
  /\ since' = 0

GdnNext ==
  \/ \E n \in 1 .. MaxTokens : GdnForward(n) \/ GdnFails(n)
  \/ GdnReset

GdnSpec == GdnInit /\ [][GdnNext]_gdnVars

-----------------------------------------------------------------------------
(* Properties.                                                             *)

\* Token p alone: its rows are the kernel's reach back from it, and value
\* head j belongs to the group of its key head.
Update(p) ==
  [rows |-> [i \in 1 .. Kernel |-> IF p + i > Kernel THEN p + i - Kernel ELSE 0],
   gates |-> p,
   heads |-> [j \in 1 .. ValueHeads |->
                CHOOSE g \in 1 .. KeyHeads :
                  /\ (g - 1) * ValueHeads < j * KeyHeads
                  /\ j * KeyHeads <= g * ValueHeads]]

\* However the tokens are cut into calls of any length, also shorter than
\* the kernel, each is answered from its own rows and the updates of exactly
\* the tokens up to it, unless a call failed half way since the last reset
\* (gdn_forward over prefill chunks and decode steps).
ChunksDontShow ==
  failures = 0 =>
    \A i \in DOMAIN answers :
      answers[i] = [p \in 1 .. through - Len(answers) + i |-> Update(p)]

\* A call that fails between the window and the state leaves the window ahead
\* of it, and one that fails behind the scan has absorbed tokens that the
\* caller feeds again.  Neither spreads: the tokens that get through
\* afterwards are absorbed once each and in order, and from the kernel's reach
\* behind the failure on each of them from its own rows, although nobody reset
\* the layer (conv_buf is cut to the last rows of this call and those before).
DamageEnds ==
  \A i \in 0 .. since - 1 :
    /\ h[Len(h) - i].gates = through - i
    /\ i < since - keep => h[Len(h) - i] = Update(through - i)
=============================================================================
