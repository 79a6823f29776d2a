------------------------------- MODULE Decoder -------------------------------
(***************************************************************************)
(* What the engine promises for one request at a time: the i-th token it   *)
(* appends to its answer is the model's continuation of exactly the        *)
(* prompt followed by the i-1 tokens before it.                            *)
(*                                                                         *)
(* A token is named by the length of the prefix it was computed from, so   *)
(* "the model's continuation of the first n tokens" is the number n.  The  *)
(* caches, masks, closures and fallbacks that compute it are not visible   *)
(* here; EngineDecode is the detailed specification.                       *)
(***************************************************************************)
EXTENDS Naturals, Sequences

CONSTANTS
  PromptLens,  \* lengths a tokenized prompt may have
  MaxTokens    \* values a caller may give for max_tokens

VARIABLES
  busy,   \* a request is being served
  plen,   \* its prompt length
  limit,  \* its max_tokens
  out,    \* the tokens generated so far, each named by its prefix length
  reply   \* how the last request was answered

dvars == <<busy, plen, limit, out, reply>>

Replies == {"none", "text", "echo", "error"}

Init ==
  /\ busy = FALSE
  /\ plen = 0
  /\ limit = 0
  /\ out = <<>>
  /\ reply = "none"

Request(p, m) ==
  /\ ~busy /\ p > 0 /\ m > 0
  /\ busy' = TRUE
  /\ plen' = p
  /\ limit' = m
  /\ out' = <<>>
  /\ reply' = "none"

Reject(p, m) ==
  /\ ~busy
  /\ p = 0 \/ m = 0
  /\ reply' = "error"
  /\ UNCHANGED <<busy, plen, limit, out>>

Emit ==
  /\ busy
  /\ Len(out) < limit
  /\ out' = Append(out, plen + Len(out))
  /\ UNCHANGED <<busy, plen, limit, reply>>

Answer ==
  /\ busy
  /\ out # <<>>
  /\ busy' = FALSE
  /\ reply' = "text"
  /\ UNCHANGED <<plen, limit, out>>

\* The engine could not serve the request; what it generated is dropped.
GiveUp(r) ==
  /\ busy
  /\ busy' = FALSE
  /\ out' = <<>>
  /\ reply' = r
  /\ UNCHANGED <<plen, limit>>

Next ==
  \/ \E p \in PromptLens, m \in MaxTokens : Request(p, m) \/ Reject(p, m)
  \/ Emit
  \/ Answer
  \/ \E r \in {"echo", "error"} : GiveUp(r)

Spec == Init /\ [][Next]_dvars
=============================================================================
