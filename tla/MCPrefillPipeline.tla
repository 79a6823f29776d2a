------------------------- MODULE MCPrefillPipeline --------------------------
(***************************************************************************)
(* Small prompts for PrefillPipeline: a chain of prefixes of lengths 0 to  *)
(* 4, a prompt of length 7 that extends it, and one that shares nothing.   *)
(***************************************************************************)
EXTENDS PrefillPipeline

Chain == <<"a", "b", "a", "b", "b", "a", "a">>
SomePrompts == {SubSeq(Chain, 1, n) : n \in {0, 1, 2, 3, 7}} \cup {<<"b">>}
=============================================================================
