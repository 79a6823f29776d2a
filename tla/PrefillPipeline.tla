-------------------------- MODULE PrefillPipeline ---------------------------
(***************************************************************************)
(* The prefill pipeline of crates/prefill: a prefix cache with timestamps  *)
(* for LRU eviction, a prompt cut into chunks for the forward function,    *)
(* and the store of the whole prompt under a fresh state id.               *)
(*                                                                         *)
(* A key is the SHA-1 of a token sequence; here it is the sequence itself. *)
(***************************************************************************)
EXTENDS Naturals, Sequences, FiniteSets

CONSTANTS
  Tokens,
  Prompts,     \* token sequences a caller may pass
  MaxEntries,  \* prefix_cache_max_entries
  ChunkSize,   \* chunk_size
  SystemLen,   \* the last checkpoint of lookup, 256 in the code
  MaxOps       \* bound: operations between two resets

ASSUME PipelineAssumption ==
  /\ Prompts \subseteq Seq(Tokens)
  /\ MaxEntries \in Nat
  /\ ChunkSize \in Nat \ {0}
  /\ SystemLen \in Nat

VARIABLES
  entries,         \* key -> [state_id, last_access]; token_count is its length
  access_counter,
  state_counter,
  fed,             \* chunks the last run fed to forward_fn: <<first, last>>
  result           \* the last run: prompt, cached tokens, how it ended

vars == <<entries, access_counter, state_counter, fed, result>>

Prefix(tokens, n) == SubSeq(tokens, 1, n)

Lesser(a, b) == IF a < b THEN a ELSE b

\* Lengths lookup tries, in this order.
Checkpoints(n) == <<n, (n * 3) \div 4, n \div 2, n \div 4, Lesser(SystemLen, n)>>

\* The indices of the checkpoints at which tokens has a cached prefix.
HitsAt(tokens) ==
  LET cp == Checkpoints(Len(tokens))
  IN  {i \in DOMAIN cp : cp[i] # 0 /\ Prefix(tokens, cp[i]) \in DOMAIN entries}

\* The prefix lookup returns, <<>> for none.
Hit(tokens) ==
  IF HitsAt(tokens) = {} THEN <<>>
  ELSE LET first == CHOOSE i \in HitsAt(tokens) : \A j \in HitsAt(tokens) : i <= j
       IN  Prefix(tokens, Checkpoints(Len(tokens))[first])

Init ==
  /\ entries = [k \in {} |-> [state_id |-> 0, last_access |-> 0]]
  /\ access_counter = 0
  /\ state_counter = 0
  /\ fed = <<>>
  /\ result = [prompt |-> <<>>, cached |-> 0, ended |-> "none"]

-----------------------------------------------------------------------------
(* The cache after a lookup at time t, and after a store.                  *)

\* Mutant: a hit does not count as a use.
LookedUpUntouched(es, key, t) == es

LookedUp(es, key, t) ==
  IF key = <<>> THEN es ELSE [es EXCEPT ![key].last_access = t]

\* At capacity the entry used longest ago goes, if there is one.
Evicted(es) ==
  IF Cardinality(DOMAIN es) >= MaxEntries /\ DOMAIN es # {}
  THEN LET lru == CHOOSE k \in DOMAIN es :
                    \A q \in DOMAIN es : es[k].last_access <= es[q].last_access
       IN  [k \in DOMAIN es \ {lru} |-> es[k]]
  ELSE es

Stored(es, key, id, t) ==
  LET kept == Evicted(es)
  IN  [k \in DOMAIN kept \cup {key} |->
         IF k = key THEN [state_id |-> id, last_access |-> t] ELSE kept[k]]

\* Mutant: the last, shorter chunk is dropped.
ChunksExact(from, to) ==
  [i \in 1 .. (to - from) \div ChunkSize |->
     <<from + (i - 1) * ChunkSize + 1, Lesser(from + i * ChunkSize, to)>>]

\* make_chunks: positions from+1 .. to, in pieces of ChunkSize.
Chunks(from, to) ==
  [i \in 1 .. (to - from + ChunkSize - 1) \div ChunkSize |->
     <<from + (i - 1) * ChunkSize + 1, Lesser(from + i * ChunkSize, to)>>]

StoredKey(tokens, hit) == tokens

-----------------------------------------------------------------------------
\* run: the cache is consulted if it is enabled, and filled in any case.
Run(tokens, enabled) ==
  LET hit == IF enabled THEN Hit(tokens) ELSE <<>>
      now == access_counter + (IF enabled THEN 1 ELSE 0)
  IN  /\ access_counter < MaxOps
      /\ access_counter' = now + 1
      /\ state_counter' = state_counter + 1
      /\ entries' = Stored(IF enabled THEN LookedUp(entries, hit, now) ELSE entries,
                           StoredKey(tokens, hit), state_counter', access_counter')
      /\ fed' = Chunks(Len(hit), Len(tokens))
      /\ result' = [prompt |-> tokens, cached |-> Len(hit), ended |-> "ok"]

\* forward_fn fails on some chunk: nothing is stored, the hit stays touched.
RunFails(tokens, enabled) ==
  LET hit == IF enabled THEN Hit(tokens) ELSE <<>>
      chunks == Chunks(Len(hit), Len(tokens))
  IN  /\ access_counter < MaxOps
      /\ \E n \in 1 .. Len(chunks) : fed' = SubSeq(chunks, 1, n)
      /\ IF enabled
         THEN /\ access_counter' = access_counter + 1
              /\ entries' = LookedUp(entries, hit, access_counter')
         ELSE UNCHANGED <<access_counter, entries>>
      /\ result' = [prompt |-> tokens, cached |-> Len(hit), ended |-> "error"]
      /\ UNCHANGED state_counter

\* Mutant: reset rewinds the counter but keeps the cache.
ResetKeepsEntries ==
  /\ state_counter' = 0
  /\ UNCHANGED <<entries, access_counter, fed, result>>

Reset ==
  /\ entries' = [k \in {} |-> [state_id |-> 0, last_access |-> 0]]
  /\ access_counter' = 0
  /\ state_counter' = 0
  /\ UNCHANGED <<fed, result>>

Next ==
  \/ \E tokens \in Prompts, enabled \in BOOLEAN :
       Run(tokens, enabled) \/ RunFails(tokens, enabled)
  \/ Reset

Spec == Init /\ [][Next]_vars

-----------------------------------------------------------------------------
(* Properties.                                                             *)

\* A run that succeeds feeds every token after the cached prefix to
\* forward_fn exactly once and in order, in chunks of 1 to ChunkSize tokens
\* of which each begins where the one before ended; one that fails has fed a
\* prefix of them.
EveryTokenFedOnce ==
  LET FedBefore(i) == IF i = 1 THEN result.cached ELSE fed[i - 1][2]
      last == FedBefore(Len(fed) + 1)
  IN  /\ \A i \in DOMAIN fed :
           fed[i][1] = FedBefore(i) + 1 /\ fed[i][2] - fed[i][1] \in 0 .. ChunkSize - 1
      /\ last <= Len(result.prompt)
      /\ result.ended = "ok" => last = Len(result.prompt)

\* The timestamps implement least-recently-used order: what is evicted is
\* what a cache that knows the order of all uses would give up, with every
\* hit counted as a use, also when the run it served failed.
Lru == INSTANCE LruOrder WITH
  Keys <- Prompts,
  Nothing <- <<>>,
  Limit <- MaxEntries,
  cached <- DOMAIN entries,
  before <- {p \in (DOMAIN entries) \X (DOMAIN entries) :
               entries[p[1]].last_access < entries[p[2]].last_access},
  served <- Prefix(result.prompt, result.cached)
ImplementsLru == Lru!Spec
=============================================================================
