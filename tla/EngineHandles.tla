---------------------------- MODULE EngineHandles ----------------------------
(***************************************************************************)
(* Who owns the MLX handles of the generate loop.  An mlx_array is a       *)
(* reference counted C object: a handle dropped without mlx_array_free     *)
(* stays a live Metal resource, and one freed too early takes the input of *)
(* a graph that is not evaluated yet.                                      *)
(*                                                                         *)
(* Every action of EngineDecode is taken with what it does to the handles. *)
(* The K and the V buffer of a layer count as one: only a failure comes    *)
(* between them, and what it leaves is lost either way.  A handle is       *)
(* <<layer, n>>, n a number not in use.                                    *)
(***************************************************************************)
EXTENDS EngineDecode, FiniteSets

CONSTANT
  Norms    \* norms of q and of k that the layers of the model have together

ASSUME NormsAssumption == Norms \in 0 .. 2 * NumLayers

VARIABLES
  held,    \* layer -> n of the handle in self.kv_bufs, 0 for none
  live,    \* handles of KV buffers not freed
  lazy,    \* pairs <<h, i>>: h is not evaluated yet and is built from i
  arena,   \* handles in scratch or stale_kv, to be freed at the end
  temps,   \* other handles this request has dropped without freeing
  traced,  \* the closure of this request has run, and so has been traced
  failed,  \* a call of this request failed (temps counts no further)
  leaked   \* a request without a failure has lost a KV buffer

handles == <<held, live, lazy, arena>>
handleVars == <<handles, temps, traced, failed, leaked>>
allVars == <<vars, handleVars>>

None == [l \in Layers |-> 0]
In(h) == {<<l, h[l]>> : l \in {k \in Layers : h[k] # 0}}
Fresh(l) == CHOOSE n \in 1 .. Cardinality(live) + 1 : <<l, n>> \notin live

\* embed drops its index array and the row before expand_dims; a mask is
\* dropped before reshape and before astype; create_starts keeps four arrays
\* that drop_globals does not free.
PerEmbed == 2
PerMask == 2
Starts == 4

\* compile_shapeless forgets the closure it was given.
Forgotten == 1

\* build_step frees none of the arrays it makes (mlx_array is Copy, without
\* Drop), nor the handles it takes of its inputs: 33 in a layer over static
\* buffers, 30 over growing ones, the norms of q and k, and six around them.
StaticTrace == 6 + 33 * NumLayers + Norms
ConcatTrace == 6 + 30 * NumLayers + Norms

Drop(n) == temps' = IF failed THEN 0 ELSE temps + n

HandlesInit ==
  /\ Init
  /\ held = None
  /\ live = {}
  /\ lazy = {}
  /\ arena = {}
  /\ temps = 0
  /\ traced = FALSE
  /\ failed = FALSE
  /\ leaked = FALSE

Untouched == UNCHANGED handleVars

-----------------------------------------------------------------------------
(* The start of a request.                                                 *)

FreeBuffers == live \ In(held)

\* reset frees what kv_bufs still holds; any other live buffer is lost.
ResetHandles ==
  /\ leaked' = (leaked \/ (~failed /\ FreeBuffers # {}))
  /\ lazy' = {}
  /\ arena' = {}

StartHandles ==
  /\ ResetHandles
  /\ held' = [l \in Layers |-> 1]
  /\ live' = In(held')
  /\ temps' = Starts + PerMask * static_masks' + PerEmbed
  /\ traced' = FALSE
  /\ failed' = FALSE

\* alloc_kv_static or create_starts fails: generate clears the buffers.
StartFailsHandles ==
  /\ ResetHandles
  /\ held' = None
  /\ live' = {}
  /\ temps' = 0
  /\ traced' = FALSE
  /\ failed' = TRUE

\* generate's Err branch clears kv_bufs; the vectors of the functions that
\* returned early are dropped.  Nothing is freed.
AbandonHandles ==
  /\ held' = None
  /\ arena' = {}
  /\ lazy' = {}
  /\ temps' = 0
  /\ failed' = TRUE
  /\ UNCHANGED <<live, traced, leaked>>

-----------------------------------------------------------------------------
(* Prefill and the eager step: one layer after the other, freed at the end.*)

Replace(l) == held' = [held EXCEPT ![l] = Fresh(l)]
New(l) == <<l, Fresh(l)>>
Old(l) == <<l, held[l]>>

\* Mutant: the buffer that is replaced is freed on the spot.
FreeAtOnce(l) ==
  /\ Replace(l)
  /\ live' = (live \ {Old(l)}) \cup {New(l)}
  /\ lazy' = lazy \cup {<<New(l), Old(l)>>}
  /\ UNCHANGED <<arena, temps, traced, failed, leaked>>

\* slice_update, scatter_single or concatenate: the new buffer is lazy, the
\* old one is kept in stale_kv.
Supersede(l) ==
  /\ Replace(l)
  /\ live' = live \cup {New(l)}
  /\ lazy' = lazy \cup {<<New(l), Old(l)>>}
  /\ arena' = arena \cup {Old(l)}
  /\ UNCHANGED <<temps, traced, failed, leaked>>

\* Concat prefill: the roped K and V become the cache and leave the arena.
Store(l) ==
  /\ Replace(l)
  /\ live' = live \cup {New(l)}
  /\ UNCHANGED <<lazy, arena, temps, traced, failed, leaked>>

PrefillLayerHandles == IF kv_static_cap > 0 THEN Supersede(layer) ELSE Store(layer)

\* eval_all of the logits and of every buffer, then the arena is freed.
EvalAndFree ==
  /\ lazy' = {}
  /\ live' = live \ arena
  /\ arena' = {}
  /\ UNCHANGED <<held, temps, traced, failed, leaked>>

EagerBeginHandles ==
  /\ Drop(PerEmbed)
  /\ UNCHANGED <<handles, traced, failed, leaked>>

-----------------------------------------------------------------------------
(* The compiled steps and the join.                                        *)

\* The static closure comes from the thread that compiled it.
JoinHandles ==
  /\ Drop(Forgotten)
  /\ UNCHANGED <<handles, traced, failed, leaked>>

\* The concat closure makes its own split starts, then compiles.
FirstTokenHandles ==
  /\ Drop(IF compiled_full' # compiled_full THEN Starts + Forgotten ELSE 0)
  /\ UNCHANGED <<handles, traced, failed, leaked>>

\* A compiled step frees its own arrays, but not those embed drops.  Mutant:
\* it keeps the embedded input.
PerStepKeepsInput == PerEmbed + 1

PerStep == PerEmbed

\* The first call of a closure traces it; the others replay the trace.
Tracing ==
  IF traced THEN 0 ELSE IF compiled_static > 0 THEN StaticTrace ELSE ConcatTrace

\* The outputs were evaluated by the readback: the old buffers, the token,
\* the embedded input and (concat) the offset array are freed.
Commit ==
  /\ held' = [l \in Layers |-> Fresh(l)]
  /\ live' = (live \cup In(held')) \ In(held)
  /\ Drop(PerStep + Tracing)
  /\ traced' = TRUE
  /\ UNCHANGED <<lazy, arena, failed, leaked>>

\* A compiled step that fails keeps the buffers; what it made is lost.
StepFailsHandles ==
  /\ failed' = TRUE
  /\ temps' = 0
  /\ UNCHANGED <<handles, traced, leaked>>

\* The second prefill clears kv_bufs without freeing the static buffers, and
\* the first logits are dropped with them.
JoinErrHandles ==
  /\ held' = None
  /\ failed' = TRUE
  /\ temps' = 0
  /\ UNCHANGED <<live, lazy, arena, traced, leaked>>

-----------------------------------------------------------------------------
HandlesNext ==
  \/ \E p \in PromptLens, m \in MaxTokens :
       \/ Reject(p, m) /\ Untouched
       \/ \E t \in {"greedy", "sample"} :
            \/ Start(p, m, t) /\ StartHandles
            \/ StartFails(p, m, t) /\ StartFailsHandles
  \/ CompileReturns /\ Untouched
  \/ PrefillLayer /\ PrefillLayerHandles
  \/ PrefillEnd /\ EvalAndFree
  \/ Join /\ JoinHandles
  \/ JoinErr /\ JoinErrHandles
  \/ FirstToken /\ FirstTokenHandles
  \/ (StaticStep \/ CompiledStep) /\ Commit
  \/ (StaticStepFails \/ CompiledStepFails) /\ StepFailsHandles
  \/ EagerBegin /\ EagerBeginHandles
  \/ EagerLayer /\ Supersede(layer)
  \/ EagerEnd /\ EvalAndFree
  \/ (LoopEnds \/ Finish \/ Echo) /\ Untouched
  \/ (PrefillFails \/ JoinPanic \/ FirstTokenFails \/ EagerFails \/ FinishFails)
       /\ AbandonHandles

HandlesSpec ==
  /\ HandlesInit
  /\ [][HandlesNext]_allVars
  /\ WF_vars(Generate) /\ WF_vars(CompileReturns)

-----------------------------------------------------------------------------
(* Properties.                                                             *)

\* Nothing is freed twice or used after it was freed: a buffer in kv_bufs or
\* waiting to be freed is live, and never both (reset, step_commit_compiled
\* and the tail of prefill free what these hold), and what an unevaluated
\* buffer is built from is not freed before it is evaluated
\* (forward_qwen3.rs: "freeing here corrupts the graph").
HandlesOwned ==
  /\ In(held) \cup arena \subseteq live
  /\ In(held) \cap arena = {}
  /\ \A d \in lazy : d[2] \in live

\* A KV buffer is lost only by a request in which a call failed: on every
\* other path each buffer a step replaces is freed, by the step or by the
\* reset of the next request.  Of the other handles such a request loses those
\* of create_starts, of the masks, of the closure it compiled and, once, of
\* its trace; each further token costs the arrays of embed and nothing else,
\* so a request is bounded by its capacity whatever path it takes
\* (decode_compiled.rs frees after every readback).
HandlesReturn ==
  /\ ~leaked
  /\ pc = "idle" /\ reply = "text" /\ ~failed =>
       LET steps == offset - plen
       IN  temps = Starts + PerMask * kv_static_cap + Forgotten
                   + PerEmbed * (1 + steps)
                   + (IF steps > 0 THEN StaticTrace ELSE 0)
=============================================================================
