----------------------------- MODULE ModelPlan ------------------------------
(***************************************************************************)
(* The cached model manifest of crates/modelplan: ensure_plan loads        *)
(* model.plan.toml when its sha256 sidecar matches the sources, and        *)
(* otherwise introspects the model directory and writes both files anew.   *)
(*                                                                         *)
(* Several processes (the engine, the nxm-modelplan tool) share a model    *)
(* directory without any lock; each may die, and each write may fail, at   *)
(* any step.  fs::write truncates a file first and fills it afterwards.    *)
(* A manifest is named by the sources it describes: the config version and *)
(* the weights version introspect read.                                    *)
(***************************************************************************)
EXTENDS Naturals, Sequences, FiniteSets

CONSTANTS
  Procs,     \* processes that call ensure_plan
  Configs,   \* contents of config.json and tokenizer_config.json
  Weights,   \* contents of the .safetensors headers
  NoFile,    \* a file that does not exist
  CutFile,   \* a file without usable content: truncated, or mixed up
  MaxEdits,  \* bound: edits of the sources
  MaxCalls   \* bound: calls of ensure_plan

ASSUME PlanAssumption ==
  /\ NoFile # CutFile
  /\ {NoFile, CutFile} \cap (Configs \cup (Configs \X Weights)) = {}
  /\ Procs # {}
  /\ MaxEdits \in Nat /\ MaxCalls \in Nat

VARIABLES
  config, weights,  \* the sources
  plan,             \* model.plan.toml: NoFile, CutFile or a manifest
  sidecar,          \* model.plan.toml.sha256: NoFile, CutFile or a hash
  pc,               \* process -> step of ensure_plan it is at
  stored,           \* process -> the sidecar validate_hash has read
  seen,             \* process -> what introspect has read so far
  hash,             \* process -> hash_sources of save_plan
  asof,             \* process -> the sources there were since validate_hash matched
  outcome,          \* process -> what its last ensure_plan returned
  overlap,          \* history: two calls of ensure_plan have overlapped
  broken,           \* history: a regeneration has been cut short
  disturbed,        \* history: an edit the cache has no defence against
  edits, calls      \* counters for the bounds

sources == <<config, weights>>
files == <<plan, sidecar>>
local == <<pc, stored, seen, hash, asof, outcome>>
history == <<overlap, broken, disturbed>>
bounds == <<edits, calls>>
vars == <<sources, files, local, history, bounds>>

Manifests == Configs \X Weights

\* hash_sources covers config.json, the tokenizer files and a sharded model's
\* index, not the .safetensors files whose headers introspect reads.
HashOf(c, w) == c

\* Mutant: the sidecar is written first.
SidecarFirst == <<"hash", "cut sidecar", "write sidecar", "cut plan", "write plan">>

\* What save_plan does, in this order.
SaveSteps == <<"cut plan", "write plan", "hash", "cut sidecar", "write sidecar">>

Follows(step) ==
  LET i == CHOOSE k \in DOMAIN SaveSteps : SaveSteps[k] = step
  IN  IF i = Len(SaveSteps) THEN "done" ELSE SaveSteps[i + 1]

Regenerating(p) ==
  pc[p] \in {"introspect", "headers"} \cup {SaveSteps[k] : k \in DOMAIN SaveSteps}

\* No plan yet, or the one of an earlier call; the config may have been
\* edited since.
Init ==
  /\ config \in Configs /\ weights \in Weights
  /\ \/ plan = NoFile /\ sidecar = NoFile
     \/ \E c \in Configs : plan = <<c, weights>> /\ sidecar = HashOf(c, weights)
  /\ pc = [p \in Procs |-> "idle"]
  /\ stored = [p \in Procs |-> NoFile]
  /\ seen = [p \in Procs |-> <<config, weights>>]
  /\ hash = [p \in Procs |-> HashOf(config, weights)]
  /\ asof = [p \in Procs |-> {}]
  /\ outcome = [p \in Procs |-> "none"]
  /\ overlap = FALSE /\ broken = FALSE /\ disturbed = FALSE
  /\ edits = 0 /\ calls = 0

Goto(p, step) == pc' = [pc EXCEPT ![p] = step]

Return(p, what) ==
  /\ Goto(p, "idle")
  /\ outcome' = [outcome EXCEPT ![p] = what]

-----------------------------------------------------------------------------
(* load_plan and validate_hash.                                            *)

Begin(p) ==
  /\ pc[p] = "idle"
  /\ calls < MaxCalls
  /\ calls' = calls + 1
  /\ outcome' = [outcome EXCEPT ![p] = "none"]
  /\ Goto(p, IF plan = NoFile THEN "introspect" ELSE "sidecar")
  /\ overlap' = (overlap \/ \E q \in Procs : pc[q] # "idle")
  /\ UNCHANGED <<sources, files, stored, seen, hash, asof, broken, disturbed, edits>>

\* Mutant: a missing sidecar is taken for a valid one.
ReadSidecarMissingIsValid(p) ==
  /\ pc[p] = "sidecar"
  /\ stored' = [stored EXCEPT ![p] =
                  IF sidecar = NoFile THEN HashOf(config, weights) ELSE sidecar]
  /\ Goto(p, "validate")
  /\ UNCHANGED <<sources, files, seen, hash, asof, outcome, history, bounds>>

ReadSidecar(p) ==
  /\ pc[p] = "sidecar"
  /\ stored' = [stored EXCEPT ![p] = sidecar]
  /\ Goto(p, IF sidecar = NoFile THEN "introspect" ELSE "validate")
  /\ UNCHANGED <<sources, files, seen, hash, asof, outcome, history, bounds>>

\* The sidecar read matches the sources, or it is cut or stale.
Validate(p) ==
  /\ pc[p] = "validate"
  /\ IF stored[p] = HashOf(config, weights)
     THEN Goto(p, "read") /\ asof' = [asof EXCEPT ![p] = {sources}]
     ELSE Goto(p, "introspect") /\ UNCHANGED asof
  /\ UNCHANGED <<sources, files, stored, seen, hash, outcome, history, bounds>>

\* A plan that does not parse is an error, not a miss.
ReadPlan(p) ==
  /\ pc[p] = "read"
  /\ Return(p, IF plan \in Manifests THEN "loaded" ELSE "error")
  /\ asof' = [asof EXCEPT ![p] = {}]
  /\ UNCHANGED <<sources, files, stored, seen, hash, history, bounds>>

-----------------------------------------------------------------------------
(* introspect and save_plan.                                               *)

ReadConfig(p) ==
  /\ pc[p] = "introspect"
  /\ seen' = [seen EXCEPT ![p] = <<config, @[2]>>]
  /\ Goto(p, "headers")
  /\ UNCHANGED <<sources, files, stored, hash, asof, outcome, history, bounds>>

ReadHeaders(p) ==
  /\ pc[p] = "headers"
  /\ seen' = [seen EXCEPT ![p] = <<@[1], weights>>]
  /\ Goto(p, SaveSteps[1])
  /\ UNCHANGED <<sources, files, stored, hash, asof, outcome, history, bounds>>

\* The step that ends save_plan returns the manifest introspected.
Proceed(p, step) ==
  IF Follows(step) = "done" THEN Return(p, "saved")
  ELSE Goto(p, Follows(step)) /\ UNCHANGED outcome

CutPlan(p) ==
  /\ pc[p] = "cut plan"
  /\ plan' = CutFile
  /\ Proceed(p, "cut plan")
  /\ UNCHANGED <<sources, sidecar, stored, seen, hash, asof, history, bounds>>

\* Two processes writing different manifests from offset 0 may leave the
\* head of one and the tail of the other.
WritePlan(p) ==
  /\ pc[p] = "write plan"
  /\ \/ plan' = seen[p]
     \/ plan \in Manifests \ {seen[p]} /\ plan' = CutFile
  /\ Proceed(p, "write plan")
  /\ UNCHANGED <<sources, sidecar, stored, seen, hash, asof, history, bounds>>

HashSources(p) ==
  /\ pc[p] = "hash"
  /\ hash' = [hash EXCEPT ![p] = HashOf(config, weights)]
  /\ Proceed(p, "hash")
  /\ UNCHANGED <<sources, files, stored, seen, asof, history, bounds>>

CutSidecar(p) ==
  /\ pc[p] = "cut sidecar"
  /\ sidecar' = CutFile
  /\ Proceed(p, "cut sidecar")
  /\ UNCHANGED <<sources, plan, stored, seen, hash, asof, history, bounds>>

\* Mutant: a sidecar that exists is left alone.
WriteSidecarOnce(p) ==
  /\ pc[p] = "write sidecar"
  /\ sidecar' = IF sidecar = NoFile THEN hash[p] ELSE sidecar
  /\ Proceed(p, "write sidecar")
  /\ UNCHANGED <<sources, plan, stored, seen, hash, asof, history, bounds>>

\* All hashes have the same length: the last writer's is there in full.
WriteSidecar(p) ==
  /\ pc[p] = "write sidecar"
  /\ sidecar' = hash[p]
  /\ Proceed(p, "write sidecar")
  /\ UNCHANGED <<sources, plan, stored, seen, hash, asof, history, bounds>>

\* The process dies, or a read or write fails, leaving the files as they are.
Fail(p) ==
  /\ pc[p] # "idle"
  /\ Return(p, "failed")
  /\ broken' = (broken \/ Regenerating(p))
  /\ asof' = [asof EXCEPT ![p] = {}]
  /\ UNCHANGED <<sources, files, stored, seen, hash, overlap, disturbed, bounds>>

-----------------------------------------------------------------------------
\* The user replaces the config or the weights of the model.  The sidecar
\* notices a new config, unless it comes in the middle of a regeneration,
\* between the read of the sidecar and the hash it is compared with, or
\* brings back what a regeneration that was cut short had begun to replace.
Edit ==
  /\ edits < MaxEdits
  /\ edits' = edits + 1
  /\ \/ /\ config' \in Configs \ {config} /\ UNCHANGED weights
        /\ disturbed' =
             \/ disturbed \/ broken
             \/ \E p \in Procs : Regenerating(p) \/ pc[p] = "validate"
     \/ /\ weights' \in Weights \ {weights} /\ UNCHANGED config
        /\ disturbed' = TRUE
  /\ asof' = [p \in Procs |-> IF pc[p] = "read" THEN asof[p] \cup {sources'}
                                              ELSE asof[p]]
  /\ UNCHANGED <<files, pc, stored, seen, hash, outcome, overlap, broken, calls>>

Step(p) ==
  \/ Begin(p) \/ ReadSidecar(p) \/ Validate(p) \/ ReadPlan(p)
  \/ ReadConfig(p) \/ ReadHeaders(p)
  \/ CutPlan(p) \/ WritePlan(p)
  \/ HashSources(p) \/ CutSidecar(p) \/ WriteSidecar(p)
  \/ Fail(p)

Next == Edit \/ \E p \in Procs : Step(p)

Spec == Init /\ [][Next]_vars

-----------------------------------------------------------------------------
(* Properties.                                                             *)

\* The plan that load_plan is about to read describes the sources as they
\* were when validate_hash matched, or have become since ...
ReadsValidated(p) == pc[p] = "read" /\ plan \in Manifests => plan \in asof[p]

\* ... provided the config is edited while no plan is validated or regenerated
\* and no regeneration has been cut short; overlapping calls do no harm.
StaleOnlyIfDisturbed == ~disturbed => \A p \in Procs : ReadsValidated(p)

\* Without that proviso it is what lib.rs says of load_plan: "Returns
\* `Ok(None)` if file missing or stale".
NeverServesStale == \A p \in Procs : ReadsValidated(p)

\* Whatever step of a save a process died in, the next ensure_plan finds the
\* cache valid or regenerates it; it never trips over a half-written plan.
\* (Overlapping calls can meet one, or leave it under a valid sidecar.)
CrashHeals ==
  ~overlap /\ ~disturbed => \A p \in Procs : outcome[p] # "error"

\* Once every process has a plan, whatever the order of their writes, the
\* cache holds one and the sidecar next to it belongs to it.
CacheSettles ==
  ~disturbed /\ (\A p \in Procs : /\ pc[p] = "idle"
                                  /\ outcome[p] \in {"loaded", "saved"})
    => plan \in Manifests /\ sidecar = HashOf(plan[1], plan[2])
=============================================================================
