-------------------------- MODULE ModelPlanProofs --------------------------
(***************************************************************************)
(* Proofs about the cache of plans, for any processes, configs and         *)
(* weights, and however many edits and calls: what is read was validated,  *)
(* a crash heals, the cache settles; and about what Load makes of any      *)
(* config and of a checkpoint of any shape.                                *)
(***************************************************************************)
EXTENDS Load, SequenceTheorems, TLAPS

-----------------------------------------------------------------------------
(* The inductive invariant.                                                *)

Written == {"write plan", "hash", "cut sidecar", "write sidecar"}
Saves == {"cut plan"} \cup Written
Regenerates == {"introspect", "headers"} \cup Saves
Places == {"idle", "sidecar", "validate", "read"} \cup Regenerates
Hashes == Configs \cup {NoFile, CutFile}

PlanTypeOK ==
  /\ config \in Configs /\ weights \in Weights
  /\ plan \in Manifests \cup {NoFile, CutFile}
  /\ sidecar \in Hashes
  /\ pc \in [Procs -> Places]
  /\ stored \in [Procs -> Hashes]
  /\ seen \in [Procs -> Manifests]
  /\ hash \in [Procs -> Configs]
  /\ asof \in [Procs -> SUBSET Manifests]
  /\ outcome \in [Procs -> {"none", "loaded", "saved", "error", "failed"}]
  /\ overlap \in BOOLEAN /\ broken \in BOOLEAN /\ disturbed \in BOOLEAN
  /\ edits \in Nat /\ calls \in Nat

\* A call that runs has not returned, and a plan about to be read was
\* validated for the sources there are or have been since.
CallInv ==
  /\ \A p \in Procs : pc[p] # "idle" => outcome[p] = "none"
  /\ \A p \in Procs : pc[p] = "read" => sources \in asof[p]
  /\ \A p \in Procs : pc[p] \in Written => plan # NoFile
  /\ plan = NoFile => sidecar = NoFile
  /\ ~overlap => \A p, q \in Procs : pc[p] # "idle" /\ pc[q] # "idle" => p = q

\* While nobody disturbs it, a regeneration works on the sources there are.
SaveInv ==
  ~disturbed =>
    /\ plan \in Manifests => plan[2] = weights
    /\ \A p \in Procs : seen[p][2] = weights
    /\ \A p \in Procs : pc[p] \in {"headers"} \cup Saves => seen[p] = sources
    /\ \A p \in Procs : pc[p] \in {"cut sidecar", "write sidecar"} => hash[p] = config
    /\ \A p \in Procs : pc[p] \in Written => plan \in {CutFile, sources}

\* A plan next to a sidecar that is not its own.
Mismatch == plan \in Manifests /\ sidecar # plan[1]

\* Files that do not fit are left by a regeneration that runs or was cut
\* short, and it described the sources as they still are.
FitInv ==
  ~disturbed =>
    /\ Mismatch => plan = sources /\ (broken \/ \E p \in Procs : pc[p] \in Regenerates)
    /\ plan = CutFile => broken \/ \E p \in Procs : pc[p] = "write plan"

\* What a valid sidecar promises, from its read to that of the plan.
ValidInv ==
  ~disturbed =>
    \A p \in Procs :
      plan \in Manifests =>
        /\ pc[p] = "validate" /\ stored[p] = config => plan = sources
        /\ pc[p] = "read" => plan \in asof[p]

\* A process without a plan that will not end well without writing one, or
\* without writing a sidecar.
OwesPlan(p) ==
  outcome[p] \notin {"loaded", "saved"} /\ pc[p] \notin {"hash", "cut sidecar", "write sidecar"}
OwesSidecar(p) ==
  /\ outcome[p] \notin {"loaded", "saved"} /\ pc[p] # "read"
  /\ pc[p] = "validate" => stored[p] # config

OweInv ==
  ~disturbed =>
    /\ plan \notin Manifests => \E p \in Procs : OwesPlan(p)
    /\ Mismatch => \E p \in Procs : OwesSidecar(p)

\* One call at a time finds a valid sidecar only next to a whole plan.
HealInv ==
  ~disturbed /\ ~overlap =>
    /\ plan \notin Manifests => sidecar # config
    /\ \A p \in Procs :
         /\ pc[p] \in Regenerates \ {"write sidecar"} => sidecar # config
         /\ pc[p] \in {"hash", "cut sidecar", "write sidecar"} => plan \in Manifests
         /\ pc[p] = "validate" => stored[p] = sidecar
         /\ pc[p] = "read" => plan \in Manifests
         /\ outcome[p] # "error"

IInv ==
  PlanTypeOK /\ CallInv /\ SaveInv /\ FitInv /\ ValidInv /\ OweInv /\ HealInv

-----------------------------------------------------------------------------
(* The steps of a call.                                                    *)

\* The only place of a step, and what comes after a place.
OnlyAt(step, n) ==
  n \in DOMAIN SaveSteps /\ \A k \in DOMAIN SaveSteps : SaveSteps[k] = step <=> k = n
After(n) == IF n = Len(SaveSteps) THEN "done" ELSE SaveSteps[n + 1]

LEMMA Only ==
  ASSUME NEW step, NEW n, OnlyAt(step, n)
  PROVE  Follows(step) = After(n)
<1> DEFINE places == DOMAIN SaveSteps
           Is(k) == SaveSteps[k] = step
<1>1. n \in places /\ Is(n) /\ \A k \in places : Is(k) => k = n
  BY DEF OnlyAt
<1> HIDE DEF places, Is
<1>2. (CHOOSE k \in places : Is(k)) = n
  BY <1>1
<1>3. (CHOOSE k \in DOMAIN SaveSteps : SaveSteps[k] = step) = n
  BY <1>2 DEF places, Is
<1>4. Follows(step) = After(CHOOSE k \in DOMAIN SaveSteps : SaveSteps[k] = step)
  BY Zenon DEF Follows, After
<1>5. QED
  BY <1>3, <1>4

\* The steps of save_plan, in their order.
LEMMA SaveOrder ==
  /\ SaveSteps[1] = "cut plan"
  /\ Follows("cut plan") = "write plan" /\ Follows("write plan") = "hash"
  /\ Follows("hash") = "cut sidecar" /\ Follows("cut sidecar") = "write sidecar"
  /\ Follows("write sidecar") = "done"
<1>1. /\ DOMAIN SaveSteps = 1 .. 5 /\ Len(SaveSteps) = 5
      /\ SaveSteps[1] = "cut plan" /\ SaveSteps[2] = "write plan" /\ SaveSteps[3] = "hash"
      /\ SaveSteps[4] = "cut sidecar" /\ SaveSteps[5] = "write sidecar"
  BY DEF SaveSteps
<1> HIDE DEF SaveSteps
<1>2. /\ OnlyAt("cut plan", 1) /\ OnlyAt("write plan", 2) /\ OnlyAt("hash", 3)
      /\ OnlyAt("cut sidecar", 4) /\ OnlyAt("write sidecar", 5)
  <2>1. /\ \A k \in 1 .. 5 : k = 1 \/ k = 2 \/ k = 3 \/ k = 4 \/ k = 5
        /\ 1 \in 1 .. 5 /\ 2 \in 1 .. 5 /\ 3 \in 1 .. 5 /\ 4 \in 1 .. 5 /\ 5 \in 1 .. 5
    OBVIOUS
  <2>2. QED
    BY <1>1, <2>1 DEF OnlyAt
<1>3. /\ After(1) = "write plan" /\ After(2) = "hash" /\ After(3) = "cut sidecar"
      /\ After(4) = "write sidecar" /\ After(5) = "done"
  <2>1. /\ After(1) = SaveSteps[2] /\ After(2) = SaveSteps[3] /\ After(3) = SaveSteps[4]
        /\ After(4) = SaveSteps[5] /\ After(5) = "done"
    <3>1. /\ 1 # 5 /\ 2 # 5 /\ 3 # 5 /\ 4 # 5
          /\ 1 + 1 = 2 /\ 2 + 1 = 3 /\ 3 + 1 = 4 /\ 4 + 1 = 5
      OBVIOUS
    <3>2. QED
      BY <1>1, <3>1, Zenon DEF After
  <2>2. QED
    BY <1>1, <2>1
<1>4. Follows("cut plan") = After(1) /\ Follows("write plan") = After(2)
  BY <1>2, Only
<1>5. Follows("hash") = After(3) /\ Follows("cut sidecar") = After(4)
  BY <1>2, Only
<1>6. Follows("write sidecar") = After(5)
  BY <1>2, Only
<1>7. QED
  BY <1>1, <1>3, <1>4, <1>5, <1>6

LEMMA RegeneratingIs == \A p : Regenerating(p) <=> pc[p] \in Regenerates
<1>1. {SaveSteps[k] : k \in DOMAIN SaveSteps} = Saves
  <2>1. /\ DOMAIN SaveSteps = 1 .. 5
        /\ SaveSteps[1] = "cut plan" /\ SaveSteps[2] = "write plan" /\ SaveSteps[3] = "hash"
        /\ SaveSteps[4] = "cut sidecar" /\ SaveSteps[5] = "write sidecar"
    BY DEF SaveSteps
  <2> HIDE DEF SaveSteps
  <2>2. \A k \in 1 .. 5 : k = 1 \/ k = 2 \/ k = 3 \/ k = 4 \/ k = 5
    OBVIOUS
  <2>3. \A k \in DOMAIN SaveSteps : SaveSteps[k] \in Saves
    BY <2>1, <2>2 DEF Saves, Written
  <2>4. \A s \in Saves : \E k \in DOMAIN SaveSteps : SaveSteps[k] = s
    <3>1. 1 \in 1 .. 5 /\ 2 \in 1 .. 5 /\ 3 \in 1 .. 5 /\ 4 \in 1 .. 5 /\ 5 \in 1 .. 5
      OBVIOUS
    <3>2. QED
      BY <2>1, <3>1 DEF Saves, Written
  <2>5. QED
    BY <2>3, <2>4
<1>2. QED
  BY <1>1 DEF Regenerating, Regenerates

\* No file is a manifest, and a config is no file's absence.
LEMMA Apart ==
  /\ NoFile \notin Manifests /\ CutFile \notin Manifests /\ NoFile # CutFile
  /\ NoFile \notin Configs /\ CutFile \notin Configs /\ Procs # {}
BY PlanAssumption DEF Manifests

LEMMA SourcesType == PlanTypeOK => sources \in Manifests /\ sources[1] = config /\ sources[2] = weights
BY DEF PlanTypeOK, sources, Manifests

\* A manifest is what its parts are.
LEMMA PartsOf == \A m \in Manifests : m = <<m[1], m[2]>> /\ m[1] \in Configs /\ m[2] \in Weights
BY DEF Manifests

LEMMA Gone ==
  ASSUME PlanTypeOK, NEW p \in Procs, NEW step \in Places, Goto(p, step)
  PROVE  /\ pc' \in [Procs -> Places] /\ pc'[p] = step
         /\ \A q \in Procs : q # p => pc'[q] = pc[q]
BY DEF PlanTypeOK, Goto

LEMMA Returned ==
  ASSUME PlanTypeOK, NEW p \in Procs,
         NEW what \in {"loaded", "saved", "error", "failed"}, Return(p, what)
  PROVE  /\ pc' \in [Procs -> Places] /\ pc'[p] = "idle"
         /\ outcome' \in [Procs -> {"none", "loaded", "saved", "error", "failed"}]
         /\ outcome'[p] = what
         /\ \A q \in Procs : q # p => pc'[q] = pc[q] /\ outcome'[q] = outcome[q]
BY DEF PlanTypeOK, Return, Goto, Places

\* How a step of save_plan moves on.
LEMMA Proceeds ==
  ASSUME PlanTypeOK, NEW p \in Procs, NEW step, NEW next \in Places,
         Proceed(p, step), Follows(step) = next, next # "done"
  PROVE  /\ pc' \in [Procs -> Places] /\ pc'[p] = next /\ outcome' = outcome
         /\ \A q \in Procs : q # p => pc'[q] = pc[q]
<1>1. Goto(p, next) /\ outcome' = outcome
  BY DEF Proceed
<1>2. QED
  BY <1>1, Gone

\* Debts are kept by a step that leaves the files and settles none.
LEMMA DebtStays ==
  ASSUME OweInv, plan' = plan, sidecar' = sidecar, disturbed' = disturbed,
         \A q \in Procs : OwesPlan(q) => OwesPlan(q)',
         \A q \in Procs : OwesSidecar(q) => OwesSidecar(q)'
  PROVE  OweInv'
BY DEF OweInv, Mismatch

-----------------------------------------------------------------------------
(* Invariance.                                                             *)

LEMMA InitInv == Init => IInv
<1> SUFFICES ASSUME Init PROVE IInv
  OBVIOUS
<1>1. /\ config \in Configs /\ weights \in Weights
      /\ \/ plan = NoFile /\ sidecar = NoFile
         \/ plan \in Manifests /\ plan[2] = weights /\ sidecar = plan[1]
  BY DEF Init, HashOf, Manifests
<1>2. \A p \in Procs : pc[p] = "idle" /\ outcome[p] = "none" /\ seen[p] = sources
  BY DEF Init, sources
<1>3. PlanTypeOK
  BY <1>1, <1>2, SourcesType
     DEF Init, PlanTypeOK, Hashes, Places, Manifests, HashOf
<1>4. CallInv
  BY <1>1, <1>2, Apart DEF Init, CallInv, Written
<1>5. SaveInv
  BY <1>1, <1>2, <1>3, Apart, SourcesType DEF Init, SaveInv, Saves, Written
<1>6. FitInv
  BY <1>1, Apart DEF FitInv, Mismatch
<1>7. ValidInv
  BY <1>2 DEF ValidInv
<1>8. OweInv
  BY <1>1, <1>2, Apart DEF OweInv, OwesPlan, Mismatch
<1>9. HealInv
  BY <1>1, <1>2, Apart DEF HealInv, Regenerates, Saves, Written
<1>10. QED
  BY <1>3, <1>4, <1>5, <1>6, <1>7, <1>8, <1>9 DEF IInv

LEMMA BeginInv ==
  ASSUME IInv, NEW p \in Procs, Begin(p)
  PROVE  IInv'
<1> DEFINE step == IF plan = NoFile THEN "introspect" ELSE "sidecar"
<1>1. /\ PlanTypeOK /\ pc[p] = "idle"
      /\ sources' = sources /\ config' = config /\ weights' = weights
      /\ plan' = plan /\ sidecar' = sidecar /\ stored' = stored /\ seen' = seen /\ hash' = hash
      /\ asof' = asof /\ broken' = broken /\ disturbed' = disturbed
      /\ calls' = calls + 1 /\ edits' = edits
      /\ overlap' = (overlap \/ \E q \in Procs : pc[q] # "idle")
      /\ outcome' = [outcome EXCEPT ![p] = "none"] /\ Goto(p, step)
  BY DEF IInv, Begin, sources, files
<1>2. /\ pc' \in [Procs -> Places] /\ pc'[p] = step
      /\ \A q \in Procs : q # p => pc'[q] = pc[q] /\ outcome'[q] = outcome[q]
      /\ outcome'[p] = "none"
  BY <1>1, Gone DEF PlanTypeOK, Places, Regenerates
<1>3. PlanTypeOK'
  <2>1. /\ overlap' \in BOOLEAN /\ calls' \in Nat
        /\ outcome' \in [Procs -> {"none", "loaded", "saved", "error", "failed"}]
    BY <1>1 DEF PlanTypeOK
  <2> HIDE DEF step
  <2>2. QED
    BY <1>1, <1>2, <2>1 DEF PlanTypeOK
<1>4. CallInv'
  BY <1>1, <1>2 DEF IInv, CallInv, Written
<1>5. SaveInv'
  BY <1>1, <1>2 DEF IInv, SaveInv, Saves, Written
<1>6. FitInv'
  BY <1>1, <1>2 DEF IInv, FitInv, Mismatch, Regenerates, Saves, Written
<1>7. ValidInv'
  BY <1>1, <1>2 DEF IInv, ValidInv
<1>8. OweInv'
  BY <1>1, <1>2 DEF IInv, OweInv, OwesPlan, OwesSidecar, Mismatch
<1>9. HealInv'
  BY <1>1, <1>2, Apart DEF IInv, HealInv, CallInv, PlanTypeOK, Regenerates, Saves, Written
<1>10. QED
  BY <1>3, <1>4, <1>5, <1>6, <1>7, <1>8, <1>9 DEF IInv

LEMMA ReadSidecarInv ==
  ASSUME IInv, NEW p \in Procs, ReadSidecar(p)
  PROVE  IInv'
<1> DEFINE step == IF sidecar = NoFile THEN "introspect" ELSE "validate"
<1>1. /\ PlanTypeOK /\ pc[p] = "sidecar"
      /\ sources' = sources /\ config' = config /\ weights' = weights
      /\ plan' = plan /\ sidecar' = sidecar /\ seen' = seen /\ hash' = hash
      /\ asof' = asof /\ outcome' = outcome
      /\ overlap' = overlap /\ broken' = broken /\ disturbed' = disturbed
      /\ calls' = calls /\ edits' = edits
      /\ stored' = [stored EXCEPT ![p] = sidecar] /\ Goto(p, step)
  BY DEF IInv, ReadSidecar, sources, files, history, bounds
<1>2. /\ pc' \in [Procs -> Places] /\ pc'[p] = step /\ stored'[p] = sidecar
      /\ \A q \in Procs : q # p => pc'[q] = pc[q] /\ stored'[q] = stored[q]
  BY <1>1, Gone DEF PlanTypeOK, Places, Regenerates
<1>3. PlanTypeOK'
  BY <1>1, <1>2 DEF PlanTypeOK
<1>4. CallInv'
  BY <1>1, <1>2 DEF IInv, CallInv, Written
<1>5. SaveInv'
  BY <1>1, <1>2 DEF IInv, SaveInv, Saves, Written
<1>6. FitInv'
  BY <1>1, <1>2 DEF IInv, FitInv, Mismatch, Regenerates, Saves, Written
<1>7. ValidInv'
  <2>1. ~disturbed /\ plan \in Manifests /\ sidecar = config => plan = sources
    BY <1>1, SourcesType, PartsOf DEF IInv, SaveInv, FitInv, Mismatch, sources
  <2>2. QED
    BY <1>1, <1>2, <2>1 DEF IInv, ValidInv
<1>8. OweInv'
  <2>1. ~disturbed /\ Mismatch => sidecar # config
    BY <1>1, SourcesType DEF IInv, FitInv, Mismatch
  <2>2. QED
    BY <1>1, <1>2, <2>1 DEF IInv, OweInv, OwesPlan, OwesSidecar, Mismatch
<1>9. HealInv'
  <2>1. SUFFICES ASSUME ~disturbed, ~overlap PROVE HealInv'
    BY <1>1 DEF HealInv
  <2>2. plan \notin Manifests => sidecar # config
    BY <2>1 DEF IInv, HealInv
  <2>3. /\ step \in {"introspect", "validate"}
        /\ step = "introspect" => sidecar # config
    BY <1>1, Apart DEF PlanTypeOK
  <2>4. \A q \in Procs : outcome[q] # "error"
    BY <2>1 DEF IInv, HealInv
  <2>5. ASSUME NEW q \in Procs, q # p
        PROVE  /\ pc'[q] \in Regenerates \ {"write sidecar"} => sidecar' # config'
               /\ pc'[q] \in {"hash", "cut sidecar", "write sidecar"} => plan' \in Manifests
               /\ pc'[q] = "validate" => stored'[q] = sidecar'
               /\ pc'[q] = "read" => plan' \in Manifests
    BY <1>1, <1>2, <2>1, <2>5 DEF IInv, HealInv
  <2>6. "validate" \notin Regenerates
    BY DEF Regenerates, Saves, Written
  <2>7. QED
    BY <1>1, <1>2, <2>2, <2>3, <2>4, <2>5, <2>6 DEF HealInv
<1>10. QED
  BY <1>3, <1>4, <1>5, <1>6, <1>7, <1>8, <1>9 DEF IInv

LEMMA ValidateInv ==
  ASSUME IInv, NEW p \in Procs, Validate(p)
  PROVE  IInv'
<1> DEFINE step == IF stored[p] = config THEN "read" ELSE "introspect"
<1>1. /\ PlanTypeOK /\ pc[p] = "validate"
      /\ sources' = sources /\ config' = config /\ weights' = weights
      /\ plan' = plan /\ sidecar' = sidecar /\ seen' = seen /\ hash' = hash
      /\ stored' = stored /\ outcome' = outcome
      /\ overlap' = overlap /\ broken' = broken /\ disturbed' = disturbed
      /\ calls' = calls /\ edits' = edits
      /\ Goto(p, step)
      /\ asof' = IF stored[p] = config THEN [asof EXCEPT ![p] = {sources}] ELSE asof
  BY DEF IInv, Validate, sources, files, history, bounds, HashOf
<1>2. /\ pc' \in [Procs -> Places] /\ pc'[p] = step
      /\ stored[p] = config => asof'[p] = {sources}
      /\ \A q \in Procs : q # p => pc'[q] = pc[q] /\ asof'[q] = asof[q]
  BY <1>1, Gone DEF PlanTypeOK, Places, Regenerates
<1>3. PlanTypeOK'
  BY <1>1, <1>2, SourcesType DEF PlanTypeOK
<1>4. CallInv'
  BY <1>1, <1>2 DEF IInv, CallInv, Written
<1>5. SaveInv'
  BY <1>1, <1>2 DEF IInv, SaveInv, Saves, Written
<1>6. FitInv'
  BY <1>1, <1>2 DEF IInv, FitInv, Mismatch, Regenerates, Saves, Written
<1>7. ValidInv'
  BY <1>1, <1>2 DEF IInv, ValidInv
<1>8. OweInv'
  <2>1. OwesSidecar(p) => pc'[p] # "read"
    BY <1>1, <1>2 DEF OwesSidecar
  <2>2. QED
    BY <1>1, <1>2, <2>1 DEF IInv, OweInv, OwesPlan, OwesSidecar, Mismatch
<1>9. HealInv'
  BY <1>1, <1>2, Apart DEF IInv, HealInv, PlanTypeOK, Regenerates, Saves, Written
<1>10. QED
  BY <1>3, <1>4, <1>5, <1>6, <1>7, <1>8, <1>9 DEF IInv

LEMMA ReadPlanInv ==
  ASSUME IInv, NEW p \in Procs, ReadPlan(p)
  PROVE  IInv'
<1> DEFINE what == IF plan \in Manifests THEN "loaded" ELSE "error"
<1>1. /\ PlanTypeOK /\ pc[p] = "read"
      /\ sources' = sources /\ config' = config /\ weights' = weights
      /\ plan' = plan /\ sidecar' = sidecar /\ seen' = seen /\ hash' = hash
      /\ stored' = stored
      /\ overlap' = overlap /\ broken' = broken /\ disturbed' = disturbed
      /\ calls' = calls /\ edits' = edits
      /\ Return(p, what) /\ asof' = [asof EXCEPT ![p] = {}]
  BY DEF IInv, ReadPlan, sources, files, history, bounds
<1>2. /\ pc' \in [Procs -> Places] /\ pc'[p] = "idle"
      /\ outcome' \in [Procs -> {"none", "loaded", "saved", "error", "failed"}]
      /\ outcome'[p] = what
      /\ \A q \in Procs : q # p => pc'[q] = pc[q] /\ outcome'[q] = outcome[q]
                                   /\ asof'[q] = asof[q]
  BY <1>1, Returned DEF PlanTypeOK
<1>3. PlanTypeOK'
  BY <1>1, <1>2 DEF PlanTypeOK
<1>4. CallInv'
  BY <1>1, <1>2 DEF IInv, CallInv, Written
<1>5. SaveInv'
  BY <1>1, <1>2 DEF IInv, SaveInv, Saves, Written
<1>6. FitInv'
  BY <1>1, <1>2 DEF IInv, FitInv, Mismatch, Regenerates, Saves, Written
<1>7. ValidInv'
  BY <1>1, <1>2 DEF IInv, ValidInv
<1>8. OweInv'
  BY <1>1, <1>2 DEF IInv, OweInv, OwesPlan, OwesSidecar, Mismatch
<1>9. HealInv'
  BY <1>1, <1>2, Apart DEF IInv, HealInv, PlanTypeOK, Regenerates, Saves, Written
<1>10. QED
  BY <1>3, <1>4, <1>5, <1>6, <1>7, <1>8, <1>9 DEF IInv

LEMMA ReadConfigInv ==
  ASSUME IInv, NEW p \in Procs, ReadConfig(p)
  PROVE  IInv'
<1>1. /\ PlanTypeOK /\ pc[p] = "introspect"
      /\ sources' = sources /\ config' = config /\ weights' = weights
      /\ plan' = plan /\ sidecar' = sidecar /\ stored' = stored /\ hash' = hash /\ asof' = asof
      /\ overlap' = overlap /\ broken' = broken /\ disturbed' = disturbed
      /\ calls' = calls /\ edits' = edits
      /\ outcome' = outcome /\ Goto(p, "headers")
      /\ seen' = [seen EXCEPT ![p] = <<config, @[2]>>]
  BY DEF IInv, ReadConfig, sources, files, history, bounds
<1>2. /\ pc' \in [Procs -> Places] /\ pc'[p] = "headers"
      /\ seen' \in [Procs -> Manifests] /\ seen'[p] = <<config, seen[p][2]>>
      /\ \A q \in Procs : q # p => pc'[q] = pc[q] /\ seen'[q] = seen[q]
  BY <1>1, Gone DEF PlanTypeOK, Places, Regenerates, Manifests
<1>3. PlanTypeOK'
  BY <1>1, <1>2 DEF PlanTypeOK
<1>4. CallInv'
  BY <1>1, <1>2 DEF IInv, CallInv, Written
<1>5. SaveInv'
  BY <1>1, <1>2, SourcesType DEF IInv, SaveInv, sources, Saves, Written
<1>6. FitInv'
  BY <1>1, <1>2 DEF IInv, FitInv, Mismatch, Regenerates, Saves, Written
<1>7. ValidInv'
  BY <1>1, <1>2 DEF IInv, ValidInv
<1>8. OweInv'
  <2>1. \A q \in Procs : OwesPlan(q) => OwesPlan(q)'
    BY <1>1, <1>2 DEF OwesPlan
  <2>2. \A q \in Procs : OwesSidecar(q) => OwesSidecar(q)'
    BY <1>1, <1>2 DEF OwesSidecar
  <2>3. QED
    BY <1>1, <2>1, <2>2, DebtStays DEF IInv
<1>9. HealInv'
  BY <1>1, <1>2, Apart DEF IInv, CallInv, HealInv, PlanTypeOK, Regenerates, Saves, Written
<1>10. QED
  BY <1>3, <1>4, <1>5, <1>6, <1>7, <1>8, <1>9 DEF IInv

LEMMA ReadHeadersInv ==
  ASSUME IInv, NEW p \in Procs, ReadHeaders(p)
  PROVE  IInv'
<1>1. /\ PlanTypeOK /\ pc[p] = "headers"
      /\ sources' = sources /\ config' = config /\ weights' = weights
      /\ plan' = plan /\ sidecar' = sidecar /\ stored' = stored /\ hash' = hash /\ asof' = asof
      /\ overlap' = overlap /\ broken' = broken /\ disturbed' = disturbed
      /\ calls' = calls /\ edits' = edits
      /\ outcome' = outcome /\ Goto(p, SaveSteps[1])
      /\ seen' = [seen EXCEPT ![p] = <<@[1], weights>>]
  BY DEF IInv, ReadHeaders, sources, files, history, bounds
<1>2. /\ pc' \in [Procs -> Places] /\ pc'[p] = "cut plan"
      /\ seen' \in [Procs -> Manifests] /\ seen'[p] = <<seen[p][1], weights>>
      /\ \A q \in Procs : q # p => pc'[q] = pc[q] /\ seen'[q] = seen[q]
  BY <1>1, Gone, SaveOrder DEF PlanTypeOK, Places, Regenerates, Saves, Manifests
<1>3. PlanTypeOK'
  BY <1>1, <1>2 DEF PlanTypeOK
<1>4. CallInv'
  BY <1>1, <1>2 DEF IInv, CallInv, Written
<1>5. SaveInv'
  BY <1>1, <1>2, SourcesType DEF IInv, SaveInv, sources, Saves, Written
<1>6. FitInv'
  BY <1>1, <1>2 DEF IInv, FitInv, Mismatch, Regenerates, Saves, Written
<1>7. ValidInv'
  BY <1>1, <1>2 DEF IInv, ValidInv
<1>8. OweInv'
  <2>1. \A q \in Procs : OwesPlan(q) => OwesPlan(q)'
    BY <1>1, <1>2 DEF OwesPlan
  <2>2. \A q \in Procs : OwesSidecar(q) => OwesSidecar(q)'
    BY <1>1, <1>2 DEF OwesSidecar
  <2>3. QED
    BY <1>1, <2>1, <2>2, DebtStays DEF IInv
<1>9. HealInv'
  BY <1>1, <1>2, Apart DEF IInv, CallInv, HealInv, PlanTypeOK, Regenerates, Saves, Written
<1>10. QED
  BY <1>3, <1>4, <1>5, <1>6, <1>7, <1>8, <1>9 DEF IInv

LEMMA CutPlanInv ==
  ASSUME IInv, NEW p \in Procs, CutPlan(p)
  PROVE  IInv'
<1>1. /\ PlanTypeOK /\ pc[p] = "cut plan"
      /\ sources' = sources /\ config' = config /\ weights' = weights
      /\ sidecar' = sidecar /\ stored' = stored /\ seen' = seen /\ hash' = hash /\ asof' = asof
      /\ overlap' = overlap /\ broken' = broken /\ disturbed' = disturbed
      /\ calls' = calls /\ edits' = edits
      /\ plan' = CutFile /\ Proceed(p, "cut plan")
  BY DEF IInv, CutPlan, sources, history, bounds
<1>2. /\ pc' \in [Procs -> Places] /\ pc'[p] = "write plan" /\ outcome' = outcome
      /\ \A q \in Procs : q # p => pc'[q] = pc[q]
  BY <1>1, Proceeds, SaveOrder DEF PlanTypeOK, Places, Regenerates, Saves, Written
<1>3. PlanTypeOK'
  BY <1>1, <1>2 DEF PlanTypeOK
<1>4. CallInv'
  BY <1>1, <1>2, Apart DEF IInv, CallInv, Written
<1>5. SaveInv'
  BY <1>1, <1>2, Apart DEF IInv, SaveInv, Saves, Written
<1>6. FitInv'
  BY <1>1, <1>2, Apart DEF FitInv, Mismatch
<1>7. ValidInv'
  BY <1>1, <1>2, Apart DEF ValidInv
<1>8. OweInv'
  <2>1. outcome[p] = "none"
    BY <1>1 DEF IInv, CallInv
  <2>2. QED
    BY <1>1, <1>2, <2>1, Apart DEF OweInv, OwesPlan, Mismatch
<1>9. HealInv'
  <2>1. ~overlap => \A q \in Procs : q # p => pc'[q] = "idle"
    BY <1>1, <1>2 DEF IInv, CallInv
  <2>2. ~disturbed /\ ~overlap => sidecar # config
    BY <1>1 DEF IInv, HealInv, Regenerates, Saves
  <2>3. QED
    BY <1>1, <1>2, <2>1, <2>2 DEF IInv, HealInv, Regenerates, Saves, Written
<1>10. QED
  BY <1>3, <1>4, <1>5, <1>6, <1>7, <1>8, <1>9 DEF IInv

LEMMA WritePlanInv ==
  ASSUME IInv, NEW p \in Procs, WritePlan(p)
  PROVE  IInv'
<1>1. /\ PlanTypeOK /\ pc[p] = "write plan"
      /\ sources' = sources /\ config' = config /\ weights' = weights
      /\ sidecar' = sidecar /\ stored' = stored /\ seen' = seen /\ hash' = hash /\ asof' = asof
      /\ overlap' = overlap /\ broken' = broken /\ disturbed' = disturbed
      /\ calls' = calls /\ edits' = edits
      /\ \/ plan' = seen[p]
         \/ plan \in Manifests \ {seen[p]} /\ plan' = CutFile
      /\ Proceed(p, "write plan")
  BY DEF IInv, WritePlan, sources, history, bounds
<1>2. /\ pc' \in [Procs -> Places] /\ pc'[p] = "hash" /\ outcome' = outcome
      /\ \A q \in Procs : q # p => pc'[q] = pc[q]
  BY <1>1, Proceeds, SaveOrder DEF PlanTypeOK, Places, Regenerates, Saves, Written
<1>3. ~disturbed => plan' = sources
  BY <1>1, Apart DEF IInv, SaveInv, Saves, Written
<1>4. PlanTypeOK'
  BY <1>1, <1>2 DEF PlanTypeOK
<1>5. CallInv'
  <2>1. plan' # NoFile
    BY <1>1, Apart DEF PlanTypeOK
  <2>2. QED
    BY <1>1, <1>2, <2>1 DEF IInv, CallInv, Written
<1>6. SaveInv'
  BY <1>1, <1>2, <1>3, SourcesType DEF IInv, SaveInv, Saves, Written
<1>7. FitInv'
  BY <1>1, <1>2, <1>3, SourcesType, Apart DEF FitInv, Mismatch, Regenerates, Saves, Written
<1>8. ValidInv'
  BY <1>1, <1>2, <1>3 DEF IInv, CallInv, ValidInv
<1>9. OweInv'
  BY <1>1, <1>2, <1>3, SourcesType DEF IInv, CallInv, OweInv, OwesSidecar, Mismatch
<1>10. HealInv'
  BY <1>1, <1>2, <1>3, SourcesType DEF IInv, CallInv, HealInv, Regenerates, Saves, Written
<1>11. QED
  BY <1>4, <1>5, <1>6, <1>7, <1>8, <1>9, <1>10 DEF IInv

LEMMA HashSourcesInv ==
  ASSUME IInv, NEW p \in Procs, HashSources(p)
  PROVE  IInv'
<1>1. /\ PlanTypeOK /\ pc[p] = "hash"
      /\ sources' = sources /\ config' = config /\ weights' = weights
      /\ plan' = plan /\ sidecar' = sidecar /\ stored' = stored /\ seen' = seen /\ asof' = asof
      /\ overlap' = overlap /\ broken' = broken /\ disturbed' = disturbed
      /\ calls' = calls /\ edits' = edits
      /\ hash' = [hash EXCEPT ![p] = config] /\ Proceed(p, "hash")
  BY DEF IInv, HashSources, HashOf, sources, files, history, bounds
<1>2. /\ pc' \in [Procs -> Places] /\ pc'[p] = "cut sidecar" /\ outcome' = outcome
      /\ hash' \in [Procs -> Configs] /\ hash'[p] = config
      /\ \A q \in Procs : q # p => pc'[q] = pc[q] /\ hash'[q] = hash[q]
  <2>1. Follows("hash") = "cut sidecar" /\ "cut sidecar" \in Places
    BY SaveOrder DEF Places, Regenerates, Saves, Written
  <2>2. /\ pc' \in [Procs -> Places] /\ pc'[p] = "cut sidecar" /\ outcome' = outcome
        /\ \A q \in Procs : q # p => pc'[q] = pc[q]
    BY <1>1, <2>1, Proceeds
  <2>3. QED
    BY <1>1, <2>2 DEF PlanTypeOK
<1>3. PlanTypeOK'
  BY <1>1, <1>2 DEF PlanTypeOK
<1>4. CallInv'
  BY <1>1, <1>2 DEF IInv, CallInv, Written
<1>5. SaveInv'
  BY <1>1, <1>2 DEF IInv, SaveInv, Saves, Written
<1>6. FitInv'
  BY <1>1, <1>2 DEF IInv, FitInv, Mismatch, Regenerates, Saves, Written
<1>7. ValidInv'
  BY <1>1, <1>2 DEF IInv, ValidInv
<1>8. OweInv'
  <2>1. \A q \in Procs : OwesPlan(q) => OwesPlan(q)'
    BY <1>1, <1>2 DEF OwesPlan
  <2>2. \A q \in Procs : OwesSidecar(q) => OwesSidecar(q)'
    BY <1>1, <1>2 DEF OwesSidecar
  <2>3. QED
    BY <1>1, <2>1, <2>2, DebtStays DEF IInv
<1>9. HealInv'
  BY <1>1, <1>2, Apart DEF IInv, CallInv, HealInv, PlanTypeOK, Regenerates, Saves, Written
<1>10. QED
  BY <1>3, <1>4, <1>5, <1>6, <1>7, <1>8, <1>9 DEF IInv

LEMMA CutSidecarInv ==
  ASSUME IInv, NEW p \in Procs, CutSidecar(p)
  PROVE  IInv'
<1>1. /\ PlanTypeOK /\ pc[p] = "cut sidecar"
      /\ sources' = sources /\ config' = config /\ weights' = weights
      /\ plan' = plan /\ stored' = stored /\ seen' = seen /\ hash' = hash /\ asof' = asof
      /\ overlap' = overlap /\ broken' = broken /\ disturbed' = disturbed
      /\ calls' = calls /\ edits' = edits
      /\ sidecar' = CutFile /\ Proceed(p, "cut sidecar")
  BY DEF IInv, CutSidecar, sources, history, bounds
<1>2. /\ pc' \in [Procs -> Places] /\ pc'[p] = "write sidecar" /\ outcome' = outcome
      /\ \A q \in Procs : q # p => pc'[q] = pc[q]
  BY <1>1, Proceeds, SaveOrder DEF PlanTypeOK, Places, Regenerates, Saves, Written
<1>3. PlanTypeOK'
  BY <1>1, <1>2 DEF PlanTypeOK, Hashes
<1>4. CallInv'
  BY <1>1, <1>2 DEF IInv, CallInv, Written
<1>5. SaveInv'
  BY <1>1, <1>2 DEF IInv, SaveInv, Saves, Written
<1>6. FitInv'
  BY <1>1, <1>2, Apart DEF IInv, SaveInv, FitInv, Mismatch, Regenerates, Saves, Written
<1>7. ValidInv'
  BY <1>1, <1>2 DEF IInv, ValidInv
<1>8. OweInv'
  BY <1>1, <1>2 DEF IInv, CallInv, OweInv, OwesPlan, OwesSidecar, Mismatch
<1>9. HealInv'
  BY <1>1, <1>2, Apart DEF IInv, CallInv, HealInv, PlanTypeOK, Regenerates, Saves, Written
<1>10. QED
  BY <1>3, <1>4, <1>5, <1>6, <1>7, <1>8, <1>9 DEF IInv

LEMMA WriteSidecarInv ==
  ASSUME IInv, NEW p \in Procs, WriteSidecar(p)
  PROVE  IInv'
<1>1. /\ PlanTypeOK /\ pc[p] = "write sidecar"
      /\ sources' = sources /\ config' = config /\ weights' = weights
      /\ plan' = plan /\ stored' = stored /\ seen' = seen /\ hash' = hash /\ asof' = asof
      /\ overlap' = overlap /\ broken' = broken /\ disturbed' = disturbed
      /\ calls' = calls /\ edits' = edits
      /\ sidecar' = hash[p] /\ Proceed(p, "write sidecar")
  BY DEF IInv, WriteSidecar, sources, history, bounds
<1>2. /\ pc' \in [Procs -> Places] /\ pc'[p] = "idle"
      /\ outcome' \in [Procs -> {"none", "loaded", "saved", "error", "failed"}]
      /\ outcome'[p] = "saved"
      /\ \A q \in Procs : q # p => pc'[q] = pc[q] /\ outcome'[q] = outcome[q]
  BY <1>1, Returned, SaveOrder DEF Proceed
<1>3. ~disturbed => ~Mismatch'
  <2>1. ~disturbed => plan \in {CutFile, sources} /\ sidecar' = config
    BY <1>1 DEF IInv, SaveInv, Saves, Written
  <2>2. QED
    BY <1>1, <2>1, SourcesType, Apart DEF Mismatch
<1>4. PlanTypeOK'
  BY <1>1, <1>2 DEF PlanTypeOK, Hashes
<1>5. CallInv'
  BY <1>1, <1>2 DEF IInv, CallInv, Written
<1>6. SaveInv'
  BY <1>1, <1>2 DEF IInv, SaveInv, Saves, Written
<1>7. FitInv'
  BY <1>1, <1>2, <1>3 DEF IInv, FitInv
<1>8. ValidInv'
  BY <1>1, <1>2 DEF IInv, ValidInv
<1>9. OweInv'
  BY <1>1, <1>2, <1>3 DEF IInv, OweInv, OwesPlan
<1>10. HealInv'
  BY <1>1, <1>2, Apart DEF IInv, CallInv, HealInv, PlanTypeOK, Regenerates, Saves, Written
<1>11. QED
  BY <1>4, <1>5, <1>6, <1>7, <1>8, <1>9, <1>10 DEF IInv

LEMMA FailInv ==
  ASSUME IInv, NEW p \in Procs, Fail(p)
  PROVE  IInv'
<1>1. /\ PlanTypeOK /\ pc[p] # "idle"
      /\ sources' = sources /\ config' = config /\ weights' = weights
      /\ plan' = plan /\ sidecar' = sidecar /\ stored' = stored /\ seen' = seen /\ hash' = hash
      /\ overlap' = overlap /\ disturbed' = disturbed
      /\ broken' = (broken \/ pc[p] \in Regenerates)
      /\ calls' = calls /\ edits' = edits
      /\ Return(p, "failed") /\ asof' = [asof EXCEPT ![p] = {}]
  BY RegeneratingIs DEF IInv, Fail, sources, files, bounds
<1>2. /\ pc' \in [Procs -> Places] /\ pc'[p] = "idle"
      /\ outcome' \in [Procs -> {"none", "loaded", "saved", "error", "failed"}]
      /\ outcome'[p] = "failed"
      /\ \A q \in Procs : q # p => /\ pc'[q] = pc[q] /\ outcome'[q] = outcome[q]
                                   /\ asof'[q] = asof[q]
  BY <1>1, Returned DEF PlanTypeOK
<1>3. PlanTypeOK'
  BY <1>1, <1>2 DEF PlanTypeOK
<1>4. CallInv'
  BY <1>1, <1>2 DEF IInv, CallInv, Written
<1>5. SaveInv'
  BY <1>1, <1>2 DEF IInv, SaveInv, Saves, Written
<1>6. FitInv'
  BY <1>1, <1>2 DEF IInv, FitInv, Mismatch, Regenerates, Saves, Written
<1>7. ValidInv'
  BY <1>1, <1>2 DEF IInv, ValidInv
<1>8. OweInv'
  <2>1. \A q \in Procs : OwesPlan(q) => OwesPlan(q)'
    BY <1>1, <1>2 DEF OwesPlan
  <2>2. \A q \in Procs : OwesSidecar(q) => OwesSidecar(q)'
    BY <1>1, <1>2 DEF OwesSidecar
  <2>3. QED
    BY <1>1, <2>1, <2>2, DebtStays DEF IInv
<1>9. HealInv'
  <2>1. SUFFICES ASSUME ~disturbed, ~overlap PROVE HealInv'
    BY <1>1 DEF HealInv
  <2>2. plan' \notin Manifests => sidecar' # config'
    BY <1>1, <2>1 DEF IInv, HealInv
  <2>3. ASSUME NEW q \in Procs, q # p
        PROVE  /\ pc'[q] \in Regenerates \ {"write sidecar"} => sidecar' # config'
               /\ pc'[q] \in {"hash", "cut sidecar", "write sidecar"} => plan' \in Manifests
               /\ pc'[q] = "validate" => stored'[q] = sidecar'
               /\ pc'[q] = "read" => plan' \in Manifests
               /\ outcome'[q] # "error"
    BY <1>1, <1>2, <2>1, <2>3 DEF IInv, HealInv
  <2>4. "idle" \notin Regenerates
    BY DEF Regenerates, Saves, Written
  <2>5. QED
    BY <1>2, <2>2, <2>3, <2>4 DEF HealInv
<1>10. QED
  BY <1>3, <1>4, <1>5, <1>6, <1>7, <1>8, <1>9 DEF IInv

LEMMA EditInv == IInv /\ Edit => IInv'
<1> SUFFICES ASSUME IInv, Edit PROVE IInv'
  OBVIOUS
<1>1. /\ PlanTypeOK /\ config' \in Configs /\ weights' \in Weights
      /\ plan' = plan /\ sidecar' = sidecar /\ stored' = stored /\ seen' = seen /\ hash' = hash
      /\ pc' = pc /\ outcome' = outcome
      /\ overlap' = overlap /\ broken' = broken /\ disturbed' \in BOOLEAN
      /\ calls' = calls /\ edits' = edits + 1
      /\ asof' = [p \in Procs |-> IF pc[p] = "read" THEN asof[p] \cup {sources'} ELSE asof[p]]
  BY DEF IInv, PlanTypeOK, Edit, files
\* An edit that does not disturb: the sources change while nothing rests on them.
<1>2. ~disturbed' =>
        /\ ~disturbed /\ ~broken /\ weights' = weights
        /\ \A p \in Procs : pc[p] \notin Regenerates \cup {"validate"}
  BY RegeneratingIs DEF Edit
<1>3. sources' \in Manifests
  BY <1>1 DEF sources, Manifests
<1>4. PlanTypeOK'
  BY <1>1, <1>3 DEF PlanTypeOK
<1>5. CallInv'
  BY <1>1 DEF IInv, CallInv
<1>6. SaveInv'
  BY <1>1, <1>2 DEF IInv, SaveInv, Regenerates, Saves, Written
<1>7. ~disturbed' => ~Mismatch /\ plan # CutFile
  BY <1>1, <1>2 DEF IInv, FitInv, Regenerates, Saves, Written
<1>8. FitInv'
  BY <1>1, <1>7 DEF FitInv, Mismatch
<1>9. ValidInv'
  BY <1>1, <1>2 DEF IInv, ValidInv
<1>10. OweInv'
  BY <1>1, <1>2, <1>7 DEF IInv, OweInv, OwesPlan, Mismatch
<1>11. HealInv'
  <2>1. ~disturbed' /\ plan \notin Manifests => sidecar # config'
    BY <1>1, <1>7, Apart DEF IInv, CallInv, PlanTypeOK
  <2>2. QED
    BY <1>1, <1>2, <2>1 DEF IInv, HealInv, Regenerates, Saves, Written
<1>12. QED
  BY <1>4, <1>5, <1>6, <1>8, <1>9, <1>10, <1>11 DEF IInv

LEMMA StepInv == IInv /\ [Next]_vars => IInv'
<1> SUFFICES ASSUME IInv, [Next]_vars PROVE IInv'
  OBVIOUS
<1>1. CASE Edit
  BY <1>1, EditInv
<1>2. ASSUME NEW p \in Procs, Step(p) PROVE IInv'
  BY <1>2, BeginInv, ReadSidecarInv, ValidateInv, ReadPlanInv, ReadConfigInv, ReadHeadersInv,
     CutPlanInv, WritePlanInv, HashSourcesInv, CutSidecarInv, WriteSidecarInv, FailInv DEF Step
<1>3. CASE UNCHANGED vars
  <2>1. /\ config' = config /\ weights' = weights /\ sources' = sources
        /\ plan' = plan /\ sidecar' = sidecar /\ pc' = pc /\ stored' = stored /\ seen' = seen
        /\ hash' = hash /\ asof' = asof /\ outcome' = outcome
        /\ overlap' = overlap /\ broken' = broken /\ disturbed' = disturbed
        /\ edits' = edits /\ calls' = calls
    BY <1>3 DEF vars, sources, files, local, history, bounds
  <2>2. PlanTypeOK' /\ CallInv'
    BY <2>1 DEF IInv, PlanTypeOK, CallInv
  <2>3. SaveInv' /\ FitInv'
    BY <2>1 DEF IInv, SaveInv, FitInv, Mismatch
  <2>4. ValidInv' /\ OweInv' /\ HealInv'
    BY <2>1 DEF IInv, ValidInv, OweInv, HealInv, OwesPlan, OwesSidecar, Mismatch
  <2>5. QED
    BY <2>2, <2>3, <2>4 DEF IInv
<1>4. QED
  BY <1>1, <1>2, <1>3 DEF Next

LEMMA Always == Spec => []IInv
BY InitInv, StepInv, PTL DEF Spec

-----------------------------------------------------------------------------
(* The theorems.                                                           *)

\* The state of ensure_plan's callers and of the files they share stays
\* well-formed.
THEOREM PlanTypes == Spec => []PlanTypeOK
<1>1. IInv => PlanTypeOK
  BY DEF IInv
<1>2. QED
  BY <1>1, Always, PTL

\* load_plan: the plan it reads after validate_hash matched is one of the
\* sources there have been since, if no edit disturbed the cache.
THEOREM FreshUnlessDisturbed == Spec => []StaleOnlyIfDisturbed
<1>1. IInv => StaleOnlyIfDisturbed
  BY DEF IInv, ValidInv, StaleOnlyIfDisturbed, ReadsValidated
<1>2. QED
  BY <1>1, Always, PTL

\* save_plan: wherever a lone process died in it, no later call of
\* ensure_plan reads a plan that does not parse.
THEOREM CrashesHeal == Spec => []CrashHeals
<1>1. IInv => CrashHeals
  BY DEF IInv, HealInv, CrashHeals
<1>2. QED
  BY <1>1, Always, PTL

\* save_plan by several processes: when the last of them has returned with a
\* plan, the two files belong together.
THEOREM Settled == Spec => []CacheSettles
<1>1. IInv => CacheSettles
  <2> SUFFICES ASSUME IInv, ~disturbed,
                      \A p \in Procs : pc[p] = "idle" /\ outcome[p] \in {"loaded", "saved"}
               PROVE  plan \in Manifests /\ sidecar = HashOf(plan[1], plan[2])
    BY DEF CacheSettles
  <2>1. \A p \in Procs : ~OwesPlan(p) /\ ~OwesSidecar(p)
    BY DEF OwesPlan, OwesSidecar
  <2>2. QED
    BY <2>1 DEF IInv, OweInv, Mismatch, HashOf
<1>2. QED
  BY <1>1, Always, PTL

-----------------------------------------------------------------------------
(* Engine plans.                                                           *)

\* What detect_ops finds for each family of models, whatever else it finds.
LEMMA OpsOfFamily ==
  ASSUME NEW c \in ModelConfigs, NEW t \in RawTensors
  PROVE  /\ "silu" \in DetectOps(c, t)
         /\ c.family # "mamba" => {"rope", "flash_attn_decode", "swiglu"} \subseteq DetectOps(c, t)
         /\ c.family = "mamba" => {"mamba2_scan", "conv1d"} \subseteq DetectOps(c, t)
         /\ c.family = "ornith" => {"fused_gdn_step", "conv1d"} \subseteq DetectOps(c, t)
         /\ c.experts > 0 => "moe_routing" \in DetectOps(c, t)
<1>1. BaseOps(c.family) \subseteq DetectOps(c, t)
  BY Zenon DEF DetectOps
<1>2. /\ "silu" \in BaseOps(c.family)
      /\ c.family # "mamba" => {"rope", "flash_attn_decode", "swiglu"} \subseteq BaseOps(c.family)
      /\ c.family = "mamba" => {"mamba2_scan", "conv1d"} \subseteq BaseOps(c.family)
      /\ c.family = "ornith" => {"fused_gdn_step", "conv1d"} \subseteq BaseOps(c.family)
  BY DEF BaseOps
<1>3. c.experts > 0 => "moe_routing" \in DetectOps(c, t)
  BY DEF DetectOps
<1>4. QED
  BY <1>1, <1>2, <1>3

\* Where classify_layers puts a layer.
LEMMA LayerKind ==
  ASSUME NEW c \in ModelConfigs, NEW i \in 1 .. c.layers
  PROVE  LET kinds == ClassifyLayers(c)
         IN  /\ kinds.total = c.layers
             /\ i - 1 \in kinds.gdn => c.family = "ornith"
             /\ i - 1 \notin kinds.gdn =>
                  (i - 1 \in kinds.attention <=> c.family # "mamba")
             /\ i - 1 \in kinds.moe => c.experts # 0
<1>1. c.layers \in Nat
  BY LoadAssumption DEF RawConfig
<1>2. i - 1 \in 0 .. c.layers - 1 /\ c.layers # 0
  BY <1>1
<1>3. QED
  BY <1>2 DEF ClassifyLayers

LEMMA EveryLayerCovered ==
  ASSUME NEW c \in ModelConfigs, NEW t \in RawTensors, NEW i \in 1 .. c.layers
  PROVE  LET m == Introspect(c, t)
         IN  /\ CoreKernels(CoreOp(m, i - 1)) \subseteq m.ops
             /\ MlpKernels(MlpOp(m, i - 1)) \subseteq m.ops
             /\ CoreOp(m, i - 1) = "Mamba2" => c.family = "mamba"
<1> DEFINE m == Introspect(c, t)
           ops == DetectOps(c, t)
           kinds == ClassifyLayers(c)
<1>1. /\ m.layers = kinds /\ m.ops = ops
      /\ m.attention = IF ops \cap {"flash_attn_decode", "rope"} = {} THEN "none" ELSE AttnType(c)
      /\ m.mlp = IF "swiglu" \in ops THEN "swiglu" ELSE IF "silu" \in ops THEN "silu" ELSE "gelu"
      /\ m.moe = (c.experts > 0) /\ m.gdn = c.linear
  BY DEF Introspect
<1>2. c.experts \in Nat /\ c.linear \in BOOLEAN
  BY LoadAssumption DEF RawConfig
<1> HIDE DEF m, ops, kinds
<1>3. AttnType(c) # "none"
  BY DEF AttnType
<1>4. /\ CoreKernels(CoreOp(m, i - 1)) \subseteq m.ops
      /\ CoreOp(m, i - 1) = "Mamba2" => c.family = "mamba"
  <2>1. CASE i - 1 \in kinds.gdn
    <3>1. c.family = "ornith"
      BY <2>1, LayerKind DEF kinds
    <3>2. CoreOp(m, i - 1) \in {"GatedDeltaNet", "LinearAttention"}
      BY <1>1, <1>2, <2>1 DEF CoreOp
    <3>3. CoreKernels(CoreOp(m, i - 1)) = {"fused_gdn_step", "conv1d"} /\ CoreOp(m, i - 1) # "Mamba2"
      BY <3>2 DEF CoreKernels
    <3>4. {"fused_gdn_step", "conv1d"} \subseteq ops
      BY <3>1, OpsOfFamily DEF ops
    <3>5. QED
      BY <1>1, <3>3, <3>4
  <2>2. CASE i - 1 \notin kinds.gdn /\ c.family # "mamba"
    <3>1. i - 1 \in kinds.attention
      BY <2>2, LayerKind DEF kinds
    <3>2. {"rope", "flash_attn_decode"} \subseteq ops
      BY <2>2, OpsOfFamily DEF ops
    <3>3. CoreOp(m, i - 1) = "Attention"
      BY <1>1, <1>3, <2>2, <3>1, <3>2 DEF CoreOp
    <3>4. CoreKernels("Attention") = {"rope", "flash_attn_decode"}
      BY DEF CoreKernels
    <3>5. QED
      BY <1>1, <3>2, <3>3, <3>4
  <2>3. CASE i - 1 \notin kinds.gdn /\ c.family = "mamba"
    <3>1. i - 1 \notin kinds.attention
      BY <2>3, LayerKind DEF kinds
    <3>2. {"mamba2_scan", "conv1d"} \subseteq ops
      BY <2>3, OpsOfFamily DEF ops
    <3>3. CoreOp(m, i - 1) = "Mamba2"
      BY <1>1, <2>3, <3>1 DEF CoreOp
    <3>4. CoreKernels("Mamba2") = {"mamba2_scan", "conv1d"}
      BY DEF CoreKernels
    <3>5. QED
      BY <1>1, <2>3, <3>2, <3>3, <3>4
  <2>4. QED
    BY <2>1, <2>2, <2>3
<1>5. MlpKernels(MlpOp(m, i - 1)) \subseteq m.ops
  <2>1. CASE i - 1 \in kinds.moe /\ m.moe
    <3>1. c.experts > 0
      BY <1>1, <2>1
    <3>2. "moe_routing" \in ops
      BY <3>1, OpsOfFamily DEF ops
    <3>3. MlpOp(m, i - 1) = "MoE"
      BY <1>1, <2>1 DEF MlpOp
    <3>4. QED
      BY <1>1, <3>2, <3>3 DEF MlpKernels
  <2>2. CASE ~(i - 1 \in kinds.moe /\ m.moe)
    <3>1. MlpOp(m, i - 1) = m.mlp
      BY <1>1, <2>2 DEF MlpOp
    <3>2. "silu" \in ops
      BY OpsOfFamily DEF ops
    <3>3. m.mlp \in ops /\ m.mlp # "MoE"
      BY <1>1, <3>2
    <3>4. QED
      BY <1>1, <3>1, <3>3 DEF MlpKernels
  <2>3. QED
    BY <2>1, <2>2
<1>6. QED
  BY <1>4, <1>5 DEF m

LEMMA PlanCovers ==
  ASSUME NEW c \in ModelConfigs, NEW t \in RawTensors
  PROVE  LET engine == FromManifest(Introspect(c, t))
         IN  \A i \in DOMAIN engine.layers :
               /\ CoreKernels(engine.layers[i].core) \subseteq engine.required_kernels
               /\ MlpKernels(engine.layers[i].mlp) \subseteq engine.required_kernels
               /\ engine.layers[i].core = "Mamba2" => c.family = "mamba"
<1> DEFINE m == Introspect(c, t)
           engine == FromManifest(m)
<1>1. m.layers.total = c.layers
  BY DEF Introspect, ClassifyLayers
<1> HIDE DEF m
<1>2. /\ engine.required_kernels = m.ops
      /\ DOMAIN engine.layers = 1 .. c.layers
      /\ \A i \in 1 .. c.layers :
           /\ engine.layers[i].core = CoreOp(m, i - 1)
           /\ engine.layers[i].mlp = MlpOp(m, i - 1)
  BY <1>1 DEF FromManifest
<1> HIDE DEF engine
<1>3. \A i \in 1 .. c.layers :
        /\ CoreKernels(CoreOp(m, i - 1)) \subseteq m.ops
        /\ MlpKernels(MlpOp(m, i - 1)) \subseteq m.ops
        /\ CoreOp(m, i - 1) = "Mamba2" => c.family = "mamba"
  BY EveryLayerCovered DEF m
<1>4. QED
  BY <1>2, <1>3 DEF engine, m

\* The three functions that find the kinds of layers, the operations a model
\* requires and the kernels of an engine plan agree, for any config.
THEOREM KernelsCovered == Spec => []KernelsCoverLayers
<1>1. KernelsCoverLayers
  BY PlanCovers DEF KernelsCoverLayers
<1>2. QED
  BY <1>1, PTL

-----------------------------------------------------------------------------
(* Cutting fused rows apart.                                               *)

LEMMA CutIs ==
  ASSUME NEW S, NEW r \in Seq(S), NEW t \in Seq(S), NEW n \in Nat,
         n + Len(t) <= Len(r), \A i \in 1 .. Len(t) : r[n + i] = t[i]
  PROVE  SubSeq(r, n + 1, n + Len(t)) = t
<1>1. Len(r) \in Nat /\ Len(t) \in Nat /\ \A i \in 1 .. Len(r) : r[i] \in S
  BY LenProperties
<1>2. \A i \in n + 1 .. n + Len(t) : r[i] \in S
  BY <1>1
<1>3. n + 1 \in Int /\ n + Len(t) \in Int
  BY <1>1
<1> DEFINE s == SubSeq(r, n + 1, n + Len(t))
<1>4. /\ s \in Seq(S)
      /\ Len(s) = IF n + 1 <= n + Len(t) THEN (n + Len(t)) - (n + 1) + 1 ELSE 0
      /\ \A i \in 1 .. (n + Len(t)) - (n + 1) + 1 : s[i] = r[n + 1 + i - 1]
  BY <1>2, <1>3, SubSeqProperties
<1> HIDE DEF s
<1>5. Len(s) = Len(t)
  BY <1>1, <1>4
<1>6. \A i \in 1 .. Len(t) : s[i] = t[i]
  <2> SUFFICES ASSUME NEW i \in 1 .. Len(t) PROVE s[i] = t[i]
    OBVIOUS
  <2>1. i \in 1 .. (n + Len(t)) - (n + 1) + 1 /\ n + 1 + i - 1 = n + i
    BY <1>1
  <2>2. s[i] = r[n + i]
    BY <1>4, <2>1
  <2>3. QED
    BY <2>2
<1>7. QED
  BY <1>4, <1>5, <1>6, SeqEqual DEF s

LEMMA CutTwo ==
  ASSUME NEW S, NEW a \in Seq(S), NEW b \in Seq(S)
  PROVE  /\ SubSeq(a \o b, 1, Len(a)) = a
         /\ SubSeq(a \o b, Len(a) + 1, Len(a) + Len(b)) = b
<1> DEFINE r == a \o b
<1>1. Len(a) \in Nat /\ Len(b) \in Nat
  BY LenProperties
<1>2. /\ r \in Seq(S) /\ Len(r) = Len(a) + Len(b)
      /\ \A i \in 1 .. Len(a) + Len(b) : r[i] = IF i <= Len(a) THEN a[i] ELSE b[i - Len(a)]
  BY ConcatProperties
<1> HIDE DEF r
<1>3. \A i \in 1 .. Len(a) : r[0 + i] = a[i]
  BY <1>1, <1>2
<1>4. \A i \in 1 .. Len(b) : r[Len(a) + i] = b[i]
  <2> SUFFICES ASSUME NEW i \in 1 .. Len(b) PROVE r[Len(a) + i] = b[i]
    OBVIOUS
  <2>1. /\ Len(a) + i \in 1 .. Len(a) + Len(b) /\ ~(Len(a) + i <= Len(a))
        /\ Len(a) + i - Len(a) = i
    BY <1>1
  <2>2. QED
    BY <1>2, <2>1
<1>5. SubSeq(r, 0 + 1, 0 + Len(a)) = a
  <2>1. 0 + Len(a) <= Len(r)
    BY <1>1, <1>2
  <2>2. QED
    BY <1>2, <1>3, <2>1, CutIs
<1>6. SubSeq(r, Len(a) + 1, Len(a) + Len(b)) = b
  <2>1. Len(a) + Len(b) <= Len(r)
    BY <1>1, <1>2
  <2>2. QED
    BY <1>1, <1>2, <1>4, <2>1, CutIs
<1>7. 0 + 1 = 1 /\ 0 + Len(a) = Len(a)
  BY <1>1
<1>8. QED
  BY <1>5, <1>6, <1>7 DEF r

LEMMA CutThree ==
  ASSUME NEW S, NEW a \in Seq(S), NEW b \in Seq(S), NEW c \in Seq(S)
  PROVE  /\ SubSeq(a \o b \o c, 1, Len(a)) = a
         /\ SubSeq(a \o b \o c, Len(a) + 1, Len(a) + Len(b)) = b
         /\ SubSeq(a \o b \o c, Len(a) + Len(b) + 1, Len(a) + Len(b) + Len(c)) = c
<1> DEFINE q == a \o b
           r == q \o c
<1>1. Len(a) \in Nat /\ Len(b) \in Nat /\ Len(c) \in Nat
  BY LenProperties
<1>2. /\ q \in Seq(S) /\ Len(q) = Len(a) + Len(b)
      /\ \A i \in 1 .. Len(a) + Len(b) : q[i] = IF i <= Len(a) THEN a[i] ELSE b[i - Len(a)]
  BY ConcatProperties
<1>3. SubSeq(r, Len(q) + 1, Len(q) + Len(c)) = c
  <2> HIDE DEF q
  <2>1. QED
    BY <1>2, CutTwo
<1>4. /\ r \in Seq(S) /\ Len(r) = Len(q) + Len(c)
      /\ \A i \in 1 .. Len(q) + Len(c) : r[i] = IF i <= Len(q) THEN q[i] ELSE c[i - Len(q)]
  <2>1. q \in Seq(S)
    BY <1>2
  <2> HIDE DEF q
  <2>2. /\ q \o c \in Seq(S) /\ Len(q \o c) = Len(q) + Len(c)
        /\ \A i \in 1 .. Len(q) + Len(c) :
             (q \o c)[i] = IF i <= Len(q) THEN q[i] ELSE c[i - Len(q)]
    BY <2>1, ConcatProperties
  <2>3. QED
    BY <2>2
<1> HIDE DEF q, r
<1>5. \A i \in 1 .. Len(a) + Len(b) : r[i] = q[i]
  BY <1>1, <1>2, <1>4
<1>6. \A i \in 1 .. Len(a) : r[0 + i] = a[i]
  BY <1>1, <1>2, <1>5
<1>7. \A i \in 1 .. Len(b) : r[Len(a) + i] = b[i]
  <2> SUFFICES ASSUME NEW i \in 1 .. Len(b) PROVE r[Len(a) + i] = b[i]
    OBVIOUS
  <2>1. /\ Len(a) + i \in 1 .. Len(a) + Len(b) /\ ~(Len(a) + i <= Len(a))
        /\ Len(a) + i - Len(a) = i
    BY <1>1
  <2>2. QED
    BY <1>2, <1>5, <2>1
<1>8. SubSeq(r, 0 + 1, 0 + Len(a)) = a
  <2>1. 0 + Len(a) <= Len(r)
    BY <1>1, <1>2, <1>4
  <2>2. QED
    BY <1>4, <1>6, <2>1, CutIs
<1>9. SubSeq(r, Len(a) + 1, Len(a) + Len(b)) = b
  <2>1. Len(a) + Len(b) <= Len(r)
    BY <1>1, <1>2, <1>4
  <2>2. QED
    BY <1>1, <1>4, <1>7, <2>1, CutIs
<1>10. 0 + 1 = 1 /\ 0 + Len(a) = Len(a)
  BY <1>1
<1>11. QED
  BY <1>2, <1>3, <1>8, <1>9, <1>10 DEF q, r

\* The rows a layer is meant to multiply with, and how many they are.
LEMMA RowsAre ==
  ASSUME NEW shape \in Shapes, NEW l, NEW part
  PROVE  LET T(m) == TrueRows(shape, l, m, part)
             nh == shape.heads * shape.dim
             nkv == shape.kv_heads * shape.dim
             S == {<<l, m, part, i>> :
                     m \in {"q_proj", "k_proj", "v_proj", "gate_proj", "up_proj"}, i \in Nat}
         IN  /\ nh \in Nat /\ nkv \in Nat /\ shape.ff \in Nat
             /\ T("q_proj") \in Seq(S) /\ Len(T("q_proj")) = nh
             /\ T("k_proj") \in Seq(S) /\ Len(T("k_proj")) = nkv
             /\ T("v_proj") \in Seq(S) /\ Len(T("v_proj")) = nkv
             /\ T("gate_proj") \in Seq(S) /\ Len(T("gate_proj")) = shape.ff
             /\ T("up_proj") \in Seq(S) /\ Len(T("up_proj")) = shape.ff
<1> DEFINE T(m) == TrueRows(shape, l, m, part)
           nh == shape.heads * shape.dim
           nkv == shape.kv_heads * shape.dim
           Five == {"q_proj", "k_proj", "v_proj", "gate_proj", "up_proj"}
           S == {<<l, m, part, i>> : m \in Five, i \in Nat}
<1>1. nh \in Nat /\ nkv \in Nat /\ shape.ff \in Nat
  BY LoadAssumption
<1>2. /\ Rows(shape, "q_proj") = nh /\ Rows(shape, "k_proj") = nkv
      /\ Rows(shape, "v_proj") = nkv /\ Rows(shape, "gate_proj") = shape.ff
      /\ Rows(shape, "up_proj") = shape.ff
  BY DEF Rows
<1>3. ASSUME NEW m \in Five, Rows(shape, m) \in Nat
      PROVE  T(m) \in Seq(S) /\ Len(T(m)) = Rows(shape, m)
  <2> DEFINE n == Rows(shape, m)
  <2>1. T(m) = [i \in 1 .. n |-> <<l, m, part, i>>]
    BY DEF TrueRows
  <2>2. \A i \in 1 .. n : <<l, m, part, i>> \in S
    BY <1>3
  <2> HIDE DEF S, n
  <2>3. [i \in 1 .. n |-> <<l, m, part, i>>] \in Seq(S) /\ Len([i \in 1 .. n |-> <<l, m, part, i>>]) = n
    BY <1>3, <2>2 DEF n
  <2>4. QED
    BY <2>1, <2>3 DEF n
<1> HIDE DEF nh, nkv, S, T
<1>4. QED
  BY <1>1, <1>2, <1>3 DEF nh, nkv, S, T

-----------------------------------------------------------------------------
(* Loading a checkpoint.                                                   *)

\* Fused rows, however they came about, are cut apart into the rows meant.
LEMMA SplitsRight ==
  ASSUME NEW shape \in Shapes, NEW l, NEW part, NEW qkv, NEW gup,
         qkv = FusedRows(shape, l, "qkv_proj", part),
         gup = FusedRows(shape, l, "gate_up_proj", part)
  PROVE  LET true == [m \in {"q_proj", "k_proj", "v_proj", "gate_proj", "up_proj"} |->
                        TrueRows(shape, l, m, part)]
         IN  /\ StaticSplits(shape, qkv, gup) = true
             /\ CompiledSplits(shape, qkv, gup) = true
<1> DEFINE T(m) == TrueRows(shape, l, m, part)
           nh == shape.heads * shape.dim
           nkv == shape.kv_heads * shape.dim
           ff == shape.ff
           S == {<<l, m, part, i>> :
                   m \in {"q_proj", "k_proj", "v_proj", "gate_proj", "up_proj"}, i \in Nat}
           true == [m \in {"q_proj", "k_proj", "v_proj", "gate_proj", "up_proj"} |-> T(m)]
           five == [q_proj |-> T("q_proj"), k_proj |-> T("k_proj"), v_proj |-> T("v_proj"),
                    gate_proj |-> T("gate_proj"), up_proj |-> T("up_proj")]
<1>1. /\ nh \in Nat /\ nkv \in Nat /\ ff \in Nat
      /\ T("q_proj") \in Seq(S) /\ Len(T("q_proj")) = nh
      /\ T("k_proj") \in Seq(S) /\ Len(T("k_proj")) = nkv
      /\ T("v_proj") \in Seq(S) /\ Len(T("v_proj")) = nkv
      /\ T("gate_proj") \in Seq(S) /\ Len(T("gate_proj")) = ff
      /\ T("up_proj") \in Seq(S) /\ Len(T("up_proj")) = ff
  BY RowsAre
<1>2. /\ qkv = T("q_proj") \o T("k_proj") \o T("v_proj")
      /\ gup = T("gate_proj") \o T("up_proj")
  BY DEF FusedRows
<1>3. true = five
  BY DEF true, five
<1> HIDE DEF S, true
<1>4. /\ StaticSplits(shape, qkv, gup) =
           [q_proj |-> SubSeq(qkv, 1, nh), k_proj |-> SubSeq(qkv, nh + 1, nh + nkv),
            v_proj |-> SubSeq(qkv, nh + nkv + 1, nh + 2 * nkv),
            gate_proj |-> SubSeq(gup, 1, ff), up_proj |-> SubSeq(gup, ff + 1, 2 * ff)]
      /\ CompiledSplits(shape, qkv, gup) =
           [q_proj |-> SubSeq(qkv, 0 + 1, 0 + nh), k_proj |-> SubSeq(qkv, nh + 1, nh + nkv),
            v_proj |-> SubSeq(qkv, nh + nkv + 1, nh + nkv + nkv),
            gate_proj |-> SubSeq(gup, 0 + 1, 0 + ff), up_proj |-> SubSeq(gup, ff + 1, ff + ff)]
  BY DEF StaticSplits, CompiledSplits, Dsplit, Starts
<1> HIDE DEF nh, nkv, ff, T
<1>5. /\ 2 * nkv = nkv + nkv /\ nh + 2 * nkv = nh + nkv + nkv /\ 2 * ff = ff + ff
      /\ 0 + 1 = 1 /\ 0 + nh = nh /\ 0 + ff = ff
  BY <1>1
<1>6. /\ SubSeq(qkv, 1, nh) = T("q_proj")
      /\ SubSeq(qkv, nh + 1, nh + nkv) = T("k_proj")
      /\ SubSeq(qkv, nh + nkv + 1, nh + nkv + nkv) = T("v_proj")
  <2>1. /\ SubSeq(qkv, 1, Len(T("q_proj"))) = T("q_proj")
        /\ SubSeq(qkv, Len(T("q_proj")) + 1, Len(T("q_proj")) + Len(T("k_proj"))) = T("k_proj")
        /\ SubSeq(qkv, Len(T("q_proj")) + Len(T("k_proj")) + 1,
                  Len(T("q_proj")) + Len(T("k_proj")) + Len(T("v_proj"))) = T("v_proj")
    BY <1>1, <1>2, CutThree, SMTT(30)
  <2>2. QED
    BY <1>1, <2>1
<1>7. /\ SubSeq(gup, 1, ff) = T("gate_proj")
      /\ SubSeq(gup, ff + 1, ff + ff) = T("up_proj")
  <2>1. /\ SubSeq(gup, 1, Len(T("gate_proj"))) = T("gate_proj")
        /\ SubSeq(gup, Len(T("gate_proj")) + 1,
                  Len(T("gate_proj")) + Len(T("up_proj"))) = T("up_proj")
    BY <1>1, <1>2, CutTwo
  <2>2. QED
    BY <1>1, <2>1
<1>8. StaticSplits(shape, qkv, gup) = five /\ CompiledSplits(shape, qkv, gup) = five
  BY <1>4, <1>5, <1>6, <1>7
<1>9. QED
  BY <1>3, <1>8 DEF true, T

\* Which tensors of a layer a checkpoint has, and which outside the layers.
LEMMA LayerNamesAre ==
  ASSUME NEW shape \in Shapes, NEW qkv \in Layouts, NEW gup \in Layouts, NEW head \in BOOLEAN,
         NEW m, NEW part \in Parts, NEW l \in 0 .. shape.layers - 1
  PROVE  <<l, m, part>> \in CheckpointNames(shape, qkv, gup, head) <=>
           m \in Matrices(qkv, gup) \/ (m \in Norms /\ part = "weight")
<1>1. l # Global
  BY LoadAssumption DEF Global
<1>2. QED
  BY <1>1 DEF CheckpointNames, Quantized

LEMMA GlobalNamesAre ==
  ASSUME NEW shape \in Shapes, NEW qkv \in Layouts, NEW gup \in Layouts, NEW head \in BOOLEAN,
         NEW m, NEW part \in Parts
  PROVE  <<Global, m, part>> \in CheckpointNames(shape, qkv, gup, head) <=>
           \/ m = "embed_tokens" \/ (m = "norm" /\ part = "weight")
           \/ head /\ m = "lm_head"
<1>1. Global \notin 0 .. shape.layers - 1
  BY LoadAssumption DEF Global
<1>2. QED
  BY <1>1 DEF CheckpointNames, Quantized

\* A projection is read whole, fused or put together.
LEMMA ProjectionsRight ==
  ASSUME NEW shape \in Shapes, NEW names, NEW l,
         NamesOf(Checkpoint(shape, names), l, "qkv_proj", QkvNames) \subseteq names,
         NamesOf(Checkpoint(shape, names), l, "gate_up_proj", GateUpNames) \subseteq names,
         NEW part \in Parts
  PROVE  LET w == LayerWeights(Checkpoint(shape, names), l)
         IN  /\ w.qkv_proj[part] = FusedRows(shape, l, "qkv_proj", part)
             /\ w.gate_up_proj[part] = FusedRows(shape, l, "gate_up_proj", part)
<1> DEFINE file == Checkpoint(shape, names)
           T(m) == TrueRows(shape, l, m, part)
<1>1. DOMAIN file = names
      /\ \A m : <<l, m, part>> \in names => file[<<l, m, part>>].rows = FusedRows(shape, l, m, part)
  BY DEF Checkpoint
<1>2. /\ \A m \in {"q_proj", "k_proj", "v_proj", "gate_proj", "up_proj"} :
           FusedRows(shape, l, m, part) = T(m)
      /\ FusedRows(shape, l, "qkv_proj", part) = T("q_proj") \o T("k_proj") \o T("v_proj")
      /\ FusedRows(shape, l, "gate_up_proj", part) = T("gate_proj") \o T("up_proj")
  BY DEF FusedRows
<1>3. /\ LayerWeights(file, l).qkv_proj = Projection(file, l, "qkv_proj", QkvNames)
      /\ LayerWeights(file, l).gate_up_proj = Projection(file, l, "gate_up_proj", GateUpNames)
  BY DEF LayerWeights
<1> HIDE DEF file, T
<1>4. Projection(file, l, "qkv_proj", QkvNames)[part] = FusedRows(shape, l, "qkv_proj", part)
  <2>1. CASE FromFused(file, l, "qkv_proj")
    <3>1. <<l, "qkv_proj", part>> \in names
      BY <2>1 DEF NamesOf, Quantized, file
    <3>2. QED
      BY <1>1, <2>1, <3>1 DEF Projection
  <2>2. CASE ~FromFused(file, l, "qkv_proj")
    <3>1. \A i \in DOMAIN QkvNames : <<l, QkvNames[i], part>> \in names
      BY <2>2 DEF NamesOf, Quantized, file
    <3>2. /\ <<l, "q_proj", part>> \in names /\ <<l, "k_proj", part>> \in names
          /\ <<l, "v_proj", part>> \in names
      BY <3>1 DEF QkvNames
    <3>3. Concatenated(file, l, QkvNames, part) = T("q_proj") \o T("k_proj") \o T("v_proj")
      <4>1. Concatenated(file, l, QkvNames, part) =
              file[<<l, "q_proj", part>>].rows \o file[<<l, "k_proj", part>>].rows
                \o file[<<l, "v_proj", part>>].rows
        <5>1. /\ Len(QkvNames) # 2 /\ QkvNames[1] = "q_proj"
              /\ QkvNames[2] = "k_proj" /\ QkvNames[3] = "v_proj"
          BY DEF QkvNames
        <5>2. QED
          BY <5>1 DEF Concatenated
      <4>2. QED
        BY <1>1, <1>2, <3>2, <4>1
    <3>4. QED
      BY <1>2, <2>2, <3>3 DEF Projection
  <2>3. QED
    BY <2>1, <2>2
<1>5. Projection(file, l, "gate_up_proj", GateUpNames)[part] = FusedRows(shape, l, "gate_up_proj", part)
  <2>1. CASE FromFused(file, l, "gate_up_proj")
    <3>1. <<l, "gate_up_proj", part>> \in names
      BY <2>1 DEF NamesOf, Quantized, file
    <3>2. QED
      BY <1>1, <2>1, <3>1 DEF Projection
  <2>2. CASE ~FromFused(file, l, "gate_up_proj")
    <3>1. \A i \in DOMAIN GateUpNames : <<l, GateUpNames[i], part>> \in names
      BY <2>2 DEF NamesOf, Quantized, file
    <3>2. <<l, "gate_proj", part>> \in names /\ <<l, "up_proj", part>> \in names
      BY <3>1 DEF GateUpNames
    <3>3. Concatenated(file, l, GateUpNames, part) = T("gate_proj") \o T("up_proj")
      <4>1. Concatenated(file, l, GateUpNames, part) =
              file[<<l, "gate_proj", part>>].rows \o file[<<l, "up_proj", part>>].rows
        <5>1. Len(GateUpNames) = 2 /\ GateUpNames[1] = "gate_proj" /\ GateUpNames[2] = "up_proj"
          BY DEF GateUpNames
        <5>2. QED
          BY <5>1 DEF Concatenated
      <4>2. QED
        BY <1>1, <1>2, <3>2, <4>1
    <3>4. QED
      BY <1>2, <2>2, <3>3 DEF Projection
  <2>3. QED
    BY <2>1, <2>2
<1>6. QED
  BY <1>3, <1>4, <1>5 DEF file

\* A checkpoint that is whole has every tensor the load asks for.
LEMMA WholeLoads ==
  ASSUME NEW shape \in Shapes, NEW qkv \in Layouts, NEW gup \in Layouts, NEW head \in BOOLEAN
  PROVE  LET names == CheckpointNames(shape, qkv, gup, head)
         IN  Needed(shape, Checkpoint(shape, names)) \subseteq names
<1> DEFINE names == CheckpointNames(shape, qkv, gup, head)
           file == Checkpoint(shape, names)
           layers == 0 .. shape.layers - 1
<1>1. DOMAIN file = names
  BY DEF Checkpoint
<1>2. \A m : \A part \in Parts, l \in layers :
        <<l, m, part>> \in names <=> m \in Matrices(qkv, gup) \/ (m \in Norms /\ part = "weight")
  BY LayerNamesAre
<1>3. \A m : \A part \in Parts :
        m = "embed_tokens" \/ (m = "norm" /\ part = "weight") => <<Global, m, part>> \in names
  BY GlobalNamesAre
<1> HIDE DEF file, names, layers
<1>4. "weight" \in Parts
  BY DEF Parts
<1>5. \A l \in layers, m \in Matrices(qkv, gup) : Quantized(l, m) \subseteq names
  BY <1>2 DEF Quantized
<1>6. \A l \in layers : NamesOf(file, l, "qkv_proj", QkvNames) \subseteq names
  <2> SUFFICES ASSUME NEW l \in layers PROVE NamesOf(file, l, "qkv_proj", QkvNames) \subseteq names
    OBVIOUS
  <2>1. CASE FromFused(file, l, "qkv_proj")
    <3>1. "qkv_proj" \in Matrices(qkv, gup)
      BY <1>1, <1>2, <1>4, <2>1 DEF FromFused, Norms
    <3>2. QED
      BY <1>5, <2>1, <3>1 DEF NamesOf
  <2>2. CASE ~FromFused(file, l, "qkv_proj")
    <3>1. "qkv_proj" \notin Matrices(qkv, gup)
      BY <1>1, <1>2, <1>4, <2>2 DEF FromFused
    <3>2. "apart" \in qkv
      BY <3>1 DEF Matrices, Layouts
    <3>3. \A i \in DOMAIN QkvNames : QkvNames[i] \in Matrices(qkv, gup)
      BY <3>2 DEF Matrices, QkvNames
    <3>4. QED
      BY <1>5, <2>2, <3>3 DEF NamesOf
  <2>3. QED
    BY <2>1, <2>2
<1>7. \A l \in layers : NamesOf(file, l, "gate_up_proj", GateUpNames) \subseteq names
  <2> SUFFICES ASSUME NEW l \in layers PROVE NamesOf(file, l, "gate_up_proj", GateUpNames) \subseteq names
    OBVIOUS
  <2>1. CASE FromFused(file, l, "gate_up_proj")
    <3>1. "gate_up_proj" \in Matrices(qkv, gup)
      BY <1>1, <1>2, <1>4, <2>1 DEF FromFused, Norms
    <3>2. QED
      BY <1>5, <2>1, <3>1 DEF NamesOf
  <2>2. CASE ~FromFused(file, l, "gate_up_proj")
    <3>1. "gate_up_proj" \notin Matrices(qkv, gup)
      BY <1>1, <1>2, <1>4, <2>2 DEF FromFused
    <3>2. "apart" \in gup
      BY <3>1 DEF Matrices, Layouts
    <3>3. \A i \in DOMAIN GateUpNames : GateUpNames[i] \in Matrices(qkv, gup)
      BY <3>2 DEF Matrices, GateUpNames
    <3>4. QED
      BY <1>5, <2>2, <3>3 DEF NamesOf
  <2>3. QED
    BY <2>1, <2>2
<1>8. \A l \in layers : Quantized(l, "o_proj") \subseteq names /\ Quantized(l, "down_proj") \subseteq names
  BY <1>5 DEF Matrices
<1>9. \A l \in layers, norm \in {"input_layernorm", "post_attention_layernorm"} :
        <<l, norm, "weight">> \in names
  BY <1>2, <1>4 DEF Norms
<1>10. Quantized(Global, "embed_tokens") \subseteq names /\ <<Global, "norm", "weight">> \in names
  BY <1>3, <1>4 DEF Quantized
<1> DEFINE Layer(l) ==
             NamesOf(file, l, "qkv_proj", QkvNames) \cup NamesOf(file, l, "gate_up_proj", GateUpNames)
               \cup Quantized(l, "o_proj") \cup Quantized(l, "down_proj")
               \cup {<<l, norm, "weight">> : norm \in {"input_layernorm", "post_attention_layernorm"}}
<1>11. \A l \in layers : Layer(l) \subseteq names
  BY <1>6, <1>7, <1>8, <1>9
<1>12. Needed(shape, file) =
         Quantized(Global, "embed_tokens") \cup {<<Global, "norm", "weight">>}
           \cup UNION {Layer(l) : l \in layers}
  BY Zenon DEF Needed, layers
<1> HIDE DEF Layer
<1>13. QED
  BY <1>10, <1>11, <1>12 DEF file, names

\* What a load is that does not fail, and what it found in the file.
LEMMA LoadIs ==
  ASSUME NEW shape \in Shapes, NEW names
  PROVE  LET file == Checkpoint(shape, names)
             loaded == LoadWeights(shape, file)
         IN  /\ Needed(shape, file) \subseteq names => loaded # Failed
             /\ loaded # Failed =>
                  /\ Needed(shape, file) \subseteq names
                  /\ loaded.layers = [l \in 0 .. shape.layers - 1 |-> LayerWeights(file, l)]
                  /\ loaded.embed = Stored(file, Global, "embed_tokens")
                  /\ loaded.lm_head =
                       [part \in {p \in Parts : <<Global, "lm_head", p>> \in names} |->
                          file[<<Global, "lm_head", part>>].rows]
<1> DEFINE file == Checkpoint(shape, names)
           loaded == LoadWeights(shape, file)
           layers == [l \in 0 .. shape.layers - 1 |-> LayerWeights(file, l)]
           embed == Stored(file, Global, "embed_tokens")
           lm_head == [part \in {p \in Parts : <<Global, "lm_head", p>> \in DOMAIN file} |->
                         file[<<Global, "lm_head", part>>].rows]
<1>1. DOMAIN file = names /\ \A n \in names : file[n].dtype \in Loadable
  BY DEF Checkpoint, Loadable, Mappable
<1>2. loaded = IF \/ \E n \in DOMAIN file : file[n].dtype \notin Loadable
                  \/ ~ (Needed(shape, file) \subseteq DOMAIN file)
               THEN Failed ELSE [layers |-> layers, embed |-> embed, lm_head |-> lm_head]
  BY Zenon DEF LoadWeights
<1> HIDE DEF file, loaded, layers, embed, lm_head
<1>3. [layers |-> layers, embed |-> embed, lm_head |-> lm_head] # Failed
  BY DEF Failed
<1>4. /\ Needed(shape, file) \subseteq names => loaded # Failed
      /\ loaded # Failed =>
           /\ Needed(shape, file) \subseteq names
           /\ loaded.layers = layers /\ loaded.embed = embed /\ loaded.lm_head = lm_head
  BY <1>1, <1>2, <1>3
<1>5. QED
  BY <1>1, <1>4, Zenon DEF file, loaded, layers, embed, lm_head

\* The head of a load is the one stored, if every part of it is, else the embedding.
LEMMA HeadRight ==
  ASSUME NEW shape \in Shapes, NEW qkv \in Layouts, NEW gup \in Layouts, NEW head \in BOOLEAN,
         NEW lost,
         LoadWeights(shape, Checkpoint(shape, CheckpointNames(shape, qkv, gup, head) \ lost)) # Failed
  PROVE  RightHead(shape, head /\ lost \cap Quantized(Global, "lm_head") = {},
           LoadWeights(shape, Checkpoint(shape, CheckpointNames(shape, qkv, gup, head) \ lost)))
<1> DEFINE names == CheckpointNames(shape, qkv, gup, head) \ lost
           file == Checkpoint(shape, names)
           loaded == LoadWeights(shape, file)
           whole == head /\ lost \cap Quantized(Global, "lm_head") = {}
           Stands(p) == <<Global, "lm_head", p>> \in names
<1>1. /\ Needed(shape, file) \subseteq names
      /\ loaded.embed = Stored(file, Global, "embed_tokens")
      /\ loaded.lm_head = [part \in {p \in Parts : Stands(p)} |->
                             file[<<Global, "lm_head", part>>].rows]
  BY LoadIs
<1>2. whole <=> \A p \in Parts : Stands(p)
  BY GlobalNamesAre DEF Quantized, Parts
<1>3. \A p \in Parts : <<Global, "embed_tokens", p>> \in names
  BY <1>1 DEF Needed, Quantized
<1>4. \A n \in names : file[n].rows = FusedRows(shape, n[1], n[2], n[3])
  BY DEF Checkpoint
<1>5. \A p \in Parts :
        /\ FusedRows(shape, Global, "lm_head", p) = TrueRows(shape, Global, "lm_head", p)
        /\ FusedRows(shape, Global, "embed_tokens", p) = TrueRows(shape, Global, "embed_tokens", p)
  BY DEF FusedRows
<1> HIDE DEF names, file, loaded
<1>6. \A p \in Parts :
        /\ file[<<Global, "embed_tokens", p>>].rows = TrueRows(shape, Global, "embed_tokens", p)
        /\ Stands(p) => file[<<Global, "lm_head", p>>].rows = TrueRows(shape, Global, "lm_head", p)
  BY <1>3, <1>4, <1>5
<1>7. loaded.embed = [part \in Parts |-> TrueRows(shape, Global, "embed_tokens", part)]
  BY <1>1, <1>6 DEF Stored
<1> DEFINE found == {p \in Parts : Stands(p)}
<1>8. DOMAIN loaded.lm_head = found
  BY <1>1
<1>9. found = Parts <=> whole
  BY <1>2
<1>10. CASE whole
  <2>1. found = Parts
    BY <1>9, <1>10
  <2>2. loaded.lm_head = [part \in Parts |-> TrueRows(shape, Global, "lm_head", part)]
    BY <1>1, <1>6, <2>1
  <2>3. HeadUsed(loaded) = loaded.lm_head
    BY <1>8, <2>1 DEF HeadUsed
  <2>4. QED
    BY <1>10, <2>2, <2>3 DEF RightHead, loaded, file, names
<1>11. CASE ~whole
  <2>1. HeadUsed(loaded) = loaded.embed
    BY <1>8, <1>9, <1>11 DEF HeadUsed
  <2>2. QED
    BY <1>7, <1>11, <2>1 DEF RightHead, loaded, file, names
<1>12. QED
  BY <1>10, <1>11

\* The layers of a load multiply with the rows meant.
LEMMA LayersRight ==
  ASSUME NEW shape \in Shapes, NEW names, NEW l \in 0 .. shape.layers - 1,
         LoadWeights(shape, Checkpoint(shape, names)) # Failed
  PROVE  RightLayer(shape, l, LoadWeights(shape, Checkpoint(shape, names)).layers[l])
<1> DEFINE file == Checkpoint(shape, names)
           loaded == LoadWeights(shape, file)
           w == LayerWeights(file, l)
<1>1. /\ Needed(shape, file) \subseteq names
      /\ loaded.layers = [k \in 0 .. shape.layers - 1 |-> LayerWeights(file, k)]
  BY LoadIs, ZenonT(40)
<1>2. /\ NamesOf(file, l, "qkv_proj", QkvNames) \subseteq names
      /\ NamesOf(file, l, "gate_up_proj", GateUpNames) \subseteq names
  BY <1>1 DEF Needed
<1>3. ASSUME NEW part \in Parts
      PROVE  /\ w.qkv_proj[part] = FusedRows(shape, l, "qkv_proj", part)
             /\ w.gate_up_proj[part] = FusedRows(shape, l, "gate_up_proj", part)
  BY <1>2, ProjectionsRight
<1> HIDE DEF w, loaded
<1>4. RightLayer(shape, l, w)
  BY <1>3, SplitsRight DEF RightLayer
<1>5. loaded.layers[l] = w
  BY <1>1 DEF w
<1>6. QED
  BY <1>4, <1>5 DEF loaded

\* A checkpoint that is whole loads, and one that loads is read as it was meant,
\* however its projections are stored and whichever tensor it has lost.
THEOREM LoadedRight == Spec => []LoadedAsStored
<1>1. ASSUME NEW shape \in Shapes, NEW qkv \in Layouts, NEW gup \in Layouts, NEW head \in BOOLEAN,
             NEW lost
      PROVE  LET names == CheckpointNames(shape, qkv, gup, head)
                 loaded == LoadWeights(shape, Checkpoint(shape, names \ lost))
             IN  /\ lost = {} => loaded # Failed
                 /\ loaded # Failed =>
                      /\ RightHead(shape, head /\ lost \cap Quantized(Global, "lm_head") = {}, loaded)
                      /\ \A l \in 0 .. shape.layers - 1 : RightLayer(shape, l, loaded.layers[l])
  <2> DEFINE names == CheckpointNames(shape, qkv, gup, head)
             loaded == LoadWeights(shape, Checkpoint(shape, names \ lost))
  <2>1. ASSUME lost = {} PROVE loaded # Failed
    <3>1. names \ lost = names
      BY <2>1
    <3>2. Needed(shape, Checkpoint(shape, names)) \subseteq names
      BY WholeLoads
    <3>3. QED
      BY <3>1, <3>2, LoadIs
  <2>2. ASSUME loaded # Failed
        PROVE  /\ RightHead(shape, head /\ lost \cap Quantized(Global, "lm_head") = {}, loaded)
               /\ \A l \in 0 .. shape.layers - 1 : RightLayer(shape, l, loaded.layers[l])
    BY <2>2, HeadRight, LayersRight
  <2>3. QED
    BY <2>1, <2>2
<1>2. LoadedAsStored
  <2> SUFFICES ASSUME NEW shape \in Shapes, NEW qkv \in Layouts, NEW gup \in Layouts,
                      NEW head \in BOOLEAN,
                      NEW lost \in {{}} \cup {{n} : n \in CheckpointNames(shape, qkv, gup, head)}
               PROVE  LET names == CheckpointNames(shape, qkv, gup, head)
                          loaded == LoadWeights(shape, Checkpoint(shape, names \ lost))
                      IN  /\ lost = {} => loaded # Failed
                          /\ loaded # Failed =>
                               /\ RightHead(shape, head /\ lost \cap Quantized(Global, "lm_head") = {}, loaded)
                               /\ \A l \in 0 .. shape.layers - 1 : RightLayer(shape, l, loaded.layers[l])
    BY Zenon DEF LoadedAsStored
  <2>1. QED
    BY <1>1
<1>3. QED
  BY <1>2, PTL
=============================================================================
