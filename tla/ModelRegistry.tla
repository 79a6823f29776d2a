---------------------------- MODULE ModelRegistry ----------------------------
(***************************************************************************)
(* Which directory `server.sh start SPEC' serves: resolve_model over the   *)
(* registry file and the dynamic scan, and `models scan', which rewrites   *)
(* the registry while models come and go.                                  *)
(*                                                                         *)
(* A model directory, and the spec "<org>/<name>" for it, is a record of   *)
(* its org and name.  Every path is under ENGINE_MLX_MODELS_DIR.           *)
(***************************************************************************)
EXTENDS Naturals, FiniteSets

CONSTANTS
  Orgs, Names,  \* <org>/<name> directories there may be
  Scans,        \* invocations of `models scan'
  None          \* no answer: an error, nothing found, no default

VARIABLES
  dirs,      \* the valid model directories (is_model_dir)
  registry,  \* the file: [kind, default, models]
  scan,      \* scan -> [at, models, default] of a running `models scan'
  chosen,    \* history: the default last chosen in a registry file
  fresh,     \* history: dirs is what the last completed scan found
  scanPast   \* history: which of "overlap", "cut" have happened

registryVars == <<dirs, registry, scan, chosen, fresh, scanPast>>

Dirs == [org : Orgs, name : Names]
Bare == [name : Names]
Path == [path : Dirs]
Default == [form |-> "default"]

Keys == Dirs \cup Bare

ASSUME RegistryAssumption == None \notin Keys

Specs == Keys \cup Path \cup {Default}

Called(n, ds) == {d \in ds : d.name = n}

-----------------------------------------------------------------------------
(* Reading.                                                                *)

\* Without a file, and with one jq cannot read, nothing is found.  A default
\* that is no key is taken for a path, relative to the models directory.
Lookup(spec, reg) ==
  LET At(key) == IF key \in DOMAIN reg.models THEN reg.models[key] ELSE None
  IN  CASE reg.kind # "json" -> None
        [] reg.kind = "json" /\ spec # Default -> At(spec)
        [] reg.kind = "json" /\ spec = Default ->
             IF reg.default = None \/ At(reg.default) # None
             THEN At(reg.default)
             ELSE reg.default

\* Matches of the dynamic scan; a unique one is the answer.
Matches(spec, ds) ==
  CASE spec \in Dirs -> ds \cap {spec}
    [] spec \in Bare -> Called(spec.name, ds)
    [] spec = Default -> {}

Scanned(spec, ds) ==
  IF Cardinality(Matches(spec, ds)) = 1
  THEN CHOOSE d \in Matches(spec, ds) : TRUE
  ELSE None

Valid(place, ds) == IF place \in ds THEN place ELSE None

Resolve(spec, reg, ds) ==
  IF spec \in Path THEN Valid(spec.path, ds)
  ELSE IF Lookup(spec, reg) # None THEN Valid(Lookup(spec, reg), ds)
  ELSE Scanned(spec, ds)

-----------------------------------------------------------------------------
(* Writing.                                                                *)

\* Mutant: a name is listed whether or not it is ambiguous.
AnyNames(ds) == {n \in Names : Called(n, ds) # {}}

\* The bare names that are listed: those only one organisation has.
UniqueNames(ds) == {n \in Names : Cardinality(Called(n, ds)) = 1}

Indexed(ds) ==
  [key \in ds \cup {k \in Bare : k.name \in UniqueNames(ds)} |->
     IF key \in ds THEN key ELSE CHOOSE d \in Called(key.name, ds) : TRUE]

Absent == [kind |-> "absent", default |-> None, models |-> <<>>]
Empty == [kind |-> "empty", default |-> None, models |-> <<>>]
NotScanning == [at |-> "idle", models |-> <<>>, default |-> None]

RegistryInit ==
  /\ dirs \in SUBSET Dirs
  /\ registry = Absent
  /\ scan = [s \in Scans |-> NotScanning]
  /\ chosen = None
  /\ fresh = FALSE
  /\ scanPast = {}

ScanDirs(s) ==
  /\ scan[s].at = "idle"
  /\ scan' = [scan EXCEPT ![s] = [at |-> "default", models |-> Indexed(dirs),
                                  default |-> None]]
  /\ fresh' = TRUE
  /\ scanPast' = IF \E t \in Scans \ {s} : scan[t].at # "idle"
                 THEN scanPast \cup {"overlap"} ELSE scanPast
  /\ UNCHANGED <<dirs, registry, chosen>>

\* Mutant: the default is not carried over.
NoDefault == None

\* The previous default is kept; an empty file yields no JSON at all, on
\* which the jq that writes the registry will fail.
PrevDefault == registry.default

ScanDefault(s) ==
  /\ scan[s].at = "default"
  /\ scan' = [scan EXCEPT ![s].default = PrevDefault,
                          ![s].at = IF registry.kind = "empty" THEN "fail"
                                                               ELSE "open"]
  /\ UNCHANGED <<dirs, registry, chosen, fresh, scanPast>>

\* The shell opens and truncates the file before jq starts.
ScanTruncate(s) ==
  /\ scan[s].at \in {"open", "fail"}
  /\ registry' = Empty
  /\ scan' = [scan EXCEPT ![s] = IF @.at = "fail"
                                 THEN NotScanning ELSE [@ EXCEPT !.at = "write"]]
  /\ UNCHANGED <<dirs, chosen, fresh, scanPast>>

ScanWrite(s) ==
  /\ scan[s].at = "write"
  /\ registry' = [kind |-> "json", default |-> scan[s].default,
                  models |-> scan[s].models]
  /\ scan' = [scan EXCEPT ![s] = NotScanning]
  /\ UNCHANGED <<dirs, chosen, fresh, scanPast>>

\* The scan is interrupted, or jq fails to write (a full disk).
ScanDies(s) ==
  /\ scan[s].at # "idle"
  /\ scan' = [scan EXCEPT ![s] = NotScanning]
  /\ fresh' = FALSE
  /\ scanPast' = IF scan[s].at = "write" THEN scanPast \cup {"cut"} ELSE scanPast
  /\ UNCHANGED <<dirs, registry, chosen>>

\* A model is downloaded, moved or deleted.
ChangeDirs ==
  /\ \E d \in Dirs : dirs' = (dirs \ {d}) \cup ({d} \ dirs)
  /\ fresh' = FALSE
  /\ UNCHANGED <<registry, scan, chosen, scanPast>>

\* The operator edits .default while no scan runs.
SetDefault ==
  /\ registry.kind = "json"
  /\ \A s \in Scans : scan[s].at = "idle"
  /\ \E key \in Keys :
       registry' = [registry EXCEPT !.default = key] /\ chosen' = key
  /\ UNCHANGED <<dirs, scan, fresh, scanPast>>

RegistryNext ==
  \/ \E s \in Scans : \/ ScanDirs(s) \/ ScanDefault(s) \/ ScanTruncate(s)
                      \/ ScanWrite(s) \/ ScanDies(s)
  \/ ChangeDirs
  \/ SetDefault

RegistrySpec == RegistryInit /\ [][RegistryNext]_registryVars

-----------------------------------------------------------------------------
(* Properties.                                                             *)

Settled == scanPast = {} /\ \A s \in Scans : scan[s].at = "idle"

\* After a scan, and until the directories change, the registry answers
\* every spec as the dynamic scan would without one: the ambiguous names
\* stay refused, and nothing found is lost (server.sh cmd_models against
\* common.sh resolve_model).
FreshAgrees ==
  Settled /\ fresh /\ registry.kind = "json" =>
    \A spec \in Specs \ {Default} :
      Resolve(spec, registry, dirs) = Resolve(spec, Absent, dirs)

\* The default an operator chose survives any number of scans, unless two
\* overlapped or one was cut after it had truncated the file (server.sh
\* cmd_models, prev_default).
DefaultKept ==
  Settled => registry.kind # "empty" /\ registry.default = chosen
=============================================================================
