--------------------------- MODULE MCServerScripts ---------------------------
(***************************************************************************)
(* Both halves of server.sh for TLC.  `start' reads the registry in one    *)
(* step, whose outcome ServerScripts leaves open (Unresolved or Launch),   *)
(* so interleaving the two would show nothing more: each moves while the   *)
(* other is in its initial state.                                          *)
(***************************************************************************)
EXTENDS ServerScripts, ModelRegistry, TLC

vars == <<scriptVars, registryVars>>

Init == ScriptInit /\ RegistryInit

NoRegistry ==
  registry = Absent /\ dirs = {} /\ \A s \in Scans : scan[s] = NotScanning
NothingRan ==
  /\ \A c \in Cmds : ~Running(c)
  /\ \A p \in Pids : ~Alive(p)
  /\ pidfile = NoPid /\ history = <<{}, {}>>

Next ==
  \/ NoRegistry /\ scanPast = {} /\ ScriptNext /\ UNCHANGED registryVars
  \/ NothingRan /\ RegistryNext /\ UNCHANGED scriptVars

Spec == Init /\ [][Next]_vars

\* Nothing is claimed of what follows disorder, in the invocations or in the
\* scans; TLC does not go on from there.
Claimed == Orderly /\ scanPast = {}

\* The invocations, the pids, the scans and the organisations are alike.
Symmetry ==
  Permutations(Cmds) \cup Permutations(Pids) \cup Permutations(Scans)
    \cup Permutations(Orgs)
=============================================================================
