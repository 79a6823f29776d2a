---------------------------- MODULE ServerScripts ----------------------------
(***************************************************************************)
(* scripts/server.sh: start, stop and restart of the server by invocations *)
(* that share a pid file and nothing else, one shell command at a time.    *)
(*                                                                         *)
(* A server builds (cargo), then binds the port or, if it is taken, exits. *)
(* It may end at any time.  A process id that has become free may be given *)
(* to a process that has nothing to do with the server.  An invocation may *)
(* be cut short (Ctrl-C); the server it launched in the background lives   *)
(* on.  mlx_lm_server.sh has the same control, with a port, a pid file and *)
(* a readiness URL of its own.                                             *)
(***************************************************************************)
EXTENDS Naturals, FiniteSets

CONSTANTS
  Cmds,          \* invocations that may run at the same time
  Pids,          \* process ids
  ReadyTimeout,  \* polls of wait_for_health before it gives up
  StopTimeout,   \* polls of stop_by_pidfile before it sends KILL
  NoPid          \* no pid file, or no pid read

ASSUME ScriptsAssumption ==
  /\ NoPid \notin Pids
  /\ ReadyTimeout \in Nat
  /\ StopTimeout \in Nat

VARIABLES
  pidfile,  \* the pid in the pid file
  proc,     \* pid -> "none", "build", "serving" or "other" (no server)
  signal,   \* pid -> the last signal our scripts sent it: "no", "term", "kill"
  inv,      \* invocation -> the command it comes to next and its variables
  fell,     \* history: pids whose server ended without a signal
  past      \* history: which of "overlap", "cut", "recycled" have happened

procs == <<proc, signal>>
history == <<fell, past>>
scriptVars == <<pidfile, procs, inv, history>>

Server == {"build", "serving"}
Alive(p) == proc[p] # "none"
Up == \E p \in Pids : proc[p] = "serving"

\* op: what the script was called with; a restart goes on as a start.
Ops == {"start", "stop", "restart"}
Idle == [at |-> "idle", op |-> "stop", pid |-> NoPid, waited |-> 0]
Running(c) == inv[c].at # "idle"
Launches(op) == op # "stop"
At(c, place) == inv[c].at = place

\* On to another command, with pid = p; a polling loop starts counting.
Go(c, place, p, op) ==
  inv' = [inv EXCEPT ![c] =
            IF place = "idle" THEN Idle
            ELSE [at |-> place, op |-> op, pid |-> p, waited |-> 0]]
Goto(c, place) == Go(c, place, inv[c].pid, inv[c].op)

ScriptInit ==
  /\ pidfile = NoPid
  /\ proc = [p \in Pids |-> "none"]
  /\ signal = [p \in Pids |-> "no"]
  /\ inv = [c \in Cmds |-> Idle]
  /\ fell = {}
  /\ past = {}

-----------------------------------------------------------------------------
(* server.sh start.                                                        *)

\* An operator runs the script.
Invoke(c, op) ==
  /\ ~Running(c)
  /\ Go(c, IF op = "start" THEN "start" ELSE "stop", NoPid, op)
  /\ past' = IF \E d \in Cmds : Running(d) /\ (Launches(op) \/ Launches(inv[d].op))
             THEN past \cup {"overlap"} ELSE past
  /\ UNCHANGED <<pidfile, procs, fell>>

\* is_running reads the pid file; with no file there is nothing to probe.
ReadPid(c, from, absent, present) ==
  /\ At(c, from)
  /\ Go(c, IF pidfile = NoPid THEN absent ELSE present, pidfile, inv[c].op)
  /\ UNCHANGED <<pidfile, procs, history>>

\* kill -0 on the pid that was read: any live process will do.
Probe(c, from, dead, live) ==
  /\ At(c, from)
  /\ Goto(c, IF Alive(inv[c].pid) THEN live ELSE dead)
  /\ UNCHANGED <<pidfile, procs, history>>

\* Mutant: start takes any pid file for a dead one.
StartProbeIgnored(c) == Probe(c, "start_probe", "launch", "launch")

StartCheck(c) == ReadPid(c, "start", "launch", "start_probe")
StartProbe(c) == Probe(c, "start_probe", "launch", "idle")

\* resolve_model fails, and the script dies before it launches anything.
Unresolved(c) ==
  /\ At(c, "launch")
  /\ Goto(c, "idle")
  /\ UNCHANGED <<pidfile, procs, history>>

\* cargo run in the background; exec gives the server the pid of the job.
Launch(c) ==
  /\ At(c, "launch")
  /\ \E p \in Pids :
       /\ proc[p] = "none"
       /\ proc' = [proc EXCEPT ![p] = "build"]
       /\ fell' = fell \ {p}
       /\ Go(c, "write", p, "start")
  /\ UNCHANGED <<pidfile, signal, past>>

WritePid(c) ==
  /\ At(c, "write")
  /\ pidfile' = inv[c].pid
  /\ Goto(c, "wait")
  /\ UNCHANGED <<procs, history>>

\* One more second of polling, or the loop is left for `place'.
Poll(c, loop, limit, ready, place) ==
  /\ At(c, loop)
  /\ inv[c].waited < limit
  /\ IF ready THEN Goto(c, place)
              ELSE inv' = [inv EXCEPT ![c].waited = @ + 1]
  /\ UNCHANGED <<pidfile, procs, history>>

\* wait_for_health: whoever serves the port answers 200, its model loaded or
\* not; the pid of the launched process is not looked at.
WaitPoll(c) == Poll(c, "wait", ReadyTimeout, Up, "idle")

WaitTimeout(c) ==
  /\ At(c, "wait")
  /\ inv[c].waited >= ReadyTimeout
  /\ Goto(c, "stop")
  /\ UNCHANGED <<pidfile, procs, history>>

-----------------------------------------------------------------------------
(* stop_by_pidfile, of server.sh stop and restart and of a start that      *)
(* failed.                                                                 *)

StopCheck(c) == ReadPid(c, "stop", "rm", "stop_probe")
StopProbe(c) == Probe(c, "stop_probe", "rm", "cat")

\* The file is read again; if it is gone, set -e ends the script.
Cat(c) == ReadPid(c, "cat", "idle", "term")

\* kill fails on a process that has ended, and the failure is ignored.
Kill(p, sig) ==
  signal' = IF Alive(p) THEN [signal EXCEPT ![p] = sig] ELSE signal

Term(c) ==
  /\ At(c, "term")
  /\ Kill(inv[c].pid, "term")
  /\ Goto(c, "poll")
  /\ UNCHANGED <<pidfile, proc, history>>

\* Mutant: the first second of waiting is taken for the process's end.
StopPollOnce(c) == Poll(c, "poll", StopTimeout, TRUE, "rm")

StopPoll(c) == Poll(c, "poll", StopTimeout, ~Alive(inv[c].pid), "rm")

\* The killed process is not waited for.
StopKill(c) ==
  /\ At(c, "poll")
  /\ inv[c].waited >= StopTimeout
  /\ Kill(inv[c].pid, "kill")
  /\ Goto(c, "rm")
  /\ UNCHANGED <<pidfile, proc, history>>

AfterStop(c) == IF inv[c].op = "restart" THEN "start" ELSE "idle"

\* Mutant: the file is left where it is.
KeepPid(c) ==
  /\ At(c, "rm")
  /\ Go(c, AfterStop(c), NoPid, "start")
  /\ UNCHANGED <<pidfile, procs, history>>

\* rm -f, whatever the file names by now; restart goes on to start.
RemovePid(c) ==
  /\ At(c, "rm")
  /\ pidfile' = NoPid
  /\ Go(c, AfterStop(c), NoPid, "start")
  /\ UNCHANGED <<procs, history>>

-----------------------------------------------------------------------------
(* The system around the scripts.                                          *)

\* Ctrl-C.  It matters to the next invocation when it parts a launch from
\* its pid file, or a signal from the removal of the file.
Interrupt(c) ==
  /\ Running(c)
  /\ Goto(c, "idle")
  /\ past' = IF inv[c].at \in {"write", "poll", "rm"} THEN past \cup {"cut"}
                                                     ELSE past
  /\ UNCHANGED <<pidfile, procs, fell>>

\* A process ends; a signal sent to it goes with it.
Ends(p) ==
  /\ proc' = [proc EXCEPT ![p] = "none"]
  /\ signal' = [signal EXCEPT ![p] = "no"]
  /\ fell' = IF proc[p] \in Server /\ signal[p] = "no" THEN fell \cup {p}
                                                       ELSE fell
  /\ UNCHANGED <<pidfile, inv, past>>

\* A server that cannot bind its port exits.
Bind(p) ==
  /\ proc[p] = "build"
  /\ \/ Up /\ Ends(p)
     \/ /\ ~Up
        /\ proc' = [proc EXCEPT ![p] = "serving"]
        /\ UNCHANGED <<pidfile, signal, inv, history>>

\* Any process may end, by a signal or by itself.
Exit(p) == Alive(p) /\ Ends(p)

\* Another program is given a free pid.
Recycle(p) ==
  /\ proc[p] = "none"
  /\ proc' = [proc EXCEPT ![p] = "other"]
  /\ past' = IF p \in fell \/ \E c \in Cmds : Running(c)
             THEN past \cup {"recycled"} ELSE past
  /\ UNCHANGED <<pidfile, signal, inv, fell>>

-----------------------------------------------------------------------------
Step(c) ==
  \/ StartCheck(c) \/ StartProbe(c) \/ Unresolved(c) \/ Launch(c)
  \/ WritePid(c) \/ WaitPoll(c) \/ WaitTimeout(c)
  \/ StopCheck(c) \/ StopProbe(c) \/ Cat(c) \/ Term(c) \/ StopPoll(c)
  \/ StopKill(c) \/ RemovePid(c)

ScriptNext ==
  \/ \E c \in Cmds : \/ \E op \in Ops : Invoke(c, op)
                     \/ Step(c)
                     \/ Interrupt(c)
  \/ \E p \in Pids : Bind(p) \/ Exit(p) \/ Recycle(p)

ScriptSpec == ScriptInit /\ [][ScriptNext]_scriptVars

-----------------------------------------------------------------------------
(* Properties.                                                             *)

\* What the pid file cannot do without a lock, and is not claimed to: order
\* a start or restart that overlaps another invocation, or complete one cut
\* between a launch or a signal and the pid file.
Orderly == past \cap {"overlap", "cut"} = {}

\* No orphan: between orderly invocations every server that is alive, but
\* for one sent KILL and not gone yet, is the one the pid file names, so
\* that stop can end it; also if stops overlap, servers crash or a start
\* gives up waiting (server.sh cmd_start, common.sh stop_by_pidfile).
ServerNamed ==
  Orderly /\ (\A c \in Cmds : ~Running(c)) =>
    \A p \in Pids : proc[p] \in Server /\ signal[p] # "kill" => p = pidfile

\* A process that is no server is signalled only if it was given the pid of
\* a server that ended by itself, or was given it while an invocation was
\* running: after a stop that completed no stale pid file is left
\* (common.sh is_running trusts any live process).
StrangersSpared ==
  past = {} => \A p \in Pids : proc[p] = "other" => signal[p] = "no"

\* "up" is said of the server this start launched, not of one that was on
\* the port before it, unless that one had been sent KILL and not waited for
\* (common.sh wait_for_health asks the port, not the process).
UpMeansMine ==
  [][\A c \in Cmds :
       Orderly /\ WaitPoll(c) /\ Up =>
         \E p \in Pids : /\ proc[p] = "serving"
                         /\ p = inv[c].pid \/ signal[p] = "kill"]_scriptVars
=============================================================================
