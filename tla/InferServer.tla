---------------------------- MODULE InferServer -----------------------------
(***************************************************************************)
(* The HTTP server and the MLX thread of crates/serve: chat handlers hand  *)
(* their request to a blocking task (InferHandle::generate), which sends   *)
(* it over one mpsc channel to the thread that owns the engine and blocks  *)
(* on a reply channel of its own.                                          *)
(*                                                                         *)
(* The model may fail to load, any request may panic the MLX thread, and a *)
(* client may disconnect at any moment; tokio drops the handler, never the *)
(* blocking task.  A call is reused once nothing of it is left.            *)
(***************************************************************************)
EXTENDS Naturals, Sequences, FiniteSets

CONSTANTS
  Calls,     \* chat completion calls that may be in flight
  PoolSize,  \* blocking threads of the tokio runtime
  NoCall     \* the MLX thread has no request in hand

ASSUME ServerAssumption ==
  /\ PoolSize \in Nat \ {0}
  /\ NoCall \notin Calls

VARIABLES
  listening,  \* the listener is bound and axum serves
  thread,     \* what the MLX thread does
  current,    \* the request the MLX thread is serving
  chan,       \* the mpsc channel: calls whose request is queued
  pool,       \* blocking tasks that wait for a thread of the pool
  task,       \* call -> its blocking task
  slot,       \* call -> its reply channel, as the task's recv would find it
  result,     \* call -> what the task returned to the handler's await
  http        \* call -> the handler

vars == <<listening, thread, current, chan, pool, task, slot, result, http>>

\* The calls that occupy a blocking thread.
Blocking == {c \in Calls : task[c] \in {"started", "waiting"}}

Queued(c) == \E i \in DOMAIN chan : chan[i] = c

Init ==
  /\ listening = FALSE
  /\ thread = "loading"
  /\ current = NoCall
  /\ chan = <<>>
  /\ pool = <<>>
  /\ task = [c \in Calls |-> "none"]
  /\ slot = [c \in Calls |-> "empty"]
  /\ result = [c \in Calls |-> "none"]
  /\ http = [c \in Calls |-> "idle"]

-----------------------------------------------------------------------------
(* Handlers and blocking tasks.                                            *)

\* server::run binds while the MLX thread may still be loading.
Listen ==
  /\ ~listening
  /\ listening' = TRUE
  /\ UNCHANGED <<thread, current, chan, pool, task, slot, result, http>>

\* chat_completions: spawn_blocking, then await its join handle.
Ask(c) ==
  /\ listening
  /\ http[c] # "pending" /\ task[c] = "none"
  /\ http' = [http EXCEPT ![c] = "pending"]
  /\ task' = [task EXCEPT ![c] = "queued"]
  /\ pool' = Append(pool, c)
  /\ UNCHANGED <<listening, thread, current, chan, slot, result>>

\* Mutant: dropping the handler also ends the task that blocks for it.
DisconnectEndsTask(c) ==
  /\ http[c] = "pending"
  /\ http' = [http EXCEPT ![c] = "idle"]
  /\ result' = [result EXCEPT ![c] = "none"]
  /\ task' = [task EXCEPT ![c] = IF @ = "waiting" THEN "none" ELSE @]
  /\ UNCHANGED <<listening, thread, current, chan, pool, slot>>

\* The handler is dropped at its await; the blocking task runs on.
Disconnect(c) ==
  /\ http[c] = "pending"
  /\ http' = [http EXCEPT ![c] = "idle"]
  /\ result' = [result EXCEPT ![c] = "none"]
  /\ UNCHANGED <<listening, thread, current, chan, pool, task, slot>>

StartTask ==
  /\ pool # <<>>
  /\ Cardinality(Blocking) < PoolSize
  /\ task' = [task EXCEPT ![Head(pool)] = "started"]
  /\ pool' = Tail(pool)
  /\ UNCHANGED <<listening, thread, current, chan, slot, result, http>>

\* What a blocking task returns reaches the handler if there still is one.
Return(c, what) ==
  /\ task' = [task EXCEPT ![c] = "none"]
  /\ result' = [result EXCEPT ![c] = IF http[c] = "pending" THEN what ELSE "none"]
  /\ UNCHANGED <<listening, thread, pool, current, http>>

\* Mutant: the error of a send to a dropped receiver is ignored.
SendIgnoringError(c) ==
  /\ task[c] = "started"
  /\ task' = [task EXCEPT ![c] = "waiting"]
  /\ chan' = IF thread = "dead" THEN chan ELSE Append(chan, c)
  /\ UNCHANGED <<listening, thread, current, pool, slot, result, http>>

\* InferHandle::generate, up to its recv.
Send(c) ==
  /\ task[c] = "started"
  /\ IF thread = "dead"
     THEN Return(c, "error") /\ UNCHANGED <<chan, slot>>
     ELSE /\ chan' = Append(chan, c)
          /\ task' = [task EXCEPT ![c] = "waiting"]
          /\ UNCHANGED <<listening, thread, current, pool, slot, result, http>>

\* Mutant: only a handler that still waits collects its task's reply.
ReceiveIfConnected(c) ==
  /\ task[c] = "waiting"
  /\ http[c] = "pending"
  /\ slot[c] # "empty"
  /\ Return(c, IF slot[c] = "text" THEN "text" ELSE "error")
  /\ slot' = [slot EXCEPT ![c] = "empty"]
  /\ UNCHANGED chan

\* InferHandle::generate from its recv: a message, or a dropped sender.
Receive(c) ==
  /\ task[c] = "waiting"
  /\ slot[c] # "empty"
  /\ Return(c, IF slot[c] = "text" THEN "text" ELSE "error")
  /\ slot' = [slot EXCEPT ![c] = "empty"]
  /\ UNCHANGED chan

Respond(c) ==
  /\ http[c] = "pending"
  /\ result[c] # "none"
  /\ http' = [http EXCEPT ![c] = IF result[c] = "text" THEN "200" ELSE "500"]
  /\ result' = [result EXCEPT ![c] = "none"]
  /\ UNCHANGED <<listening, thread, current, chan, pool, task, slot>>

-----------------------------------------------------------------------------
(* The MLX thread.                                                         *)

Load ==
  /\ thread = "loading"
  /\ thread' \in {"selftest", "failed"}
  /\ UNCHANGED <<listening, current, chan, pool, task, slot, result, http>>

\* The self test's outcome is only logged.
SelfTest ==
  /\ thread = "selftest"
  /\ thread' = "ready"
  /\ UNCHANGED <<listening, current, chan, pool, task, slot, result, http>>

\* Mutant: the newest request is taken first.
TakeNewest ==
  /\ thread \in {"ready", "failed"}
  /\ current = NoCall
  /\ chan # <<>>
  /\ current' = chan[Len(chan)]
  /\ chan' = SubSeq(chan, 1, Len(chan) - 1)
  /\ UNCHANGED <<listening, thread, pool, task, slot, result, http>>

\* rx.recv, of the serving loop or of the loop of a failed load.
Take ==
  /\ thread \in {"ready", "failed"}
  /\ current = NoCall
  /\ chan # <<>>
  /\ current' = Head(chan)
  /\ chan' = Tail(chan)
  /\ UNCHANGED <<listening, thread, pool, task, slot, result, http>>

\* The request is answered: a text or an error of the engine, or always an
\* error if there is no engine.
Reply ==
  /\ current # NoCall
  /\ thread \in {"ready", "failed"}
  /\ \E answer \in IF thread = "ready" THEN {"text", "error"} ELSE {"error"} :
       slot' = [slot EXCEPT ![current] = answer]
  /\ current' = NoCall
  /\ UNCHANGED <<listening, thread, chan, pool, task, result, http>>

\* Unwinding drops the request in hand, and its reply sender with it ...
Panic ==
  /\ thread \in {"loading", "selftest"} \/ (thread = "ready" /\ current # NoCall)
  /\ thread' = "unwinding"
  /\ slot' = IF current = NoCall THEN slot
             ELSE [slot EXCEPT ![current] = "closed"]
  /\ current' = NoCall
  /\ UNCHANGED <<listening, chan, pool, task, result, http>>

\* Mutant: the receiver goes, the requests queued in it stay.
ReceiverClosedOnly ==
  /\ thread = "unwinding"
  /\ thread' = "dead"
  /\ UNCHANGED <<listening, current, chan, pool, task, slot, result, http>>

\* ... and then the receiver, with every request queued in it.
ReceiverDropped ==
  /\ thread = "unwinding"
  /\ thread' = "dead"
  /\ slot' = [c \in Calls |-> IF Queued(c) THEN "closed" ELSE slot[c]]
  /\ chan' = <<>>
  /\ UNCHANGED <<listening, current, pool, task, result, http>>

-----------------------------------------------------------------------------
Serve == Load \/ SelfTest \/ Take \/ Reply \/ Panic \/ ReceiverDropped

Next ==
  \/ Listen
  \/ StartTask
  \/ \E c \in Calls : Ask(c) \/ Disconnect(c) \/ Send(c) \/ Receive(c) \/ Respond(c)
  \/ Serve

Spec == Init /\ [][Next]_vars

\* The runtime polls its tasks and the MLX thread runs: loading ends, and so
\* does every generation (EngineDecode!EveryRequestAnswered).
FairSpec ==
  /\ Spec
  /\ WF_vars(Listen)
  /\ WF_vars(StartTask)
  /\ WF_vars(Serve)
  /\ \A c \in Calls : WF_vars(Send(c)) /\ WF_vars(Receive(c)) /\ WF_vars(Respond(c))

-----------------------------------------------------------------------------
(* Properties.                                                             *)

\* One type invariant for handlers, tasks, channels and the MLX thread.
TypeOK ==
  /\ listening \in BOOLEAN
  /\ thread \in {"loading", "failed", "selftest", "ready", "unwinding", "dead"}
  /\ current \in Calls \cup {NoCall}
  /\ chan \in Seq(Calls)
  /\ pool \in Seq(Calls)
  /\ task \in [Calls -> {"none", "queued", "started", "waiting"}]
  /\ slot \in [Calls -> {"empty", "text", "error", "closed"}]
  /\ result \in [Calls -> {"none", "text", "error"}]
  /\ http \in [Calls -> {"idle", "pending", "200", "500"}]

\* A task blocked in recv is never forgotten: its reply channel holds an
\* answer or is closed, or else a live MLX thread still holds its request,
\* in exactly one place (handle.rs recv, main.rs panic and load failure).
NobodyForgotten ==
  \A c \in Calls :
    task[c] = "waiting" /\ slot[c] = "empty" =>
      /\ thread # "dead"
      /\ \/ current = c /\ ~Queued(c)
         \/ current # c /\ Cardinality({i \in DOMAIN chan : chan[i] = c}) = 1

\* The channel needs no limit of its own: a queued request is held by a task
\* that blocks a pool thread until it is answered, client or no client, so
\* the backlog of the MLX thread never exceeds the pool.
BacklogBounded ==
  Len(chan) + (IF current = NoCall THEN 0 ELSE 1) <= PoolSize

\* Every call is answered, 200 or 500, or its client has gone: through load
\* failures, panics before or after it was queued, and a full pool.
EveryCallAnswered == \A c \in Calls : (http[c] = "pending") ~> (http[c] # "pending")

\* A blocking thread is given back even when nobody waits for the answer.
ThreadsReturn == \A c \in Calls : (task[c] # "none") ~> (task[c] = "none")

\* The service promised: the status of a call as its task or its handler sees it.
StatusOf(c) ==
  IF task[c] = "none" THEN IF result[c] = "none" THEN "idle" ELSE result[c]
  ELSE CASE slot[c] = "empty" -> "asked"
         [] slot[c] = "text" -> "text"
         [] OTHER -> "error"

Service == INSTANCE InferService WITH
  status <- [c \in Calls |-> StatusOf(c)],
  order <- IF current = NoCall THEN chan ELSE <<current>> \o chan,
  down <- thread = "dead"

ImplementsService == Service!Spec
=============================================================================
