---------------------------- MODULE ServerProofs ----------------------------
(***************************************************************************)
(* Proofs about the server and the script that runs it.                    *)
(*                                                                         *)
(* InferServer, for any set of calls, finite or not, and any size of the   *)
(* pool: no task is forgotten, the backlog stays within the pool, and the  *)
(* server keeps the promise of InferService.                               *)
(*                                                                         *)
(* The two halves of server.sh, ModelRegistry and ServerScripts, for any   *)
(* directories, scans, invocations and process ids, and any timeouts.      *)
(***************************************************************************)
EXTENDS InferServer, ServerScripts, ModelRegistry, FiniteSetTheorems, TLAPS

-----------------------------------------------------------------------------
(* The inductive invariant.                                                *)

\* A task that waits for a thread is queued once and has not started.
PoolInv ==
  /\ \A i \in DOMAIN pool : task[pool[i]] = "queued"
  /\ \A i, j \in DOMAIN pool : pool[i] = pool[j] => i = j

\* A request is in one place at a time: once in the channel, or in hand.
ChanInv ==
  /\ \A i, j \in DOMAIN chan : chan[i] = chan[j] => i = j
  /\ \A i \in DOMAIN chan : chan[i] # current

\* A request in the channel or in hand has a task that blocks for it and no
\* answer; any other task that blocks has its answer.
HeldInv ==
  /\ \A i \in DOMAIN chan : task[chan[i]] = "waiting" /\ slot[chan[i]] = "empty"
  /\ current # NoCall => task[current] = "waiting" /\ slot[current] = "empty"
  /\ \A c \in Calls :
       task[c] = "waiting" /\ slot[c] = "empty" => current = c \/ Queued(c)

\* Answers exist only for tasks that block, and results only for handlers
\* that await a task which has ended.
AnswerInv ==
  \A c \in Calls :
    /\ slot[c] # "empty" => task[c] = "waiting"
    /\ result[c] # "none" => task[c] = "none" /\ http[c] = "pending"

\* Only a thread past its load has a request in hand; a dead one left none.
ThreadInv ==
  /\ thread \notin {"ready", "failed"} => current = NoCall
  /\ thread = "dead" => chan = <<>>

PoolBound == IsFiniteSet(Blocking) /\ Cardinality(Blocking) <= PoolSize

IInv == TypeOK /\ PoolInv /\ ChanInv /\ HeldInv /\ AnswerInv /\ ThreadInv /\ PoolBound

-----------------------------------------------------------------------------
(* Sequences.                                                              *)

\* One element more.
LEMMA Appended ==
  ASSUME NEW S, NEW s \in Seq(S), NEW e \in S
  PROVE  /\ Append(s, e) \in Seq(S)
         /\ DOMAIN Append(s, e) = DOMAIN s \cup {Len(s) + 1}
         /\ Len(s) + 1 \notin DOMAIN s
         /\ \A i \in DOMAIN s : Append(s, e)[i] = s[i]
         /\ Append(s, e)[Len(s) + 1] = e
OBVIOUS

\* The first element less.
LEMMA HeadTail ==
  ASSUME NEW S, NEW s \in Seq(S), s # <<>>
  PROVE  /\ Head(s) \in S /\ Head(s) = s[1] /\ 1 \in DOMAIN s
         /\ Tail(s) \in Seq(S)
         /\ \A i \in DOMAIN Tail(s) : i + 1 \in DOMAIN s /\ i + 1 # 1 /\ Tail(s)[i] = s[i + 1]
         /\ \A i \in DOMAIN s : i = 1 \/ (i - 1 \in DOMAIN Tail(s) /\ Tail(s)[i - 1] = s[i])
         /\ \A i \in DOMAIN Tail(s) : i \in Int
OBVIOUS

\* A sequence without repetition stays so.
LEMMA TailDistinct ==
  ASSUME NEW S, NEW s \in Seq(S), s # <<>>,
         \A i, j \in DOMAIN s : s[i] = s[j] => i = j
  PROVE  /\ \A i, j \in DOMAIN Tail(s) : Tail(s)[i] = Tail(s)[j] => i = j
         /\ \A i \in DOMAIN Tail(s) : Tail(s)[i] # Head(s)
<1>1. \A i, j \in DOMAIN Tail(s) : Tail(s)[i] = Tail(s)[j] => i = j
  <2>1. SUFFICES ASSUME NEW i \in DOMAIN Tail(s), NEW j \in DOMAIN Tail(s),
                        Tail(s)[i] = Tail(s)[j]
                 PROVE  i = j
    OBVIOUS
  <2>2. i + 1 = j + 1
    BY <2>1, HeadTail
  <2>3. QED
    BY <2>2, HeadTail
<1>2. \A i \in DOMAIN Tail(s) : Tail(s)[i] # Head(s)
  BY HeadTail
<1>3. QED
  BY <1>1, <1>2

\* A sequence without repetition of elements of a finite set is no longer than
\* the set is large.
LEMMA DistinctBounded ==
  ASSUME NEW T, IsFiniteSet(T), NEW s \in Seq(T),
         \A i, j \in DOMAIN s : s[i] = s[j] => i = j
  PROVE  Len(s) <= Cardinality(T)
<1>1. Len(s) \in Nat /\ s \in [1 .. Len(s) -> T] /\ DOMAIN s = 1 .. Len(s)
  OBVIOUS
<1>2. s \in Injection(1 .. Len(s), T)
  BY <1>1 DEF Injection, IsInjective
<1>3. Cardinality(1 .. Len(s)) <= Cardinality(T)
  BY <1>2, FS_Injection
<1>4. Cardinality(1 .. Len(s)) = Len(s)
  <2>1. Cardinality(1 .. Len(s)) = IF 1 > Len(s) THEN 0 ELSE Len(s) - 1 + 1
    BY <1>1, FS_Interval
  <2>2. QED
    BY <1>1, <2>1
<1>5. QED
  BY <1>3, <1>4

-----------------------------------------------------------------------------
(* The invariant holds.                                                    *)

LEMMA InitInv == Init => IInv
<1> SUFFICES ASSUME Init PROVE IInv
  OBVIOUS
<1>1. TypeOK
  <2>1. chan \in Seq(Calls) /\ pool \in Seq(Calls)
    BY DEF Init
  <2>2. QED
    BY <2>1, Zenon DEF Init, TypeOK
<1>2. PoolInv /\ ChanInv /\ HeldInv /\ AnswerInv /\ ThreadInv
  BY DEF Init, PoolInv, ChanInv, HeldInv, AnswerInv, ThreadInv
<1>3. Blocking = {}
  BY DEF Init, Blocking
<1>4. PoolBound
  BY <1>3, FS_EmptySet, ServerAssumption DEF PoolBound
<1>5. QED
  BY <1>1, <1>2, <1>4 DEF IInv

\* A step of anything but StartTask takes no thread of the pool.
LEMMA BoundKept ==
  ASSUME PoolBound, Blocking' \subseteq Blocking, PoolSize \in Nat
  PROVE  PoolBound'
<1>1. IsFiniteSet(Blocking') /\ Cardinality(Blocking') <= Cardinality(Blocking)
  BY FS_Subset DEF PoolBound
<1>2. Cardinality(Blocking') \in Nat /\ Cardinality(Blocking) \in Nat
  BY <1>1, FS_CardinalityType DEF PoolBound
<1>3. QED
  BY <1>1, <1>2 DEF PoolBound

\* The bound of the pool is a number.
LEMMA PoolSizeType == PoolSize \in Nat
BY ServerAssumption

\* The listener binds, or nothing happens.
LEMMA ListenInv == ASSUME IInv, Listen \/ UNCHANGED vars PROVE IInv'
<1>1. UNCHANGED <<thread, current, chan, pool, task, slot, result, http>>
      /\ listening' \in {listening, TRUE}
  BY DEF Listen, vars
<1>2. TypeOK'
  BY <1>1 DEF IInv, TypeOK
<1>3. PoolInv' /\ ChanInv' /\ HeldInv' /\ AnswerInv' /\ ThreadInv'
  BY <1>1 DEF IInv, PoolInv, ChanInv, HeldInv, AnswerInv, ThreadInv, Queued
<1>4. PoolBound'
  BY <1>1, BoundKept, PoolSizeType DEF IInv, Blocking
<1>5. QED
  BY <1>2, <1>3, <1>4 DEF IInv

\* The handler goes, with its client or with its answer.
LEMMA HandlerInv ==
  ASSUME IInv, NEW c \in Calls, Disconnect(c) \/ Respond(c)
  PROVE  IInv'
<1>1. UNCHANGED <<thread, current, chan, pool, task, slot>>
  BY DEF Disconnect, Respond
<1>2. TypeOK'
  BY DEF IInv, TypeOK, Disconnect, Respond
<1>3. PoolInv' /\ ChanInv' /\ HeldInv' /\ ThreadInv'
  BY <1>1 DEF IInv, PoolInv, ChanInv, HeldInv, ThreadInv, Queued
<1>4. AnswerInv'
  BY DEF IInv, TypeOK, AnswerInv, Disconnect, Respond
<1>5. PoolBound'
  BY <1>1, BoundKept, PoolSizeType DEF IInv, Blocking
<1>6. QED
  BY <1>2, <1>3, <1>4, <1>5 DEF IInv

LEMMA AskInv ==
  ASSUME IInv, NEW c \in Calls, Ask(c)
  PROVE  IInv'
<1>1. /\ pool \in Seq(Calls) /\ pool' = Append(pool, c)
      /\ task[c] = "none" /\ task' = [task EXCEPT ![c] = "queued"]
      /\ UNCHANGED <<listening, thread, current, chan, slot, result>>
  BY DEF IInv, TypeOK, Ask
<1>2. /\ pool' \in Seq(Calls)
      /\ DOMAIN pool' = DOMAIN pool \cup {Len(pool) + 1} /\ Len(pool) + 1 \notin DOMAIN pool
      /\ \A i \in DOMAIN pool : pool'[i] = pool[i]
      /\ pool'[Len(pool) + 1] = c
  BY <1>1, Appended
<1>3. TypeOK'
  BY <1>1, <1>2 DEF IInv, TypeOK, Ask
<1>4. \A i \in DOMAIN pool : pool[i] # c
  BY <1>1 DEF IInv, PoolInv
<1>5. PoolInv'
  BY <1>1, <1>2, <1>4 DEF IInv, TypeOK, PoolInv
<1>6. ChanInv' /\ ThreadInv'
  BY <1>1 DEF IInv, ChanInv, ThreadInv
<1>7. HeldInv'
  <2>1. /\ \A i \in DOMAIN chan : chan[i] # c
        /\ current # c
    BY <1>1, ServerAssumption DEF IInv, HeldInv
  <2>2. QED
    BY <1>1, <2>1 DEF IInv, TypeOK, HeldInv, Queued
<1>8. AnswerInv'
  BY <1>1 DEF IInv, TypeOK, AnswerInv, Ask
<1>9. Blocking' \subseteq Blocking
  BY <1>1 DEF IInv, TypeOK, Blocking
<1>10. QED
  BY <1>3, <1>5, <1>6, <1>7, <1>8, <1>9, BoundKept, PoolSizeType DEF IInv

LEMMA StartTaskInv == ASSUME IInv, StartTask PROVE IInv'
<1> DEFINE c == Head(pool)
<1>1. /\ pool \in Seq(Calls) /\ pool # <<>> /\ pool' = Tail(pool)
      /\ task' = [task EXCEPT ![c] = "started"]
      /\ Cardinality(Blocking) < PoolSize
      /\ UNCHANGED <<listening, thread, current, chan, slot, result, http>>
  BY DEF IInv, TypeOK, StartTask
<1>2. c \in Calls /\ task[c] = "queued" /\ pool' \in Seq(Calls)
  BY <1>1, HeadTail DEF IInv, PoolInv
<1> HIDE DEF c
<1>3. /\ \A i, j \in DOMAIN pool' : pool'[i] = pool'[j] => i = j
      /\ \A i \in DOMAIN pool' : pool'[i] # c
  BY <1>1, TailDistinct DEF IInv, PoolInv, c
<1>4. \A i \in DOMAIN pool' : task[pool'[i]] = "queued" /\ pool'[i] \in Calls
  BY <1>1, <1>2, HeadTail DEF IInv, PoolInv
<1>5. TypeOK'
  BY <1>1, <1>2 DEF IInv, TypeOK
<1>6. PoolInv'
  BY <1>1, <1>3, <1>4 DEF IInv, TypeOK, PoolInv
<1>7. ChanInv' /\ ThreadInv'
  BY <1>1 DEF IInv, ChanInv, ThreadInv
<1>8. HeldInv'
  <2>1. (\A i \in DOMAIN chan : chan[i] # c) /\ current # c
    BY <1>2, ServerAssumption DEF IInv, HeldInv
  <2>2. QED
    BY <1>1, <2>1 DEF IInv, TypeOK, HeldInv, Queued
<1>9. AnswerInv'
  BY <1>1, <1>2 DEF IInv, TypeOK, AnswerInv
<1>10. PoolBound'
  <2>1. Blocking' = Blocking \cup {c} /\ c \notin Blocking
    BY <1>1, <1>2 DEF IInv, TypeOK, Blocking
  <2>2. IsFiniteSet(Blocking') /\ Cardinality(Blocking') = Cardinality(Blocking) + 1
    BY <2>1, FS_AddElement DEF IInv, PoolBound
  <2>3. Cardinality(Blocking) \in Nat
    BY FS_CardinalityType DEF IInv, PoolBound
  <2>4. QED
    BY <1>1, <2>2, <2>3, PoolSizeType DEF PoolBound
<1>11. QED
  BY <1>5, <1>6, <1>7, <1>8, <1>9, <1>10 DEF IInv

\* A blocking task ends: its thread is free, its result goes to its handler.
LEMMA ReturnInv ==
  ASSUME IInv, NEW c \in Calls, NEW what \in {"text", "error"}, Return(c, what),
         task[c] \in {"started", "waiting"}, slot' = [slot EXCEPT ![c] = "empty"],
         slot[c] # "empty" \/ task[c] = "started", UNCHANGED chan
  PROVE  IInv'
<1>1. /\ task' = [task EXCEPT ![c] = "none"]
      /\ result' = [result EXCEPT ![c] = IF http[c] = "pending" THEN what ELSE "none"]
      /\ UNCHANGED <<listening, thread, pool, current, http, chan>>
  BY DEF Return
<1>2. TypeOK'
  BY <1>1 DEF IInv, TypeOK
<1>3. PoolInv'
  BY <1>1 DEF IInv, TypeOK, PoolInv
<1>4. ChanInv' /\ ThreadInv'
  BY <1>1 DEF IInv, ChanInv, ThreadInv
<1>5. HeldInv'
  <2>1. (\A i \in DOMAIN chan : chan[i] # c) /\ current # c
    BY ServerAssumption DEF IInv, HeldInv
  <2>2. QED
    BY <1>1, <2>1 DEF IInv, TypeOK, HeldInv, Queued
<1>6. AnswerInv'
  BY <1>1 DEF IInv, TypeOK, AnswerInv
<1>7. Blocking' \subseteq Blocking
  BY <1>1 DEF IInv, TypeOK, Blocking
<1>8. QED
  BY <1>2, <1>3, <1>4, <1>5, <1>6, <1>7, BoundKept, PoolSizeType DEF IInv

LEMMA ReceiveInv ==
  ASSUME IInv, NEW c \in Calls, Receive(c)
  PROVE  IInv'
BY ReturnInv DEF Receive

LEMMA SendInv ==
  ASSUME IInv, NEW c \in Calls, Send(c)
  PROVE  IInv'
<1>1. task[c] = "started" /\ slot[c] = "empty" /\ result[c] = "none"
  BY DEF IInv, TypeOK, AnswerInv, Send
<1>2. CASE thread = "dead"
  <2>1. Return(c, "error") /\ UNCHANGED <<chan, slot>>
    BY <1>2 DEF Send
  <2>2. slot' = [slot EXCEPT ![c] = "empty"]
    BY <1>1, <2>1 DEF IInv, TypeOK
  <2>3. QED
    BY <1>1, <2>1, <2>2, ReturnInv
<1>3. CASE thread # "dead"
  <2>1. /\ chan \in Seq(Calls) /\ chan' = Append(chan, c)
        /\ task' = [task EXCEPT ![c] = "waiting"]
        /\ UNCHANGED <<listening, thread, current, pool, slot, result, http>>
    BY <1>3 DEF IInv, TypeOK, Send
  <2>2. /\ chan' \in Seq(Calls)
        /\ DOMAIN chan' = DOMAIN chan \cup {Len(chan) + 1} /\ Len(chan) + 1 \notin DOMAIN chan
        /\ \A i \in DOMAIN chan : chan'[i] = chan[i]
        /\ chan'[Len(chan) + 1] = c
    BY <2>1, Appended
  <2>3. (\A i \in DOMAIN chan : chan[i] # c) /\ current # c
    BY <1>1, ServerAssumption DEF IInv, HeldInv
  <2>4. TypeOK'
    BY <2>1, <2>2 DEF IInv, TypeOK
  <2>5. PoolInv'
    BY <1>1, <2>1 DEF IInv, TypeOK, PoolInv
  <2>6. ChanInv'
    BY <2>1, <2>2, <2>3 DEF IInv, ChanInv
  <2>7. HeldInv'
    <3>1. \A d \in Calls : Queued(d)' <=> Queued(d) \/ d = c
      BY <2>2 DEF Queued
    <3>2. \A i \in DOMAIN chan' : task'[chan'[i]] = "waiting" /\ slot'[chan'[i]] = "empty"
      BY <1>1, <2>1, <2>2 DEF IInv, TypeOK, HeldInv
    <3>3. QED
      BY <2>1, <3>1, <3>2, <2>3 DEF IInv, TypeOK, HeldInv
  <2>8. AnswerInv'
    BY <1>1, <2>1 DEF IInv, TypeOK, AnswerInv
  <2>9. ThreadInv'
    BY <1>3, <2>1 DEF IInv, ThreadInv
  <2>10. Blocking' \subseteq Blocking
    BY <1>1, <2>1 DEF IInv, TypeOK, Blocking
  <2>11. QED
    BY <2>4, <2>5, <2>6, <2>7, <2>8, <2>9, <2>10, BoundKept, PoolSizeType DEF IInv
<1>4. QED
  BY <1>2, <1>3

\* The thread loads, or starts to serve: nothing is in hand.
LEMMA LoadInv == ASSUME IInv, Load \/ SelfTest PROVE IInv'
<1>1. /\ UNCHANGED <<listening, current, chan, pool, task, slot, result, http>>
      /\ thread' \in {"selftest", "failed", "ready"} /\ thread \in {"loading", "selftest"}
  BY DEF Load, SelfTest
<1>2. TypeOK' /\ ThreadInv'
  BY <1>1 DEF IInv, TypeOK, ThreadInv
<1>3. PoolInv' /\ ChanInv' /\ HeldInv' /\ AnswerInv'
  BY <1>1 DEF IInv, PoolInv, ChanInv, HeldInv, AnswerInv, Queued
<1>4. PoolBound'
  BY <1>1, BoundKept, PoolSizeType DEF IInv, Blocking
<1>5. QED
  BY <1>2, <1>3, <1>4 DEF IInv

LEMMA TakeInv == ASSUME IInv, Take PROVE IInv'
<1> DEFINE c == Head(chan)
<1>1. /\ chan \in Seq(Calls) /\ chan # <<>> /\ chan' = Tail(chan)
      /\ current = NoCall /\ current' = c /\ thread \in {"ready", "failed"}
      /\ UNCHANGED <<listening, thread, pool, task, slot, result, http>>
  BY DEF IInv, TypeOK, Take
<1>2. c \in Calls /\ task[c] = "waiting" /\ slot[c] = "empty" /\ chan' \in Seq(Calls)
  BY <1>1, HeadTail DEF IInv, HeldInv
<1>3. /\ \A i, j \in DOMAIN chan' : chan'[i] = chan'[j] => i = j
      /\ \A i \in DOMAIN chan' : chan'[i] # c
  BY <1>1, TailDistinct DEF IInv, ChanInv
<1>4. /\ \A i \in DOMAIN chan' : task[chan'[i]] = "waiting" /\ slot[chan'[i]] = "empty"
      /\ \A d \in Calls : Queued(d) => d = c \/ Queued(d)'
  <2>1. \A i \in DOMAIN chan' : task[chan'[i]] = "waiting" /\ slot[chan'[i]] = "empty"
    BY <1>1, HeadTail DEF IInv, HeldInv
  <2>2. \A i \in DOMAIN chan : chan[i] = c \/ \E j \in DOMAIN chan' : chan'[j] = chan[i]
    BY <1>1, HeadTail
  <2>3. QED
    BY <2>1, <2>2 DEF Queued
<1> HIDE DEF c
<1>5. TypeOK'
  BY <1>1, <1>2 DEF IInv, TypeOK
<1>6. PoolInv' /\ AnswerInv'
  BY <1>1 DEF IInv, PoolInv, AnswerInv
<1>7. ChanInv' /\ ThreadInv'
  BY <1>1, <1>3 DEF IInv, ChanInv, ThreadInv
<1>8. HeldInv'
  BY <1>1, <1>2, <1>4, ServerAssumption DEF IInv, HeldInv
<1>9. PoolBound'
  BY <1>1, BoundKept, PoolSizeType DEF IInv, Blocking
<1>10. QED
  BY <1>5, <1>6, <1>7, <1>8, <1>9 DEF IInv

\* The request in hand gets its answer, of the engine or of the unwinding.
LEMMA AnsweredInv ==
  ASSUME IInv, current # NoCall, current' = NoCall,
         NEW answer \in {"text", "error", "closed"}, slot' = [slot EXCEPT ![current] = answer],
         thread' \in {thread, "unwinding"}, thread # "dead",
         UNCHANGED <<listening, chan, pool, task, result, http>>
  PROVE  IInv'
<1>1. current \in Calls /\ task[current] = "waiting" /\ \A i \in DOMAIN chan : chan[i] # current
  BY DEF IInv, TypeOK, HeldInv, ChanInv
<1>2. TypeOK'
  BY <1>1 DEF IInv, TypeOK
<1>3. PoolInv' /\ AnswerInv'
  BY <1>1 DEF IInv, TypeOK, PoolInv, AnswerInv
<1>4. ChanInv'
  <2>1. \A i \in DOMAIN chan : chan[i] \in Calls
    BY DEF IInv, TypeOK
  <2>2. QED
    BY <2>1, ServerAssumption DEF IInv, ChanInv
<1>5. HeldInv'
  <2>1. \A i \in DOMAIN chan : chan[i] \in Calls /\ slot'[chan[i]] = slot[chan[i]]
    BY <1>1 DEF IInv, TypeOK
  <2>2. \A c \in Calls : slot'[c] = "empty" => c # current /\ slot[c] = "empty"
    BY <1>1 DEF IInv, TypeOK
  <2>3. QED
    BY <2>1, <2>2 DEF IInv, HeldInv, Queued
<1>6. ThreadInv'
  BY DEF IInv, ThreadInv
<1>7. PoolBound'
  BY BoundKept, PoolSizeType DEF IInv, Blocking
<1>8. QED
  BY <1>2, <1>3, <1>4, <1>5, <1>6, <1>7 DEF IInv

LEMMA ReplyInv == ASSUME IInv, Reply PROVE IInv'
<1>1. PICK answer \in IF thread = "ready" THEN {"text", "error"} ELSE {"error"} :
        slot' = [slot EXCEPT ![current] = answer]
  BY DEF Reply
<1>2. answer \in {"text", "error", "closed"}
  BY <1>1
<1>3. QED
  BY <1>1, <1>2, AnsweredInv DEF Reply

LEMMA PanicInv == ASSUME IInv, Panic PROVE IInv'
<1>1. thread' = "unwinding" /\ thread # "dead" /\ current' = NoCall
      /\ UNCHANGED <<listening, chan, pool, task, result, http>>
  BY DEF Panic
<1>2. CASE current # NoCall
  <2>1. slot' = [slot EXCEPT ![current] = "closed"]
    BY <1>2 DEF Panic
  <2>2. QED
    BY <1>1, <1>2, <2>1, AnsweredInv
<1>3. CASE current = NoCall
  <2>1. UNCHANGED <<current, slot>>
    BY <1>3 DEF Panic
  <2>2. TypeOK' /\ ThreadInv'
    BY <1>1, <2>1 DEF IInv, TypeOK, ThreadInv
  <2>3. PoolInv' /\ ChanInv' /\ HeldInv' /\ AnswerInv'
    BY <1>1, <2>1 DEF IInv, PoolInv, ChanInv, HeldInv, AnswerInv, Queued
  <2>4. PoolBound'
    BY <1>1, BoundKept, PoolSizeType DEF IInv, Blocking
  <2>5. QED
    BY <2>2, <2>3, <2>4 DEF IInv
<1>4. QED
  BY <1>2, <1>3

LEMMA ReceiverDroppedInv == ASSUME IInv, ReceiverDropped PROVE IInv'
<1>1. /\ thread = "unwinding" /\ thread' = "dead" /\ current = NoCall /\ chan' = <<>>
      /\ slot' = [c \in Calls |-> IF Queued(c) THEN "closed" ELSE slot[c]]
      /\ UNCHANGED <<listening, current, pool, task, result, http>>
  BY DEF IInv, ThreadInv, ReceiverDropped
<1>2. \A c \in Calls : Queued(c) => task[c] = "waiting"
  BY DEF IInv, HeldInv, Queued
<1>3. chan' \in Seq(Calls) /\ DOMAIN chan' = {}
  BY <1>1
<1>4. TypeOK'
  BY <1>1, <1>3 DEF IInv, TypeOK
<1>5. PoolInv' /\ AnswerInv'
  BY <1>1, <1>2 DEF IInv, TypeOK, PoolInv, AnswerInv
<1>6. ChanInv' /\ ThreadInv'
  BY <1>1, <1>3 DEF ChanInv, ThreadInv
<1>7. HeldInv'
  BY <1>1, <1>3 DEF IInv, TypeOK, HeldInv
<1>8. PoolBound'
  BY <1>1, BoundKept, PoolSizeType DEF IInv, Blocking
<1>9. QED
  BY <1>4, <1>5, <1>6, <1>7, <1>8 DEF IInv

LEMMA StepInv == IInv /\ [Next]_vars => IInv'
<1> SUFFICES ASSUME IInv, [Next]_vars PROVE IInv'
  OBVIOUS
<1>1. CASE Listen \/ UNCHANGED vars
  BY <1>1, ListenInv
<1>2. CASE StartTask
  BY <1>2, StartTaskInv
<1>3. ASSUME NEW c \in Calls, Ask(c) \/ Disconnect(c) \/ Send(c) \/ Receive(c) \/ Respond(c)
      PROVE  IInv'
  BY <1>3, AskInv, HandlerInv, SendInv, ReceiveInv
<1>4. CASE Serve
  BY <1>4, LoadInv, TakeInv, ReplyInv, PanicInv, ReceiverDroppedInv DEF Serve
<1>5. QED
  BY <1>1, <1>2, <1>3, <1>4 DEF Next

LEMMA Inductive == Spec => []IInv
BY InitInv, StepInv, PTL DEF Spec

-----------------------------------------------------------------------------
(* What follows from it.                                                   *)

\* Every variable has its type in every reachable state.
THEOREM TypeCorrect == Spec => []TypeOK
BY Inductive, PTL DEF IInv

LEMMA ForgottenNobody == IInv => NobodyForgotten
<1> SUFFICES ASSUME IInv, NEW c \in Calls, task[c] = "waiting", slot[c] = "empty"
             PROVE  /\ thread # "dead"
                    /\ \/ current = c /\ ~Queued(c)
                       \/ current # c /\ Cardinality({i \in DOMAIN chan : chan[i] = c}) = 1
  BY DEF NobodyForgotten
<1>1. current = c \/ Queued(c)
  BY DEF IInv, HeldInv
<1>2. thread # "dead"
  BY <1>1, ServerAssumption DEF IInv, ThreadInv, Queued
<1>3. CASE current = c
  BY <1>2, <1>3 DEF IInv, ChanInv, Queued
<1>4. CASE current # c
  <2>1. PICK i \in DOMAIN chan : chan[i] = c
    BY <1>1, <1>4 DEF Queued
  <2>2. {j \in DOMAIN chan : chan[j] = c} = {i}
    BY <2>1 DEF IInv, ChanInv
  <2>3. QED
    BY <1>2, <1>4, <2>2, FS_Singleton
<1>5. QED
  BY <1>3, <1>4

\* A task that blocks in recv is never forgotten, whatever panics and whoever
\* leaves: its request is in the channel once, or in hand, of a thread that
\* lives, or else its answer or the end of its reply channel is there
\* (handle.rs recv, main.rs).
THEOREM TasksRemembered == Spec => []NobodyForgotten
BY Inductive, ForgottenNobody, PTL

LEMMA BoundedBacklog == IInv => BacklogBounded
<1> SUFFICES ASSUME IInv PROVE BacklogBounded
  OBVIOUS
<1> DEFINE others == Blocking \ {current}
<1>1. /\ IsFiniteSet(Blocking) /\ Cardinality(Blocking) \in Nat
      /\ Cardinality(Blocking) <= PoolSize
  BY FS_CardinalityType DEF IInv, PoolBound
<1>2. /\ IsFiniteSet(others) /\ Cardinality(others) \in Nat
      /\ Cardinality(others) = IF current \in Blocking THEN Cardinality(Blocking) - 1
                                                     ELSE Cardinality(Blocking)
  BY <1>1, FS_RemoveElement, FS_CardinalityType
<1>3. chan \in Seq(others)
  <2>1. \A i \in DOMAIN chan : chan[i] \in others
    BY DEF IInv, TypeOK, ChanInv, HeldInv, Blocking
  <2>2. QED
    BY <2>1 DEF IInv, TypeOK
<1> HIDE DEF others
<1>4. Len(chan) <= Cardinality(others)
  BY <1>2, <1>3, DistinctBounded DEF IInv, ChanInv
<1>5. Len(chan) \in Nat
  BY <1>3
<1>6. current # NoCall => current \in Blocking
  BY DEF IInv, TypeOK, HeldInv, Blocking
<1>7. QED
  BY <1>1, <1>2, <1>4, <1>5, <1>6, PoolSizeType DEF BacklogBounded

\* The requests queued for the MLX thread and in its hands are never more than
\* the pool has threads, though the channel itself has no limit
\* (server.rs spawn_blocking, handle.rs).
THEOREM BacklogWithinPool == Spec => []BacklogBounded
BY Inductive, BoundedBacklog, PTL

-----------------------------------------------------------------------------
(* The server implements InferService.                                     *)

\* The variables of InferService.
Status == [c \in Calls |-> StatusOf(c)]
Order == IF current = NoCall THEN chan ELSE <<current>> \o chan
Down == thread = "dead"

\* The steps of InferService over these names.
Stutter == UNCHANGED <<Status, Order, Down>>

LEMMA StutterMaps == Stutter => UNCHANGED Service!svars
BY DEF Stutter, Status, Order, Down, Service!svars

\* What a call's task and handler know decides its status.
LEMMA StatusKept ==
  ASSUME \A c \in Calls : StatusOf(c)' = StatusOf(c)
  PROVE  Status' = Status
BY DEF Status

LEMMA StatusChanged ==
  ASSUME NEW c \in Calls, NEW s, StatusOf(c)' = s,
         \A d \in Calls \ {c} : StatusOf(d)' = StatusOf(d)
  PROVE  Status' = [Status EXCEPT ![c] = s]
BY DEF Status

\* Only a call without a task that was asked before can be asked.
LEMMA AskMaps ==
  ASSUME IInv, NEW c \in Calls, Ask(c)
  PROVE  Service!Ask(c)
<1>1. /\ task[c] = "none" /\ result[c] = "none" /\ slot[c] = "empty"
      /\ task' = [task EXCEPT ![c] = "queued"]
      /\ UNCHANGED <<thread, current, chan, slot, result>>
  BY DEF IInv, TypeOK, AnswerInv, Ask
<1>2. StatusOf(c) = "idle" /\ StatusOf(c)' = "asked"
  BY <1>1 DEF IInv, TypeOK, StatusOf
<1>3. \A d \in Calls \ {c} : StatusOf(d)' = StatusOf(d)
  BY <1>1 DEF IInv, TypeOK, StatusOf
<1>4. Status' = [Status EXCEPT ![c] = "asked"] /\ Status[c] = "idle"
  BY <1>2, <1>3, StatusChanged DEF Status
<1>5. UNCHANGED <<Order, Down>>
  BY <1>1 DEF Order, Down
<1>6. QED
  BY <1>4, <1>5 DEF Service!Ask, Status, Order, Down

\* Steps of the handler that its caller does not see, or sees as the end.
LEMMA HandlerMaps ==
  ASSUME IInv, NEW c \in Calls, Disconnect(c) \/ Respond(c)
  PROVE  Service!Release(c) \/ Stutter
<1>1. /\ result' = [result EXCEPT ![c] = "none"]
      /\ UNCHANGED <<thread, current, chan, task, slot>>
  BY DEF Disconnect, Respond
<1>2. \A d \in Calls \ {c} : StatusOf(d)' = StatusOf(d)
  BY <1>1 DEF IInv, TypeOK, StatusOf
<1>3. UNCHANGED <<Order, Down>>
  BY <1>1 DEF Order, Down
<1>4. CASE result[c] = "none"
  <2>1. StatusOf(c)' = StatusOf(c)
    BY <1>1, <1>4 DEF IInv, TypeOK, StatusOf
  <2>2. QED
    BY <1>2, <1>3, <2>1, StatusKept DEF Stutter
<1>5. CASE result[c] # "none"
  <2>1. StatusOf(c) \in {"text", "error"} /\ StatusOf(c)' = "idle"
    BY <1>1, <1>5 DEF IInv, TypeOK, AnswerInv, StatusOf
  <2>2. Status' = [Status EXCEPT ![c] = "idle"] /\ Status[c] \in {"text", "error"}
    BY <1>2, <2>1, StatusChanged DEF Status
  <2>3. QED
    BY <1>3, <2>2 DEF Service!Release, Status, Order, Down
<1>6. QED
  BY <1>4, <1>5

\* A task that ends leaves its answer with the handler, or nobody has it.
LEMMA ReturnStatus ==
  ASSUME IInv, NEW c \in Calls, NEW what \in {"text", "error"}, Return(c, what),
         task[c] \in {"started", "waiting"}, slot' = [slot EXCEPT ![c] = "empty"],
         UNCHANGED chan
  PROVE  /\ StatusOf(c)' = IF http[c] = "pending" THEN what ELSE "idle"
         /\ \A d \in Calls \ {c} : StatusOf(d)' = StatusOf(d)
         /\ UNCHANGED <<Order, Down>>
<1>1. /\ task' = [task EXCEPT ![c] = "none"]
      /\ result' = [result EXCEPT ![c] = IF http[c] = "pending" THEN what ELSE "none"]
      /\ UNCHANGED <<thread, current>>
  BY DEF Return
<1>2. StatusOf(c)' = IF http[c] = "pending" THEN what ELSE "idle"
  BY <1>1 DEF IInv, TypeOK, StatusOf
<1>3. \A d \in Calls \ {c} : StatusOf(d)' = StatusOf(d)
  BY <1>1 DEF IInv, TypeOK, StatusOf
<1>4. QED
  BY <1>1, <1>2, <1>3 DEF Order, Down

LEMMA ReceiveMaps ==
  ASSUME IInv, NEW c \in Calls, Receive(c)
  PROVE  Service!Release(c) \/ Stutter
<1> DEFINE what == IF slot[c] = "text" THEN "text" ELSE "error"
<1>1. /\ Return(c, what) /\ task[c] = "waiting" /\ slot[c] # "empty"
      /\ slot' = [slot EXCEPT ![c] = "empty"] /\ UNCHANGED chan
  BY DEF Receive
<1>2. StatusOf(c) = what /\ what \in {"text", "error"}
  BY <1>1 DEF IInv, TypeOK, StatusOf
<1> HIDE DEF what
<1>3. /\ StatusOf(c)' = IF http[c] = "pending" THEN what ELSE "idle"
      /\ \A d \in Calls \ {c} : StatusOf(d)' = StatusOf(d)
      /\ UNCHANGED <<Order, Down>>
  BY <1>1, <1>2, ReturnStatus
<1>4. CASE http[c] = "pending"
  BY <1>2, <1>3, <1>4, StatusKept DEF Stutter
<1>5. CASE http[c] # "pending"
  <2>1. Status' = [Status EXCEPT ![c] = "idle"] /\ Status[c] \in {"text", "error"}
    BY <1>2, <1>3, <1>5, StatusChanged DEF Status
  <2>2. QED
    BY <1>3, <2>1 DEF Service!Release, Status, Order, Down
<1>6. QED
  BY <1>4, <1>5

\* A request sent is accepted, or refused by a channel without receiver.
LEMMA SendMaps ==
  ASSUME IInv, NEW c \in Calls, Send(c)
  PROVE  Service!Accept(c) \/ Service!Refuse(c)
<1>1. /\ task[c] = "started" /\ slot[c] = "empty" /\ result[c] = "none"
      /\ StatusOf(c) = "asked" /\ Status[c] = "asked"
  BY DEF IInv, TypeOK, AnswerInv, Send, StatusOf, Status
<1>2. CASE thread = "dead"
  <2>1. Return(c, "error") /\ UNCHANGED <<chan, slot>> /\ slot' = [slot EXCEPT ![c] = "empty"]
    BY <1>1, <1>2 DEF IInv, TypeOK, Send
  <2>2. /\ StatusOf(c)' = IF http[c] = "pending" THEN "error" ELSE "idle"
        /\ \A d \in Calls \ {c} : StatusOf(d)' = StatusOf(d)
        /\ UNCHANGED <<Order, Down>>
    BY <1>1, <2>1, ReturnStatus
  <2>3. Status' = [Status EXCEPT ![c] = IF http[c] = "pending" THEN "error" ELSE "idle"]
    BY <2>2, StatusChanged
  <2>4. QED
    BY <1>1, <1>2, <2>2, <2>3 DEF Service!Refuse, Status, Order, Down
<1>3. CASE thread # "dead"
  <2>1. /\ chan \in Seq(Calls) /\ chan' = Append(chan, c)
        /\ task' = [task EXCEPT ![c] = "waiting"]
        /\ UNCHANGED <<thread, current, slot, result>>
    BY <1>3 DEF IInv, TypeOK, Send
  <2>2. \A d \in Calls : StatusOf(d)' = StatusOf(d)
    BY <1>1, <2>1 DEF IInv, TypeOK, StatusOf
  <2>3. (\A i \in DOMAIN chan : chan[i] # c) /\ current # c
    BY <1>1, ServerAssumption DEF IInv, HeldInv
  <2>4. \A i \in DOMAIN Order : Order[i] # c
    BY <2>1, <2>3 DEF Order
  <2>5. Order' = Append(Order, c)
    BY <2>1 DEF Order
  <2>6. UNCHANGED <<Status, Down>>
    BY <2>1, <2>2, StatusKept DEF Down
  <2>7. QED
    BY <1>1, <1>3, <2>4, <2>5, <2>6 DEF Service!Accept, Service!InOrder, Status, Order, Down
<1>4. QED
  BY <1>2, <1>3

\* The MLX thread loads, or takes the first request of the order in hand.
LEMMA QuietMaps ==
  ASSUME IInv, Listen \/ StartTask \/ Load \/ SelfTest \/ Take \/ UNCHANGED vars
  PROVE  Stutter
<1>1. CASE Listen \/ Load \/ SelfTest \/ UNCHANGED vars
  <2>1. UNCHANGED <<current, chan, task, slot, result>> /\ Down' = Down
    BY <1>1 DEF Listen, Load, SelfTest, vars, Down
  <2>2. Status' = Status
    BY <2>1, StatusKept DEF StatusOf
  <2>3. QED
    BY <2>1, <2>2 DEF Stutter, Order
<1>2. CASE StartTask
  <2>1. /\ Head(pool) \in Calls /\ task[Head(pool)] = "queued"
        /\ task' = [task EXCEPT ![Head(pool)] = "started"]
        /\ UNCHANGED <<thread, current, chan, slot, result>>
    BY <1>2, HeadTail DEF IInv, TypeOK, PoolInv, StartTask
  <2>2. \A d \in Calls : StatusOf(d)' = StatusOf(d)
    BY <2>1 DEF IInv, TypeOK, StatusOf
  <2>3. QED
    BY <2>1, <2>2, StatusKept DEF Stutter, Order, Down
<1>3. CASE Take
  <2>1. /\ chan \in Seq(Calls) /\ chan # <<>> /\ chan' = Tail(chan)
        /\ current = NoCall /\ current' = Head(chan)
        /\ UNCHANGED <<thread, task, slot, result>>
    BY <1>3 DEF IInv, TypeOK, Take
  <2>2. Head(chan) \in Calls /\ chan = <<Head(chan)>> \o Tail(chan)
    BY <2>1
  <2>3. Order' = Order
    BY <2>1, <2>2, ServerAssumption DEF Order
  <2>4. Status' = Status
    BY <2>1, StatusKept DEF StatusOf
  <2>5. QED
    BY <2>1, <2>3, <2>4 DEF Stutter, Down
<1>4. QED
  BY <1>1, <1>2, <1>3

\* The first of the order gets its answer.
LEMMA AnsweredMaps ==
  ASSUME IInv, current # NoCall, current' = NoCall,
         NEW answer \in {"text", "error", "closed"}, slot' = [slot EXCEPT ![current] = answer],
         thread # "dead", thread' # "dead", UNCHANGED <<chan, task, result>>
  PROVE  Service!Answer("text") \/ Service!Answer("error")
<1> DEFINE kind == IF answer = "text" THEN "text" ELSE "error"
<1>1. current \in Calls /\ task[current] = "waiting"
  BY DEF IInv, TypeOK, HeldInv
<1>2. PICK c \in Calls : c = current
  BY <1>1
<1>3. StatusOf(c)' = kind /\ \A d \in Calls \ {c} : StatusOf(d)' = StatusOf(d)
  BY <1>1, <1>2 DEF IInv, TypeOK, StatusOf
<1>4. Status' = [Status EXCEPT ![current] = kind]
  BY <1>2, <1>3, StatusChanged
<1>5. /\ Order # <<>> /\ Head(Order) = current /\ Tail(Order) = chan /\ Order' = chan
  <2>1. chan \in Seq(Calls) /\ chan' = chan
    BY DEF IInv, TypeOK
  <2>2. Order = <<current>> \o chan /\ Order' = chan
    BY <2>1 DEF Order
  <2>3. QED
    BY <1>1, <2>1, <2>2
<1>6. kind \in {"text", "error"}
  OBVIOUS
<1> HIDE DEF kind
<1>7. Service!Answer(kind)
  BY <1>4, <1>5 DEF Service!Answer, Status, Order, Down
<1>8. QED
  BY <1>6, <1>7

\* The MLX thread is gone, and everybody in the order has an error.
LEMMA DroppedMaps == ASSUME IInv, ReceiverDropped PROVE Service!Stop
<1>1. /\ thread = "unwinding" /\ thread' = "dead" /\ current = NoCall /\ chan' = <<>>
      /\ slot' = [c \in Calls |-> IF Queued(c) THEN "closed" ELSE slot[c]]
      /\ UNCHANGED <<current, task, result>>
  BY DEF IInv, ThreadInv, ReceiverDropped
<1>2. Order = chan /\ Order' = <<>>
  BY <1>1 DEF Order
<1>3. \A c \in Calls : Queued(c) => task[c] = "waiting"
  BY DEF IInv, HeldInv, Queued
<1>4. \A c \in Calls : StatusOf(c)' = IF Queued(c) THEN "error" ELSE StatusOf(c)
  BY <1>1, <1>3 DEF IInv, TypeOK, StatusOf
<1>5. Status' = [c \in Calls |-> IF \E i \in DOMAIN Order : Order[i] = c
                                THEN "error" ELSE Status[c]]
  BY <1>2, <1>4 DEF Status, Queued
<1>6. QED
  BY <1>1, <1>2, <1>5 DEF Service!Stop, Service!InOrder, Status, Order, Down

LEMMA ServiceStep == IInv /\ [Next]_vars => [Service!Next]_(Service!svars)
<1> SUFFICES ASSUME IInv, [Next]_vars PROVE Service!Next \/ Stutter
  BY StutterMaps
<1>1. CASE Listen \/ StartTask \/ Load \/ SelfTest \/ Take \/ UNCHANGED vars
  BY <1>1, QuietMaps
<1>2. ASSUME NEW c \in Calls, Ask(c) \/ Disconnect(c) \/ Send(c) \/ Receive(c) \/ Respond(c)
      PROVE  Service!Next \/ Stutter
  BY <1>2, AskMaps, HandlerMaps, SendMaps, ReceiveMaps DEF Service!Next
<1>3. CASE Reply
  <2>1. PICK answer \in IF thread = "ready" THEN {"text", "error"} ELSE {"error"} :
          slot' = [slot EXCEPT ![current] = answer]
    BY <1>3 DEF Reply
  <2>2. answer \in {"text", "error", "closed"}
    BY <2>1
  <2>3. QED
    BY <1>3, <2>1, <2>2, AnsweredMaps DEF Reply, Service!Next
<1>4. CASE Panic
  <2>1. /\ thread # "dead" /\ thread' = "unwinding" /\ current' = NoCall
        /\ UNCHANGED <<chan, task, result>>
    BY <1>4 DEF Panic
  <2>2. CASE current # NoCall
    <3>1. slot' = [slot EXCEPT ![current] = "closed"]
      BY <1>4, <2>2 DEF Panic
    <3>2. QED
      BY <2>1, <2>2, <3>1, AnsweredMaps DEF Service!Next
  <2>3. CASE current = NoCall
    <3>1. UNCHANGED <<current, slot>>
      BY <1>4, <2>3 DEF Panic
    <3>2. Status' = Status
      BY <2>1, <3>1, StatusKept DEF StatusOf
    <3>3. QED
      BY <2>1, <3>1, <3>2 DEF Stutter, Order, Down
  <2>4. QED
    BY <2>2, <2>3
<1>5. CASE ReceiverDropped
  BY <1>5, DroppedMaps DEF Service!Next
<1>6. QED
  BY <1>1, <1>2, <1>3, <1>4, <1>5 DEF Next, Serve

\* The server keeps the promise of InferService: the calls its channel accepts
\* are answered one by one in their order, each once, with the answer of the
\* request itself; after the MLX thread has died each gets an error.
THEOREM Implements == Spec => ImplementsService
<1>1. Init => Service!Init
  <2>1. Init => Status = [c \in Calls |-> "idle"] /\ Order = <<>> /\ ~Down
    BY DEF Init, Status, StatusOf, Order, Down
  <2>2. QED
    BY <2>1 DEF Service!Init, Status, Order, Down
<1>2. QED
  BY <1>1, Inductive, ServiceStep, PTL DEF Spec, ImplementsService, Service!Spec

-----------------------------------------------------------------------------
(* The registry: its inductive invariant.                                  *)

Indexes == {<<>>} \cup {Indexed(ds) : ds \in SUBSET Dirs}
Defaults == Keys \cup {None}

RegistryTypeOK ==
  /\ dirs \subseteq Dirs
  /\ registry \in [kind : {"absent", "empty", "json"}, default : Defaults,
                   models : Indexes]
  /\ scan \in [Scans -> [at : {"idle", "default", "open", "fail", "write"},
                         models : Indexes, default : Defaults]]
  /\ chosen \in Defaults
  /\ fresh \in BOOLEAN
  /\ scanPast \subseteq {"overlap", "cut"}

Scanning(s) == scan[s].at # "idle"

\* Scans that never overlapped are one at a time.
OneScan ==
  scanPast = {} => \A s, t \in Scans : Scanning(s) /\ Scanning(t) => s = t

\* What a scan has found, and what it wrote, is what is there, as long as no
\* directory has changed.
FreshInv ==
  scanPast = {} /\ fresh =>
    /\ \A s \in Scans : Scanning(s) => scan[s].models = Indexed(dirs)
    /\ registry.kind = "json" /\ (\A s \in Scans : ~Scanning(s)) =>
         registry.models = Indexed(dirs)

\* The default is in the registry, or with the scan that has truncated it.
DefaultInv ==
  scanPast = {} =>
    /\ \A s \in Scans : scan[s].at # "fail"
    /\ \A s \in Scans : scan[s].at \in {"open", "write"} => scan[s].default = chosen
    /\ (\A s \in Scans : scan[s].at # "write") =>
         registry.kind # "empty" /\ registry.default = chosen

RegistryInv == RegistryTypeOK /\ OneScan /\ FreshInv /\ DefaultInv

-----------------------------------------------------------------------------
(* The registry: what it answers.                                          *)

\* A directory is no bare name, and neither is None.
LEMMA KeysApart == Dirs \cap Bare = {} /\ None \notin Dirs /\ None \notin Bare
<1>1. ASSUME NEW d \in Dirs, d \in Bare PROVE FALSE
  <2>1. DOMAIN d = {"org", "name"} /\ DOMAIN d = {"name"}
    BY <1>1 DEF Dirs, Bare
  <2>2. QED
    BY <2>1
<1>2. QED
  BY <1>1, RegistryAssumption DEF Keys

\* The index of the directories answers every spec as the scan of them does.
LEMMA IndexAgrees ==
  ASSUME NEW ds \in SUBSET Dirs, NEW reg, reg.kind = "json", reg.models = Indexed(ds),
         NEW spec \in Specs \ {Default}
  PROVE  Resolve(spec, reg, ds) = Resolve(spec, Absent, ds)
<1>1. CASE spec \in Path
  BY <1>1 DEF Resolve
<1>2. ASSUME spec \notin Path
      PROVE  Resolve(spec, Absent, ds) = Scanned(spec, ds)
  BY <1>2 DEF Resolve, Lookup, Absent
<1>3. DOMAIN Indexed(ds) = ds \cup {k \in Bare : k.name \in UniqueNames(ds)}
  BY DEF Indexed
<1>4. CASE spec \notin Path /\ spec \in Dirs
  <2>1. Matches(spec, ds) = ds \cap {spec}
    BY <1>4, KeysApart DEF Matches
  <2>2. spec \in DOMAIN Indexed(ds) <=> spec \in ds
    BY <1>3, <1>4, KeysApart
  <2>3. CASE spec \in ds
    <3>1. Lookup(spec, reg) = spec
      BY <1>4, <2>2, <2>3 DEF Lookup, Indexed
    <3>2. Scanned(spec, ds) = spec
      <4>1. Matches(spec, ds) = {spec}
        BY <2>1, <2>3
      <4>2. QED
        BY <4>1, FS_Singleton DEF Scanned
    <3>3. spec # None
      BY <1>4, KeysApart
    <3>4. QED
      BY <1>2, <1>4, <2>3, <3>1, <3>2, <3>3 DEF Resolve, Valid
  <2>4. CASE spec \notin ds
    <3>1. Lookup(spec, reg) = None
      BY <1>4, <2>2, <2>4 DEF Lookup
    <3>2. QED
      BY <1>2, <1>4, <3>1 DEF Resolve
  <2>5. QED
    BY <2>3, <2>4
<1>5. CASE spec \notin Path /\ spec \in Bare
  <2>1. spec \notin Dirs /\ spec.name \in Names
    BY <1>5, KeysApart DEF Bare
  <2>2. Matches(spec, ds) = Called(spec.name, ds)
    BY <1>5, <2>1 DEF Matches
  <2>3. spec \in DOMAIN Indexed(ds) <=> Cardinality(Called(spec.name, ds)) = 1
    BY <1>3, <1>5, <2>1 DEF UniqueNames
  <2>4. CASE Cardinality(Called(spec.name, ds)) = 1
    <3>1. Lookup(spec, reg) = CHOOSE d \in Called(spec.name, ds) : TRUE
      BY <1>5, <2>1, <2>3, <2>4 DEF Lookup, Indexed
    <3>2. Scanned(spec, ds) = CHOOSE d \in Called(spec.name, ds) : TRUE
      BY <2>2, <2>4 DEF Scanned
    <3>3. Called(spec.name, ds) # {} /\ Called(spec.name, ds) \subseteq ds
      BY <2>4, FS_EmptySet DEF Called
    <3>4. Lookup(spec, reg) \in ds /\ Lookup(spec, reg) # None
      BY <3>1, <3>3, KeysApart
    <3>5. QED
      BY <1>2, <1>5, <3>1, <3>2, <3>4 DEF Resolve, Valid
  <2>5. CASE Cardinality(Called(spec.name, ds)) # 1
    <3>1. Lookup(spec, reg) = None
      BY <1>5, <2>3, <2>5 DEF Lookup
    <3>2. QED
      BY <1>2, <1>5, <3>1 DEF Resolve
  <2>6. QED
    BY <2>4, <2>5
<1>6. QED
  BY <1>1, <1>4, <1>5 DEF Specs, Keys

-----------------------------------------------------------------------------
(* The registry: invariance.                                               *)

LEMMA RegistryInitInv == RegistryInit => RegistryInv
<1> SUFFICES ASSUME RegistryInit PROVE RegistryInv
  OBVIOUS
<1> USE DEF RegistryInit, Absent, NotScanning
<1>1. RegistryTypeOK
  BY DEF RegistryTypeOK, Indexes, Defaults
<1>2. OneScan /\ FreshInv /\ DefaultInv
  BY DEF OneScan, FreshInv, DefaultInv, Scanning
<1>3. QED
  BY <1>1, <1>2 DEF RegistryInv

LEMMA ScanDirsInv ==
  ASSUME RegistryInv, NEW s \in Scans, ScanDirs(s)
  PROVE  RegistryInv'
<1>1. /\ RegistryTypeOK
      /\ scan[s].at = "idle"
      /\ scan' = [scan EXCEPT ![s] = [at |-> "default", models |-> Indexed(dirs), default |-> None]]
      /\ dirs' = dirs /\ registry' = registry /\ chosen' = chosen /\ fresh' = TRUE
      /\ scanPast \subseteq scanPast' /\ scanPast' \subseteq {"overlap", "cut"}
      /\ scanPast' = {} => \A t \in Scans \ {s} : ~Scanning(t)
  BY DEF RegistryInv, RegistryTypeOK, ScanDirs, Scanning
<1>2. RegistryTypeOK'
  BY <1>1 DEF RegistryTypeOK, Indexes, Defaults
<1>3. /\ scan'[s].at = "default" /\ scan'[s].models = Indexed(dirs)
      /\ \A t \in Scans \ {s} : scan'[t] = scan[t]
  BY <1>1 DEF RegistryTypeOK
<1>4. OneScan'
  BY <1>1, <1>3 DEF OneScan, Scanning
<1>5. FreshInv'
  BY <1>1, <1>3 DEF FreshInv, Scanning
<1>6. DefaultInv'
  <2>1. scanPast' = {} => scanPast = {}
    BY <1>1
  <2>2. QED
    BY <1>1, <1>3, <2>1 DEF RegistryInv, DefaultInv
<1>7. QED
  BY <1>2, <1>4, <1>5, <1>6 DEF RegistryInv

LEMMA ScanDefaultInv ==
  ASSUME RegistryInv, NEW s \in Scans, ScanDefault(s)
  PROVE  RegistryInv'
<1>1. /\ RegistryTypeOK
      /\ scan[s].at = "default"
      /\ dirs' = dirs /\ registry' = registry /\ chosen' = chosen /\ fresh' = fresh
      /\ scanPast' = scanPast
  BY DEF RegistryInv, ScanDefault
<1>2. scan' = [scan EXCEPT ![s] =
                [@ EXCEPT !.default = registry.default,
                          !.at = IF registry.kind = "empty" THEN "fail" ELSE "open"]]
  BY <1>1 DEF ScanDefault, PrevDefault, RegistryTypeOK
<1>3. /\ scan'[s].at = IF registry.kind = "empty" THEN "fail" ELSE "open"
      /\ scan'[s].models = scan[s].models /\ scan'[s].default = registry.default
      /\ \A t \in Scans \ {s} : scan'[t] = scan[t]
  BY <1>1, <1>2 DEF RegistryTypeOK
<1>4. RegistryTypeOK'
  BY <1>1, <1>2 DEF RegistryTypeOK
<1>5. \A t \in Scans : Scanning(t)' <=> Scanning(t)
  BY <1>1, <1>3 DEF Scanning
<1>6. OneScan' /\ FreshInv'
  BY <1>1, <1>3, <1>5 DEF RegistryInv, OneScan, FreshInv
<1>7. DefaultInv'
  <2>1. SUFFICES ASSUME scanPast = {} PROVE DefaultInv'
    BY <1>1 DEF DefaultInv
  <2>2. \A t \in Scans \ {s} : scan[t].at = "idle"
    BY <1>1, <2>1 DEF RegistryInv, OneScan, Scanning
  <2>3. registry.kind # "empty" /\ registry.default = chosen
    BY <1>1, <2>1, <2>2 DEF RegistryInv, DefaultInv
  <2>4. QED
    BY <1>1, <1>3, <2>2, <2>3 DEF DefaultInv
<1>8. QED
  BY <1>4, <1>6, <1>7 DEF RegistryInv

LEMMA ScanTruncateInv ==
  ASSUME RegistryInv, NEW s \in Scans, ScanTruncate(s)
  PROVE  RegistryInv'
<1>1. /\ RegistryTypeOK
      /\ scan[s].at \in {"open", "fail"} /\ registry' = Empty
      /\ dirs' = dirs /\ chosen' = chosen /\ fresh' = fresh /\ scanPast' = scanPast
      /\ scan' = [scan EXCEPT ![s] = IF @.at = "fail" THEN NotScanning
                                                     ELSE [@ EXCEPT !.at = "write"]]
  BY DEF RegistryInv, ScanTruncate
<1>2. /\ scan[s].at = "fail" => scan'[s] = NotScanning
      /\ scan[s].at = "open" => scan'[s] = [scan[s] EXCEPT !.at = "write"]
      /\ \A t \in Scans \ {s} : scan'[t] = scan[t]
  BY <1>1 DEF RegistryTypeOK
<1>3. RegistryTypeOK'
  <2>1. Empty \in [kind : {"absent", "empty", "json"}, default : Defaults, models : Indexes]
    BY DEF Empty, Defaults, Indexes
  <2>2. NotScanning \in [at : {"idle", "default", "open", "fail", "write"},
                         models : Indexes, default : Defaults]
    BY DEF NotScanning, Defaults, Indexes
  <2>3. QED
    BY <1>1, <2>1, <2>2 DEF RegistryTypeOK
<1>4. \A t \in Scans : Scanning(t)' => Scanning(t)
  BY <1>1, <1>2 DEF Scanning
<1>5. OneScan'
  BY <1>1, <1>4 DEF RegistryInv, OneScan
<1>6. FreshInv'
  <2>1. \A t \in Scans : Scanning(t)' => scan'[t].models = scan[t].models
    BY <1>1, <1>2 DEF Scanning, NotScanning
  <2>2. QED
    BY <1>1, <1>4, <2>1 DEF RegistryInv, FreshInv, Empty
<1>7. DefaultInv'
  <2>1. SUFFICES ASSUME scanPast = {} PROVE DefaultInv'
    BY <1>1 DEF DefaultInv
  <2>2. scan[s].at = "open" /\ scan[s].default = chosen
    <3>1. scan[s].at # "fail" /\ (scan[s].at = "open" => scan[s].default = chosen)
      BY <2>1 DEF RegistryInv, DefaultInv
    <3>2. QED
      BY <1>1, <3>1
  <2>3. scan'[s].at = "write" /\ scan'[s].default = chosen
    BY <1>1, <1>2, <2>2 DEF RegistryTypeOK
  <2>4. QED
    BY <1>1, <1>2, <2>1, <2>3 DEF RegistryInv, DefaultInv
<1>8. QED
  BY <1>3, <1>5, <1>6, <1>7 DEF RegistryInv

LEMMA ScanWriteInv ==
  ASSUME RegistryInv, NEW s \in Scans, ScanWrite(s)
  PROVE  RegistryInv'
<1>1. /\ RegistryTypeOK
      /\ scan[s].at = "write"
      /\ registry' = [kind |-> "json", default |-> scan[s].default, models |-> scan[s].models]
      /\ scan' = [scan EXCEPT ![s] = NotScanning]
      /\ dirs' = dirs /\ chosen' = chosen /\ fresh' = fresh /\ scanPast' = scanPast
  BY DEF RegistryInv, ScanWrite
<1>2. scan'[s] = NotScanning /\ \A t \in Scans \ {s} : scan'[t] = scan[t]
  BY <1>1 DEF RegistryTypeOK
<1>3. RegistryTypeOK'
  <2>1. NotScanning \in [at : {"idle", "default", "open", "fail", "write"},
                         models : Indexes, default : Defaults]
    BY DEF NotScanning, Defaults, Indexes
  <2>2. QED
    BY <1>1, <2>1 DEF RegistryTypeOK
<1>4. /\ ~Scanning(s)' /\ Scanning(s)
      /\ \A t \in Scans \ {s} : Scanning(t)' <=> Scanning(t)
  BY <1>1, <1>2 DEF Scanning, NotScanning
<1>5. OneScan'
  BY <1>1, <1>4 DEF RegistryInv, OneScan
<1>6. FreshInv'
  BY <1>1, <1>2, <1>4 DEF RegistryInv, FreshInv
<1>7. DefaultInv'
  BY <1>1, <1>2 DEF RegistryInv, DefaultInv, NotScanning
<1>8. QED
  BY <1>3, <1>5, <1>6, <1>7 DEF RegistryInv

LEMMA ScanDiesInv ==
  ASSUME RegistryInv, NEW s \in Scans, ScanDies(s)
  PROVE  RegistryInv'
<1>1. /\ RegistryTypeOK
      /\ scan' = [scan EXCEPT ![s] = NotScanning]
      /\ dirs' = dirs /\ registry' = registry /\ chosen' = chosen /\ fresh' = FALSE
      /\ scanPast \subseteq scanPast' /\ scanPast' \subseteq {"overlap", "cut"}
      /\ scanPast' = {} => scan[s].at # "write"
  BY DEF RegistryInv, RegistryTypeOK, ScanDies
<1>2. scan'[s] = NotScanning /\ \A t \in Scans \ {s} : scan'[t] = scan[t]
  BY <1>1 DEF RegistryTypeOK
<1>3. RegistryTypeOK'
  <2>1. NotScanning \in [at : {"idle", "default", "open", "fail", "write"},
                         models : Indexes, default : Defaults]
    BY DEF NotScanning, Defaults, Indexes
  <2>2. QED
    BY <1>1, <2>1 DEF RegistryTypeOK
<1>4. scanPast' = {} => scanPast = {}
  BY <1>1
<1>5. OneScan'
  <2>1. \A t \in Scans : Scanning(t)' => Scanning(t)
    BY <1>2 DEF Scanning, NotScanning
  <2>2. QED
    BY <1>4, <2>1 DEF RegistryInv, OneScan
<1>6. FreshInv'
  BY <1>1 DEF FreshInv
<1>7. DefaultInv'
  BY <1>1, <1>2, <1>4 DEF RegistryInv, DefaultInv, NotScanning
<1>8. QED
  BY <1>3, <1>5, <1>6, <1>7 DEF RegistryInv

LEMMA ChangeDirsInv ==
  ASSUME RegistryInv, ChangeDirs
  PROVE  RegistryInv'
<1>1. RegistryTypeOK'
  BY DEF RegistryInv, RegistryTypeOK, ChangeDirs
<1>2. OneScan' /\ FreshInv' /\ DefaultInv'
  BY DEF RegistryInv, OneScan, FreshInv, DefaultInv, ChangeDirs, Scanning
<1>3. QED
  BY <1>1, <1>2 DEF RegistryInv

LEMMA SetDefaultInv ==
  ASSUME RegistryInv, SetDefault
  PROVE  RegistryInv'
<1>1. PICK key \in Keys : registry' = [registry EXCEPT !.default = key] /\ chosen' = key
  BY DEF SetDefault
<1>2. /\ RegistryTypeOK /\ registry.kind = "json"
      /\ \A s \in Scans : scan[s].at = "idle"
      /\ dirs' = dirs /\ scan' = scan /\ fresh' = fresh /\ scanPast' = scanPast
  BY DEF RegistryInv, SetDefault
<1>3. /\ registry'.kind = "json" /\ registry'.default = key
      /\ registry'.models = registry.models
  BY <1>1, <1>2 DEF RegistryTypeOK
<1>4. RegistryTypeOK'
  BY <1>1, <1>2 DEF RegistryTypeOK, Defaults
<1>5. OneScan' /\ FreshInv'
  BY <1>2, <1>3 DEF RegistryInv, OneScan, FreshInv, Scanning
<1>6. DefaultInv'
  BY <1>1, <1>2, <1>3 DEF DefaultInv
<1>7. QED
  BY <1>4, <1>5, <1>6 DEF RegistryInv

LEMMA RegistryStepInv == RegistryInv /\ [RegistryNext]_registryVars => RegistryInv'
<1> SUFFICES ASSUME RegistryInv, [RegistryNext]_registryVars PROVE RegistryInv'
  OBVIOUS
<1>1. ASSUME NEW s \in Scans,
             ScanDirs(s) \/ ScanDefault(s) \/ ScanTruncate(s) \/ ScanWrite(s) \/ ScanDies(s)
      PROVE  RegistryInv'
  BY <1>1, ScanDirsInv, ScanDefaultInv, ScanTruncateInv, ScanWriteInv, ScanDiesInv
<1>2. CASE ChangeDirs \/ SetDefault
  BY <1>2, ChangeDirsInv, SetDefaultInv
<1>3. CASE UNCHANGED registryVars
  BY <1>3 DEF registryVars, RegistryInv, RegistryTypeOK, OneScan, FreshInv, DefaultInv, Scanning
<1>4. QED
  BY <1>1, <1>2, <1>3 DEF RegistryNext

LEMMA RegistryInductive == RegistrySpec => []RegistryInv
BY RegistryInitInv, RegistryStepInv, PTL DEF RegistrySpec

-----------------------------------------------------------------------------
(* The registry: theorems.                                                 *)

\* What the registry file and a running scan may hold (server.sh cmd_models).
THEOREM RegistryTypes == RegistrySpec => []RegistryTypeOK
<1>1. RegistryInv => RegistryTypeOK
  BY DEF RegistryInv
<1>2. QED
  BY <1>1, RegistryInductive, PTL

\* After a scan, and until the directories change, the registry answers every
\* spec as the dynamic scan would without one (server.sh cmd_models against
\* common.sh resolve_model).
THEOREM RegistryAgrees == RegistrySpec => []FreshAgrees
<1>1. RegistryInv => FreshAgrees
  <2>1. SUFFICES ASSUME RegistryInv, Settled, fresh, registry.kind = "json",
                        NEW spec \in Specs \ {Default}
                 PROVE  Resolve(spec, registry, dirs) = Resolve(spec, Absent, dirs)
    BY DEF FreshAgrees
  <2>2. registry.models = Indexed(dirs) /\ dirs \in SUBSET Dirs
    BY <2>1 DEF RegistryInv, RegistryTypeOK, FreshInv, Settled, Scanning
  <2>3. QED
    BY <2>1, <2>2, IndexAgrees
<1>2. QED
  BY <1>1, RegistryInductive, PTL

\* The default an operator chose survives any number of scans, unless two
\* overlapped or one was cut after it had truncated the file (server.sh
\* cmd_models, prev_default).
THEOREM DefaultSurvives == RegistrySpec => []DefaultKept
<1>1. RegistryInv => DefaultKept
  BY DEF RegistryInv, DefaultInv, DefaultKept, Settled
<1>2. QED
  BY <1>1, RegistryInductive, PTL

-----------------------------------------------------------------------------
(* The scripts: the inductive invariant.                                   *)

StartPlaces == {"start", "start_probe", "launch", "write", "wait"}
StopPlaces == {"stop", "stop_probe", "cat", "term", "poll", "rm"}
PidPlaces == {"start_probe", "stop_probe", "cat", "term", "poll", "write", "wait"}
Invocations ==
  [at : {"idle"} \cup StartPlaces \cup StopPlaces, op : Ops, pid : Pids \cup {NoPid},
   waited : Nat]

ScriptTypeOK ==
  /\ pidfile \in Pids \cup {NoPid}
  /\ proc \in [Pids -> {"none", "build", "serving", "other"}]
  /\ signal \in [Pids -> {"no", "term", "kill"}]
  /\ inv \in [Cmds -> Invocations]
  /\ fell \subseteq Pids
  /\ past \subseteq {"overlap", "cut", "recycled"}

\* What an invocation knows where it is.
PlaceInv ==
  \A c \in Cmds :
    /\ At(c, "idle") => inv[c] = Idle
    /\ inv[c].at \in StartPlaces => inv[c].op = "start"
    /\ inv[c].at \in PidPlaces => inv[c].pid \in Pids

\* Unless invocations overlapped out of order, only stops run side by side.
AloneInv ==
  "overlap" \notin past =>
    \A c, d \in Cmds : c # d /\ Running(c) /\ Running(d) => inv[c].op = "stop"

\* A signal goes with its process.
SignalInv == \A p \in Pids : proc[p] = "none" => signal[p] = "no"

\* A pid that was read is still the one in the file, or the file is gone.
ReadInv ==
  Orderly =>
    \A c \in Cmds :
      /\ inv[c].at \in {"start_probe", "stop_probe", "term", "poll"} =>
           pidfile \in {inv[c].pid, NoPid}
      /\ At(c, "wait") => pidfile = inv[c].pid

\* A server that has not been sent KILL.
Loose(p) == proc[p] \in Server /\ signal[p] # "kill"
Polled(p) == \E c \in Cmds : At(c, "poll") /\ inv[c].pid = p
Written(p) == \E c \in Cmds : At(c, "write") /\ inv[c].pid = p

\* The file names every such server, but for one whose file is about to be
\* written and one that another stop still waits for; where the file is
\* about to be removed or written there is no other.
LooseInv ==
  Orderly =>
    \A p \in Pids : Loose(p) =>
      /\ p = pidfile \/ Polled(p) \/ Written(p)
      /\ \A c \in Cmds : inv[c].at \in {"launch", "rm"} => Polled(p)
      /\ \A c \in Cmds : At(c, "write") => Polled(p) \/ inv[c].pid = p

\* As long as nothing is out of order, no stranger has a pid a script knows,
\* and a file left by a server that was sent a signal is about to go.
StrangerInv ==
  past = {} =>
    /\ \A p \in Pids : proc[p] = "other" =>
         signal[p] = "no" /\ pidfile # p /\ \A c \in Cmds : inv[c].pid # p
    /\ pidfile \in Pids /\ (signal[pidfile] # "no"
                              \/ (proc[pidfile] = "none" /\ pidfile \notin fell)) =>
         \E c \in Cmds : inv[c].at \in {"poll", "rm"}
    /\ \A c \in Cmds : At(c, "write") =>
         signal[inv[c].pid] = "no" /\ (proc[inv[c].pid] # "none" \/ inv[c].pid \in fell)

ScriptInv ==
  ScriptTypeOK /\ PlaceInv /\ AloneInv /\ SignalInv /\ ReadInv /\ LooseInv /\ StrangerInv

-----------------------------------------------------------------------------
(* The scripts: invariance.                                                *)

Places == {"idle"} \cup StartPlaces \cup StopPlaces

LEMMA ScriptInitInv == ScriptInit => ScriptInv
<1> SUFFICES ASSUME ScriptInit PROVE ScriptInv
  OBVIOUS
<1>1. \A c \in Cmds : inv[c] = Idle /\ inv[c].at = "idle"
  BY DEF ScriptInit, Idle
<1>2. ScriptTypeOK
  BY DEF ScriptInit, ScriptTypeOK, Invocations, Idle, Ops
<1>3. PlaceInv
  BY <1>1 DEF PlaceInv, At, StartPlaces, PidPlaces
<1>4. AloneInv /\ ReadInv
  BY <1>1 DEF AloneInv, ReadInv, Running, At
<1>5. SignalInv
  BY DEF ScriptInit, SignalInv
<1>6. LooseInv
  BY DEF ScriptInit, LooseInv, Loose, Server
<1>7. StrangerInv
  BY <1>1, ScriptsAssumption DEF ScriptInit, StrangerInv, At
<1>8. QED
  BY <1>2, <1>3, <1>4, <1>5, <1>6, <1>7 DEF ScriptInv

\* Where an invocation goes.
LEMMA Moves ==
  ASSUME ScriptTypeOK, NEW c \in Cmds, NEW place \in Places, NEW p \in Pids \cup {NoPid},
         NEW op \in Ops, Go(c, place, p, op)
  PROVE  /\ inv' \in [Cmds -> Invocations]
         /\ \A d \in Cmds : d # c => inv'[d] = inv[d]
         /\ inv'[c].at = place /\ inv'[c].pid \in {p, NoPid}
         /\ place = "idle" => inv'[c] = Idle
         /\ place # "idle" => inv'[c].pid = p /\ inv'[c].op = op
<1> DEFINE r == IF place = "idle" THEN Idle
                ELSE [at |-> place, op |-> op, pid |-> p, waited |-> 0]
<1>1. r \in Invocations
  BY DEF Invocations, Places, Idle, Ops
<1>2. /\ r.at = place /\ r.pid \in {p, NoPid}
      /\ place = "idle" => r = Idle
      /\ place # "idle" => r.pid = p /\ r.op = op
  BY DEF Idle
<1>3. inv' = [inv EXCEPT ![c] = r] /\ inv \in [Cmds -> Invocations]
  BY DEF Go, ScriptTypeOK
<1> HIDE DEF r
<1>4. QED
  BY <1>1, <1>2, <1>3

\* The type of one invocation.
LEMMA OneInvocation ==
  ASSUME ScriptTypeOK, NEW c \in Cmds
  PROVE  /\ inv[c].at \in Places /\ inv[c].op \in Ops
         /\ inv[c].pid \in Pids \cup {NoPid} /\ inv[c].waited \in Nat
BY DEF ScriptTypeOK, Invocations, Places

\* Next to an invocation that does not write the file nobody does.
LEMMA NobodyWrites ==
  ASSUME ScriptInv, Orderly, NEW c \in Cmds, Running(c), ~At(c, "write"),
         NEW p \in Pids, Loose(p), p # pidfile
  PROVE  Polled(p)
<1>1. ASSUME NEW d \in Cmds, At(d, "write") PROVE FALSE
  <2>1. d # c /\ Running(d)
    BY <1>1 DEF At, Running
  <2>2. inv[d].op = "start"
    BY <1>1 DEF ScriptInv, PlaceInv, At, StartPlaces
  <2>3. inv[d].op = "stop"
    BY <2>1 DEF ScriptInv, AloneInv, Orderly
  <2>4. QED
    BY <2>2, <2>3
<1>2. p = pidfile \/ Polled(p) \/ Written(p)
  BY DEF ScriptInv, LooseInv
<1>3. QED
  BY <1>1, <1>2 DEF Written

\* A command that only moves its invocation on.
LEMMA QuietMove ==
  ASSUME ScriptInv, NEW c \in Cmds, Running(c),
         NEW place \in Places \ {"write", "wait", "poll"}, NEW p \in Pids \cup {NoPid},
         Go(c, place, p, inv[c].op),
         UNCHANGED <<pidfile, procs, history>>,
         place \in StartPlaces => inv[c].op = "start",
         place \in PidPlaces => p \in Pids,
         p \in {inv[c].pid, pidfile},
         Orderly /\ place \in {"start_probe", "stop_probe", "term"} => pidfile = p,
         inv[c].at \notin {"write", "rm"},
         At(c, "poll") => place = "rm" /\ ~Loose(inv[c].pid),
         place \in {"launch", "rm"} => pidfile \notin Pids \/ ~Loose(pidfile) \/ ~Orderly
  PROVE  ScriptInv'
<1>1. /\ ScriptTypeOK /\ inv[c].op \in Ops
      /\ pidfile' = pidfile /\ proc' = proc /\ signal' = signal
      /\ fell' = fell /\ past' = past
  BY OneInvocation DEF ScriptInv, procs, history
<1>2. /\ inv' \in [Cmds -> Invocations]
      /\ \A d \in Cmds : d # c => inv'[d] = inv[d]
      /\ inv'[c].at = place /\ inv'[c].pid \in {p, NoPid}
      /\ place = "idle" => inv'[c] = Idle
      /\ place # "idle" => inv'[c].pid = p /\ inv'[c].op = inv[c].op
  BY <1>1, Moves
<1>3. ScriptTypeOK'
  BY <1>1, <1>2 DEF ScriptTypeOK
<1>4. PlaceInv'
  BY <1>2 DEF ScriptInv, PlaceInv, At, StartPlaces, PidPlaces
<1>5. AloneInv'
  BY <1>1, <1>2 DEF ScriptInv, AloneInv, Running
<1>6. SignalInv'
  BY <1>1 DEF ScriptInv, SignalInv
<1>7. ReadInv'
  BY <1>1, <1>2 DEF ScriptInv, ReadInv, Orderly, At
<1>8. LooseInv'
  <2>1. SUFFICES ASSUME Orderly, NEW q \in Pids, Loose(q)
                 PROVE  /\ q = pidfile \/ Polled(q)' \/ Written(q)'
                        /\ \A d \in Cmds : inv'[d].at \in {"launch", "rm"} => Polled(q)'
                        /\ \A d \in Cmds : At(d, "write")' => Polled(q)' \/ inv'[d].pid = q
    BY <1>1 DEF LooseInv, Loose, Orderly
  <2>2. Polled(q) => Polled(q)'
    <3>1. SUFFICES ASSUME NEW d \in Cmds, At(d, "poll"), inv[d].pid = q
                   PROVE  Polled(q)'
      BY DEF Polled
    <3>2. d # c
      BY <2>1, <3>1
    <3>3. QED
      BY <1>2, <3>1, <3>2 DEF Polled, At
  <2>3. Written(q) => Written(q)'
    BY <1>2 DEF Written, At
  <2>4. /\ q = pidfile \/ Polled(q) \/ Written(q)
        /\ \A d \in Cmds : inv[d].at \in {"launch", "rm"} => Polled(q)
        /\ \A d \in Cmds : At(d, "write") => Polled(q) \/ inv[d].pid = q
    BY <2>1 DEF ScriptInv, LooseInv
  <2>5. place \in {"launch", "rm"} => Polled(q)
    BY <2>1, NobodyWrites DEF At
  <2>6. QED
    BY <1>2, <2>2, <2>3, <2>4, <2>5 DEF At
<1>9. StrangerInv'
  <2>1. SUFFICES ASSUME past = {} PROVE StrangerInv'
    BY <1>1 DEF StrangerInv
  <2>2. /\ \A q \in Pids : proc[q] = "other" =>
             signal[q] = "no" /\ pidfile # q /\ \A d \in Cmds : inv[d].pid # q
        /\ pidfile \in Pids /\ (signal[pidfile] # "no"
                                  \/ (proc[pidfile] = "none" /\ pidfile \notin fell)) =>
             \E d \in Cmds : inv[d].at \in {"poll", "rm"}
        /\ \A d \in Cmds : At(d, "write") =>
             signal[inv[d].pid] = "no" /\ (proc[inv[d].pid] # "none" \/ inv[d].pid \in fell)
    BY <2>1 DEF ScriptInv, StrangerInv
  <2>3. \A q \in Pids : proc[q] = "other" =>
          signal[q] = "no" /\ pidfile # q /\ \A d \in Cmds : inv'[d].pid # q
    BY <1>2, <2>2, ScriptsAssumption
  <2>4. (\E d \in Cmds : inv[d].at \in {"poll", "rm"}) =>
          \E d \in Cmds : inv'[d].at \in {"poll", "rm"}
    BY <1>2 DEF At
  <2>5. \A d \in Cmds : At(d, "write")' =>
          signal[inv'[d].pid] = "no" /\ (proc[inv'[d].pid] # "none" \/ inv'[d].pid \in fell)
    BY <1>2, <2>2 DEF At
  <2>6. QED
    BY <1>1, <2>2, <2>3, <2>4, <2>5 DEF StrangerInv
<1>10. QED
  BY <1>3, <1>4, <1>5, <1>6, <1>7, <1>8, <1>9 DEF ScriptInv

\* One more second of a polling loop.
LEMMA Waits ==
  ASSUME ScriptInv, NEW c \in Cmds, inv' = [inv EXCEPT ![c].waited = @ + 1],
         UNCHANGED <<pidfile, procs, history>>, Running(c)
  PROVE  ScriptInv'
<1>1. /\ ScriptTypeOK
      /\ pidfile' = pidfile /\ proc' = proc /\ signal' = signal
      /\ fell' = fell /\ past' = past
  BY DEF ScriptInv, procs, history
<1>2. inv[c] \in Invocations /\ inv[c].waited + 1 \in Nat
  BY <1>1 DEF ScriptTypeOK, Invocations
<1>3. /\ inv' \in [Cmds -> Invocations]
      /\ \A d \in Cmds : /\ inv'[d].at = inv[d].at
                         /\ inv'[d].op = inv[d].op
                         /\ inv'[d].pid = inv[d].pid
      /\ \A d \in Cmds : d # c => inv'[d] = inv[d]
  BY <1>1, <1>2 DEF ScriptTypeOK, Invocations
<1>4. ScriptTypeOK'
  BY <1>1, <1>3 DEF ScriptTypeOK
<1>5. PlaceInv' /\ AloneInv'
  BY <1>1, <1>3 DEF ScriptInv, PlaceInv, AloneInv, At, Running
<1>6. SignalInv' /\ ReadInv'
  BY <1>1, <1>3 DEF ScriptInv, SignalInv, ReadInv, Orderly, At
<1>7. LooseInv'
  <2>1. \A p : (Polled(p)' <=> Polled(p)) /\ (Written(p)' <=> Written(p))
                 /\ (Loose(p)' <=> Loose(p))
    BY <1>1, <1>3 DEF Polled, Written, Loose, At
  <2>2. QED
    BY <1>1, <1>3, <2>1 DEF ScriptInv, LooseInv, Orderly, At
<1>8. StrangerInv'
  BY <1>1, <1>3 DEF ScriptInv, StrangerInv, At
<1>9. QED
  BY <1>4, <1>5, <1>6, <1>7, <1>8 DEF ScriptInv

\* The commands that touch neither the file nor a process.
LEMMA QuietSteps ==
  ASSUME ScriptInv, NEW c \in Cmds,
         \/ StartCheck(c) \/ StartProbe(c) \/ Unresolved(c) \/ WaitPoll(c) \/ WaitTimeout(c)
         \/ StopCheck(c) \/ StopProbe(c) \/ Cat(c) \/ StopPoll(c)
  PROVE  ScriptInv'
<1>1. /\ ScriptTypeOK /\ PlaceInv /\ pidfile \in Pids \cup {NoPid}
      /\ inv[c].pid \in Pids \cup {NoPid} /\ NoPid \notin Pids
  BY OneInvocation, ScriptsAssumption DEF ScriptInv, ScriptTypeOK
<1>2. Orderly /\ inv[c].at \in {"start_probe", "stop_probe", "term", "poll"} =>
        pidfile \in {inv[c].pid, NoPid}
  BY DEF ScriptInv, ReadInv
<1>3. \A p : ~Alive(p) => ~Loose(p)
  BY DEF Alive, Loose, Server
<1> USE DEF At, Running, Places, StartPlaces, StopPlaces, PidPlaces
<1>4. CASE StartCheck(c)
  <2> DEFINE place == IF pidfile = NoPid THEN "launch" ELSE "start_probe"
  <2>1. /\ inv[c].at = "start" /\ Go(c, place, pidfile, inv[c].op)
        /\ UNCHANGED <<pidfile, procs, history>>
    BY <1>4 DEF StartCheck, ReadPid
  <2>2. inv[c].op = "start"
    BY <2>1 DEF ScriptInv, PlaceInv
  <2>3. QED
    BY <1>1, <2>1, <2>2, QuietMove
<1>5. CASE StartProbe(c)
  <2> DEFINE place == IF Alive(inv[c].pid) THEN "idle" ELSE "launch"
  <2>1. /\ inv[c].at = "start_probe" /\ Go(c, place, inv[c].pid, inv[c].op)
        /\ UNCHANGED <<pidfile, procs, history>>
    BY <1>5 DEF StartProbe, Probe, Goto
  <2>2. inv[c].op = "start"
    BY <2>1 DEF ScriptInv, PlaceInv
  <2>3. QED
    BY <1>1, <1>2, <1>3, <2>1, <2>2, QuietMove
<1>6. CASE Unresolved(c)
  <2>1. /\ inv[c].at = "launch" /\ Go(c, "idle", inv[c].pid, inv[c].op)
        /\ UNCHANGED <<pidfile, procs, history>>
    BY <1>6 DEF Unresolved, Goto
  <2>2. QED
    BY <1>1, <2>1, QuietMove
<1>7. CASE WaitPoll(c)
  <2>1. inv[c].at = "wait" /\ UNCHANGED <<pidfile, procs, history>>
    BY <1>7 DEF WaitPoll, Poll
  <2>2. CASE Up
    <3>1. Go(c, "idle", inv[c].pid, inv[c].op)
      BY <1>7, <2>2 DEF WaitPoll, Poll, Goto
    <3>2. QED
      BY <1>1, <2>1, <3>1, QuietMove
  <2>3. CASE ~Up
    BY <1>7, <2>1, <2>3, Waits DEF WaitPoll, Poll
  <2>4. QED
    BY <2>2, <2>3
<1>8. CASE WaitTimeout(c)
  <2>1. /\ inv[c].at = "wait" /\ Go(c, "stop", inv[c].pid, inv[c].op)
        /\ UNCHANGED <<pidfile, procs, history>>
    BY <1>8 DEF WaitTimeout, Goto
  <2>2. QED
    BY <1>1, <2>1, QuietMove
<1>9. CASE StopCheck(c)
  <2> DEFINE place == IF pidfile = NoPid THEN "rm" ELSE "stop_probe"
  <2>1. /\ inv[c].at = "stop" /\ Go(c, place, pidfile, inv[c].op)
        /\ UNCHANGED <<pidfile, procs, history>>
    BY <1>9 DEF StopCheck, ReadPid
  <2>2. QED
    BY <1>1, <2>1, QuietMove
<1>10. CASE StopProbe(c)
  <2> DEFINE place == IF Alive(inv[c].pid) THEN "cat" ELSE "rm"
  <2>1. /\ inv[c].at = "stop_probe" /\ Go(c, place, inv[c].pid, inv[c].op)
        /\ UNCHANGED <<pidfile, procs, history>>
    BY <1>10 DEF StopProbe, Probe, Goto
  <2>2. inv[c].pid \in Pids
    BY <2>1 DEF ScriptInv, PlaceInv
  <2>3. QED
    BY <1>1, <1>2, <1>3, <2>1, <2>2, QuietMove
<1>11. CASE Cat(c)
  <2> DEFINE place == IF pidfile = NoPid THEN "idle" ELSE "term"
  <2>1. /\ inv[c].at = "cat" /\ Go(c, place, pidfile, inv[c].op)
        /\ UNCHANGED <<pidfile, procs, history>>
    BY <1>11 DEF Cat, ReadPid
  <2>2. QED
    BY <1>1, <2>1, QuietMove
<1>12. CASE StopPoll(c)
  <2>1. inv[c].at = "poll" /\ UNCHANGED <<pidfile, procs, history>>
    BY <1>12 DEF StopPoll, Poll
  <2>2. CASE ~Alive(inv[c].pid)
    <3>1. Go(c, "rm", inv[c].pid, inv[c].op)
      BY <1>12, <2>2 DEF StopPoll, Poll, Goto
    <3>2. QED
      BY <1>1, <1>2, <1>3, <2>1, <2>2, <3>1, QuietMove
  <2>3. CASE Alive(inv[c].pid)
    BY <1>12, <2>1, <2>3, Waits DEF StopPoll, Poll
  <2>4. QED
    BY <2>2, <2>3
<1>13. QED
  BY <1>4, <1>5, <1>6, <1>7, <1>8, <1>9, <1>10, <1>11, <1>12

\* Nobody runs next to a start, and only stops next to another invocation.
LEMMA Beside ==
  ASSUME ScriptInv, Orderly, NEW c \in Cmds, Running(c), NEW d \in Cmds, d # c, Running(d)
  PROVE  /\ inv[c].op = "stop" /\ inv[c].at \notin StartPlaces
         /\ inv[d].op = "stop" /\ inv[d].at \notin StartPlaces
BY DEF ScriptInv, AloneInv, PlaceInv, Orderly

\* stop sends a signal, at first TERM and at last KILL.
LEMMA Signals ==
  ASSUME ScriptInv, NEW c \in Cmds, NEW sig \in {"term", "kill"},
         NEW place \in {"poll", "rm"},
         sig = "term" => At(c, "term") /\ place = "poll",
         sig = "kill" => At(c, "poll") /\ place = "rm",
         Kill(inv[c].pid, sig), Go(c, place, inv[c].pid, inv[c].op),
         UNCHANGED <<pidfile, proc, history>>
  PROVE  ScriptInv'
<1> DEFINE p == inv[c].pid
<1>1. /\ ScriptTypeOK /\ p \in Pids /\ inv[c].op \in Ops /\ Running(c)
      /\ inv[c].at \in {"term", "poll"} /\ place \in Places \ {"idle"}
  BY OneInvocation
     DEF ScriptInv, PlaceInv, At, Running, PidPlaces, Places, StartPlaces, StopPlaces
<1>2. /\ pidfile' = pidfile /\ proc' = proc /\ fell' = fell /\ past' = past
      /\ signal' \in [Pids -> {"no", "term", "kill"}]
      /\ \A q \in Pids : q # p => signal'[q] = signal[q]
      /\ Alive(p) => signal'[p] = sig
      /\ ~Alive(p) => signal'[p] = signal[p]
  BY <1>1 DEF Kill, history, ScriptTypeOK
<1>3. /\ inv' \in [Cmds -> Invocations]
      /\ \A d \in Cmds : d # c => inv'[d] = inv[d]
      /\ inv'[c].at = place /\ inv'[c].pid = p /\ inv'[c].op = inv[c].op
  BY <1>1, Moves
<1>4. Orderly => pidfile \in {p, NoPid}
  BY <1>1 DEF ScriptInv, ReadInv
<1> HIDE DEF p
<1>5. ScriptTypeOK'
  BY <1>1, <1>2, <1>3 DEF ScriptTypeOK
<1>6. PlaceInv'
  BY <1>1, <1>3 DEF ScriptInv, PlaceInv, At, StartPlaces, PidPlaces
<1>7. AloneInv'
  BY <1>1, <1>2, <1>3 DEF ScriptInv, AloneInv, Running, At
<1>8. SignalInv'
  BY <1>1, <1>2 DEF ScriptInv, SignalInv, Alive
<1>9. ReadInv'
  BY <1>2, <1>3, <1>4 DEF ScriptInv, ReadInv, Orderly, At
<1>10. LooseInv'
  <2>1. SUFFICES ASSUME Orderly, NEW q \in Pids, Loose(q)'
                 PROVE  /\ q = pidfile \/ Polled(q)' \/ Written(q)'
                        /\ \A d \in Cmds : inv'[d].at \in {"launch", "rm"} => Polled(q)'
                        /\ \A d \in Cmds : At(d, "write")' => Polled(q)' \/ inv'[d].pid = q
    BY <1>2 DEF LooseInv, Orderly
  <2>2. CASE sig = "term" /\ q = p
    BY <1>3, <2>2 DEF Polled, At
  <2>3. CASE q # p
    <3>1. Loose(q)
      BY <1>2, <2>1, <2>3 DEF Loose
    <3>2. Polled(q) => Polled(q)'
      BY <1>3, <2>3 DEF Polled, At, p
    <3>3. q # pidfile
      BY <1>4, <2>1, <2>3, ScriptsAssumption
    <3>4. ~At(c, "write")
      BY <1>1 DEF At
    <3>5. Polled(q)
      BY <1>1, <2>1, <3>1, <3>3, <3>4, NobodyWrites
    <3>6. QED
      BY <3>2, <3>5
  <2>4. CASE sig = "kill" /\ q = p
    <3>1. ~Loose(q)'
      BY <1>1, <1>2, <2>4 DEF Loose, Alive, Server
    <3>2. QED
      BY <2>1, <3>1
  <2>5. QED
    BY <2>2, <2>3, <2>4
<1>11. StrangerInv'
  <2>1. SUFFICES ASSUME past = {} PROVE StrangerInv'
    BY <1>2 DEF StrangerInv
  <2>2. Orderly
    BY <2>1 DEF Orderly
  <2>3. \A q \in Pids : proc[q] = "other" =>
          signal[q] = "no" /\ pidfile # q /\ \A d \in Cmds : inv[d].pid # q
    BY <2>1 DEF ScriptInv, StrangerInv
  <2>4. \A q \in Pids : proc[q] = "other" =>
          signal'[q] = "no" /\ pidfile # q /\ \A d \in Cmds : inv'[d].pid # q
    BY <1>2, <1>3, <2>3 DEF p
  <2>5. \E d \in Cmds : inv'[d].at \in {"poll", "rm"}
    BY <1>3
  <2>6. ASSUME NEW d \in Cmds, At(d, "write")' PROVE FALSE
    <3>1. d # c /\ At(d, "write")
      BY <1>3, <2>6 DEF At
    <3>2. QED
      BY <1>1, <2>2, <3>1, Beside DEF At, Running, StartPlaces
  <2>7. QED
    BY <1>2, <2>4, <2>5, <2>6 DEF StrangerInv
<1>12. QED
  BY <1>5, <1>6, <1>7, <1>8, <1>9, <1>10, <1>11 DEF ScriptInv

\* The file is removed, whatever it names by now.
LEMMA RemoveInv ==
  ASSUME ScriptInv, NEW c \in Cmds, RemovePid(c)
  PROVE  ScriptInv'
<1>1. /\ ScriptTypeOK /\ inv[c].at = "rm" /\ Running(c) /\ AfterStop(c) \in {"idle", "start"}
      /\ pidfile' = NoPid /\ proc' = proc /\ signal' = signal /\ fell' = fell /\ past' = past
      /\ Go(c, AfterStop(c), NoPid, "start")
      /\ NoPid \notin Pids
  BY ScriptsAssumption
     DEF ScriptInv, RemovePid, procs, history, At, Running, AfterStop
<1>2. /\ inv' \in [Cmds -> Invocations]
      /\ \A d \in Cmds : d # c => inv'[d] = inv[d]
      /\ inv'[c].at = AfterStop(c) /\ inv'[c].pid = NoPid
      /\ AfterStop(c) = "idle" => inv'[c] = Idle
      /\ AfterStop(c) = "start" => inv'[c].op = "start" /\ inv[c].op = "restart"
  <2>1. AfterStop(c) \in Places /\ "start" \in Ops
    BY <1>1 DEF Places, StartPlaces, Ops
  <2>2. AfterStop(c) = "start" => inv[c].op = "restart"
    BY DEF AfterStop
  <2>3. QED
    BY <1>1, <2>1, <2>2, Moves
<1>3. ScriptTypeOK'
  BY <1>1, <1>2 DEF ScriptTypeOK
<1>4. PlaceInv'
  BY <1>1, <1>2 DEF ScriptInv, PlaceInv, At, StartPlaces, PidPlaces
<1>5. AloneInv'
  BY <1>1, <1>2 DEF ScriptInv, AloneInv, Running, At
<1>6. SignalInv'
  BY <1>1 DEF ScriptInv, SignalInv
<1>7. ReadInv'
  <2>1. SUFFICES ASSUME Orderly, NEW d \in Cmds, At(d, "wait")'
                 PROVE  FALSE
    BY <1>1 DEF ReadInv, Orderly
  <2>2. d # c /\ At(d, "wait")
    BY <1>1, <1>2, <2>1 DEF At
  <2>3. QED
    BY <1>1, <2>1, <2>2, Beside DEF At, Running, StartPlaces
<1>8. LooseInv'
  <2>1. SUFFICES ASSUME Orderly, NEW q \in Pids, Loose(q)
                 PROVE  Polled(q)'
    BY <1>1 DEF LooseInv, Loose, Orderly
  <2>2. Polled(q)
    BY <1>1, <2>1 DEF ScriptInv, LooseInv
  <2>3. QED
    BY <1>1, <1>2, <2>2 DEF Polled, At
<1>9. StrangerInv'
  BY <1>1, <1>2 DEF ScriptInv, StrangerInv, At
<1>10. QED
  BY <1>3, <1>4, <1>5, <1>6, <1>7, <1>8, <1>9 DEF ScriptInv

\* A process of ours gets a pid that is free.
LEMMA LaunchInv ==
  ASSUME ScriptInv, NEW c \in Cmds, Launch(c)
  PROVE  ScriptInv'
<1>1. PICK p \in Pids : /\ proc[p] = "none"
                        /\ proc' = [proc EXCEPT ![p] = "build"]
                        /\ fell' = fell \ {p}
                        /\ Go(c, "write", p, "start")
  BY DEF Launch
<1>2. /\ ScriptTypeOK /\ inv[c].at = "launch" /\ Running(c)
      /\ pidfile' = pidfile /\ signal' = signal /\ past' = past
      /\ signal[p] = "no"
  BY <1>1 DEF ScriptInv, SignalInv, Launch, At, Running
<1>3. /\ inv' \in [Cmds -> Invocations]
      /\ \A d \in Cmds : d # c => inv'[d] = inv[d]
      /\ inv'[c].at = "write" /\ inv'[c].pid = p /\ inv'[c].op = "start"
      /\ inv[c].op = "start"
  <2>1. "write" \in Places /\ "start" \in Ops
    BY DEF Places, StartPlaces, Ops
  <2>2. inv[c].op = "start"
    BY <1>2 DEF ScriptInv, PlaceInv, StartPlaces
  <2>3. QED
    BY <1>1, <1>2, <2>1, <2>2, Moves
<1>4. proc'[p] = "build" /\ \A q \in Pids : q # p => proc'[q] = proc[q]
  BY <1>1, <1>2 DEF ScriptTypeOK
<1>5. Orderly => \A d \in Cmds : d # c => ~Running(d)
  BY <1>2, Beside DEF StartPlaces
<1>6. ScriptTypeOK'
  BY <1>1, <1>2, <1>3 DEF ScriptTypeOK
<1>7. PlaceInv'
  BY <1>3 DEF ScriptInv, PlaceInv, At, StartPlaces, PidPlaces
<1>8. AloneInv'
  BY <1>2, <1>3 DEF ScriptInv, AloneInv, Running, At
<1>9. SignalInv'
  BY <1>2, <1>4 DEF ScriptInv, SignalInv
<1>10. ReadInv'
  BY <1>2, <1>3 DEF ScriptInv, ReadInv, Orderly, At
<1>11. LooseInv'
  <2>1. SUFFICES ASSUME Orderly, NEW q \in Pids, Loose(q)'
                 PROVE  /\ Polled(q)' \/ Written(q)'
                        /\ \A d \in Cmds : inv'[d].at \in {"launch", "rm"} => Polled(q)'
                        /\ \A d \in Cmds : At(d, "write")' => Polled(q)' \/ inv'[d].pid = q
    BY <1>2 DEF LooseInv, Orderly
  <2>2. \A d \in Cmds : inv'[d].at # "idle" => d = c
    BY <1>3, <1>5, <2>1 DEF Running, At
  <2>3. CASE q = p
    BY <1>3, <2>2, <2>3 DEF Written, At
  <2>4. CASE q # p
    <3>1. Loose(q)
      BY <1>2, <1>4, <2>1, <2>4 DEF Loose
    <3>2. Polled(q)
      BY <1>2, <2>1, <3>1 DEF ScriptInv, LooseInv
    <3>3. QED
      BY <1>2, <1>5, <2>1, <3>2 DEF Polled, At, Running
  <2>5. QED
    BY <2>3, <2>4
<1>12. StrangerInv'
  <2>1. SUFFICES ASSUME past = {} PROVE StrangerInv'
    BY <1>2 DEF StrangerInv
  <2>2. /\ \A q \in Pids : proc[q] = "other" =>
             signal[q] = "no" /\ pidfile # q /\ \A d \in Cmds : inv[d].pid # q
        /\ pidfile \in Pids /\ (signal[pidfile] # "no"
                                  \/ (proc[pidfile] = "none" /\ pidfile \notin fell)) =>
             \E d \in Cmds : inv[d].at \in {"poll", "rm"}
    BY <2>1 DEF ScriptInv, StrangerInv
  <2>3. \A d \in Cmds : d # c => inv[d].at = "idle"
    BY <1>5, <2>1 DEF Running, At, Orderly
  <2>4. \A q \in Pids : proc'[q] = "other" =>
          signal[q] = "no" /\ pidfile # q /\ \A d \in Cmds : inv'[d].pid # q
    BY <1>3, <1>4, <2>2
  <2>5. pidfile \in Pids => signal[pidfile] = "no"
                             /\ (proc'[pidfile] # "none" \/ pidfile \in fell')
    BY <1>1, <1>2, <1>4, <2>2, <2>3
  <2>6. \A d \in Cmds : At(d, "write")' =>
          signal[inv'[d].pid] = "no" /\ proc'[inv'[d].pid] # "none"
    BY <1>2, <1>3, <1>4, <2>3 DEF At
  <2>7. QED
    BY <1>2, <2>4, <2>5, <2>6 DEF StrangerInv
<1>13. QED
  BY <1>6, <1>7, <1>8, <1>9, <1>10, <1>11, <1>12 DEF ScriptInv

LEMMA WriteInv ==
  ASSUME ScriptInv, NEW c \in Cmds, WritePid(c)
  PROVE  ScriptInv'
<1> DEFINE p == inv[c].pid
<1>1. /\ ScriptTypeOK /\ inv[c].at = "write" /\ Running(c)
      /\ p \in Pids /\ inv[c].op = "start"
      /\ pidfile' = p /\ proc' = proc /\ signal' = signal /\ fell' = fell /\ past' = past
      /\ Go(c, "wait", p, inv[c].op)
  BY DEF ScriptInv, PlaceInv, WritePid, Goto, procs, history, At, Running,
         StartPlaces, PidPlaces
<1>2. /\ inv' \in [Cmds -> Invocations]
      /\ \A d \in Cmds : d # c => inv'[d] = inv[d]
      /\ inv'[c].at = "wait" /\ inv'[c].pid = p /\ inv'[c].op = "start"
  <2>1. "wait" \in Places /\ "start" \in Ops
    BY DEF Places, StartPlaces, Ops
  <2>2. QED
    BY <1>1, <2>1, Moves
<1> HIDE DEF p
<1>3. Orderly => \A d \in Cmds : d # c => ~Running(d) /\ inv'[d].at = "idle"
  BY <1>1, <1>2, Beside DEF StartPlaces, Running, At
<1>4. ScriptTypeOK'
  BY <1>1, <1>2 DEF ScriptTypeOK
<1>5. PlaceInv'
  BY <1>1, <1>2 DEF ScriptInv, PlaceInv, At, StartPlaces, PidPlaces
<1>6. AloneInv'
  BY <1>1, <1>2 DEF ScriptInv, AloneInv, Running, At
<1>7. SignalInv'
  BY <1>1 DEF ScriptInv, SignalInv
<1>8. ReadInv'
  BY <1>1, <1>2, <1>3 DEF ReadInv, Orderly, At
<1>9. LooseInv'
  <2>1. SUFFICES ASSUME Orderly, NEW q \in Pids, Loose(q)
                 PROVE  q = p
    BY <1>1, <1>2, <1>3 DEF LooseInv, Loose, Orderly, At
  <2>2. Polled(q) \/ q = p
    BY <1>1, <2>1 DEF ScriptInv, LooseInv, At, p
  <2>3. ~Polled(q)
    BY <1>1, <1>3, <2>1 DEF Polled, At, Running
  <2>4. QED
    BY <2>2, <2>3
<1>10. StrangerInv'
  <2>1. SUFFICES ASSUME past = {} PROVE StrangerInv'
    BY <1>1 DEF StrangerInv
  <2>2. /\ \A q \in Pids : proc[q] = "other" =>
             signal[q] = "no" /\ \A d \in Cmds : inv[d].pid # q
        /\ signal[p] = "no" /\ (proc[p] # "none" \/ p \in fell)
    BY <1>1, <2>1 DEF ScriptInv, StrangerInv, At, p
  <2>3. \A d \in Cmds : ~At(d, "write")'
    BY <1>2, <1>3, <2>1 DEF At, Orderly
  <2>4. QED
    BY <1>1, <1>2, <2>2, <2>3 DEF StrangerInv, p
<1>11. QED
  BY <1>4, <1>5, <1>6, <1>7, <1>8, <1>9, <1>10 DEF ScriptInv

-----------------------------------------------------------------------------
(* The scripts: the operator and the processes.                            *)

LEMMA InvokeInv ==
  ASSUME ScriptInv, NEW c \in Cmds, NEW op \in Ops, Invoke(c, op)
  PROVE  ScriptInv'
<1> DEFINE place == IF op = "start" THEN "start" ELSE "stop"
<1>1. /\ ScriptTypeOK /\ inv[c].at = "idle" /\ Go(c, place, NoPid, op)
      /\ pidfile' = pidfile /\ proc' = proc /\ signal' = signal /\ fell' = fell
      /\ past \subseteq past' /\ past' \subseteq {"overlap", "cut", "recycled"}
      /\ "overlap" \notin past' =>
           \A d \in Cmds : Running(d) => op = "stop" /\ inv[d].op = "stop"
      /\ NoPid \notin Pids
  BY ScriptsAssumption
     DEF ScriptInv, ScriptTypeOK, Invoke, procs, Running, At, Launches
<1>2. /\ inv' \in [Cmds -> Invocations]
      /\ \A d \in Cmds : d # c => inv'[d] = inv[d]
      /\ inv'[c].at = place /\ inv'[c].pid = NoPid /\ inv'[c].op = op
      /\ place \in {"start", "stop"} /\ (place = "start" => op = "start")
  <2>1. place \in Places \ {"idle"}
    BY DEF Places, StartPlaces, StopPlaces
  <2>2. QED
    BY <1>1, <2>1, Moves
<1> HIDE DEF place
<1>3. ScriptTypeOK'
  BY <1>1, <1>2 DEF ScriptTypeOK
<1>4. PlaceInv'
  BY <1>2 DEF ScriptInv, PlaceInv, At, StartPlaces, PidPlaces
<1>5. AloneInv'
  BY <1>1, <1>2 DEF ScriptInv, AloneInv, Running, At
<1>6. SignalInv'
  BY <1>1 DEF ScriptInv, SignalInv
<1>7. Orderly' => Orderly
  BY <1>1 DEF Orderly
<1>8. ReadInv'
  BY <1>1, <1>2, <1>7 DEF ScriptInv, ReadInv, At
<1>9. LooseInv'
  <2>1. \A q : /\ (Polled(q) => Polled(q)') /\ (Written(q) => Written(q)')
               /\ (Loose(q)' <=> Loose(q))
    BY <1>1, <1>2 DEF Polled, Written, Loose, At
  <2>2. QED
    BY <1>1, <1>2, <1>7, <2>1 DEF ScriptInv, LooseInv, At
<1>10. StrangerInv'
  <2>1. past' = {} => past = {}
    BY <1>1
  <2>2. QED
    BY <1>1, <1>2, <2>1 DEF ScriptInv, StrangerInv, At
<1>11. QED
  BY <1>3, <1>4, <1>5, <1>6, <1>8, <1>9, <1>10 DEF ScriptInv

LEMMA InterruptInv ==
  ASSUME ScriptInv, NEW c \in Cmds, Interrupt(c)
  PROVE  ScriptInv'
<1>1. /\ ScriptTypeOK /\ Running(c) /\ Go(c, "idle", inv[c].pid, inv[c].op)
      /\ pidfile' = pidfile /\ proc' = proc /\ signal' = signal /\ fell' = fell
      /\ past' = IF inv[c].at \in {"write", "poll", "rm"} THEN past \cup {"cut"} ELSE past
      /\ inv[c].pid \in Pids \cup {NoPid} /\ inv[c].op \in Ops
  BY OneInvocation DEF ScriptInv, Interrupt, Goto, procs
<1>2. CASE inv[c].at \notin {"write", "poll", "rm"}
  <2>1. UNCHANGED <<pidfile, procs, history>>
    BY <1>1, <1>2 DEF procs, history
  <2>2. QED
    BY <1>1, <1>2, <2>1, QuietMove DEF At, Places, StartPlaces, PidPlaces
<1>3. CASE inv[c].at \in {"write", "poll", "rm"}
  <2>1. past' = past \cup {"cut"} /\ ~Orderly' /\ past' # {}
    BY <1>1, <1>3 DEF Orderly
  <2>2. /\ inv' \in [Cmds -> Invocations]
        /\ \A d \in Cmds : d # c => inv'[d] = inv[d]
        /\ inv'[c] = Idle
    BY <1>1, Moves DEF Places
  <2>3. ScriptTypeOK'
    BY <1>1, <2>1, <2>2 DEF ScriptTypeOK
  <2>4. PlaceInv' /\ AloneInv'
    BY <2>1, <2>2
       DEF ScriptInv, PlaceInv, AloneInv, Running, At, Idle, StartPlaces, PidPlaces
  <2>5. SignalInv'
    BY <1>1 DEF ScriptInv, SignalInv
  <2>6. ReadInv' /\ LooseInv' /\ StrangerInv'
    BY <2>1 DEF ReadInv, LooseInv, StrangerInv
  <2>7. QED
    BY <2>3, <2>4, <2>5, <2>6 DEF ScriptInv
<1>4. QED
  BY <1>2, <1>3

\* What a process does leaves the invocations where they are.
LEMMA InvocationsKept ==
  ASSUME ScriptInv, UNCHANGED <<pidfile, inv>>, past \subseteq past',
         past' \cap {"overlap", "cut"} = past \cap {"overlap", "cut"}
  PROVE  PlaceInv' /\ AloneInv' /\ ReadInv'
<1>1. inv' = inv /\ pidfile' = pidfile /\ (Orderly' => Orderly)
  BY DEF Orderly
<1>2. "overlap" \notin past' => "overlap" \notin past
  OBVIOUS
<1>3. QED
  BY <1>1, <1>2 DEF ScriptInv, PlaceInv, AloneInv, ReadInv, At, Running

LEMMA LooseKept ==
  ASSUME ScriptInv, UNCHANGED <<pidfile, inv>>, Orderly' => Orderly,
         \A q \in Pids : Loose(q)' => Loose(q)
  PROVE  LooseInv'
BY DEF ScriptInv, LooseInv, Polled, Written, At

LEMMA EndsInv ==
  ASSUME ScriptInv, NEW p \in Pids, Alive(p), Ends(p)
  PROVE  ScriptInv'
<1>1. /\ ScriptTypeOK /\ pidfile' = pidfile /\ inv' = inv /\ past' = past
      /\ proc' = [proc EXCEPT ![p] = "none"]
      /\ signal' = [signal EXCEPT ![p] = "no"]
      /\ fell' = IF proc[p] \in Server /\ signal[p] = "no" THEN fell \cup {p} ELSE fell
  BY DEF ScriptInv, Ends
<1>2. /\ proc'[p] = "none" /\ signal'[p] = "no"
      /\ \A q \in Pids : q # p => proc'[q] = proc[q] /\ signal'[q] = signal[q]
  BY <1>1 DEF ScriptTypeOK
<1>3. ScriptTypeOK'
  BY <1>1 DEF ScriptTypeOK
<1>4. SignalInv'
  BY <1>2 DEF ScriptInv, SignalInv
<1>5. PlaceInv' /\ AloneInv' /\ ReadInv'
  BY <1>1, InvocationsKept
<1>6. LooseInv'
  <2>1. \A q \in Pids : Loose(q)' => Loose(q)
    BY <1>2 DEF Loose, Server
  <2>2. QED
    BY <1>1, <2>1, LooseKept DEF Orderly
<1>7. StrangerInv'
  <2>1. SUFFICES ASSUME past = {} PROVE StrangerInv'
    BY <1>1 DEF StrangerInv
  <2>2. /\ \A q \in Pids : proc[q] = "other" =>
             signal[q] = "no" /\ pidfile # q /\ \A d \in Cmds : inv[d].pid # q
        /\ pidfile \in Pids /\ (signal[pidfile] # "no"
                                  \/ (proc[pidfile] = "none" /\ pidfile \notin fell)) =>
             \E d \in Cmds : inv[d].at \in {"poll", "rm"}
        /\ \A d \in Cmds : At(d, "write") =>
             signal[inv[d].pid] = "no" /\ (proc[inv[d].pid] # "none" \/ inv[d].pid \in fell)
    BY <2>1 DEF ScriptInv, StrangerInv
  <2>3. proc[p] = "other" \/ proc[p] \in Server
    BY <1>1 DEF ScriptTypeOK, Alive, Server
  <2>4. \A q \in Pids : proc'[q] = "other" =>
          signal'[q] = "no" /\ pidfile # q /\ \A d \in Cmds : inv[d].pid # q
    BY <1>2, <2>2
  <2>5. pidfile \in Pids /\ (signal'[pidfile] # "no"
                              \/ (proc'[pidfile] = "none" /\ pidfile \notin fell')) =>
          \E d \in Cmds : inv[d].at \in {"poll", "rm"}
    BY <1>1, <1>2, <2>2, <2>3
  <2>6. ASSUME NEW d \in Cmds, At(d, "write")
        PROVE  signal'[inv[d].pid] = "no" /\ (proc'[inv[d].pid] # "none" \/ inv[d].pid \in fell')
    <3>1. inv[d].pid \in Pids
      BY <2>6 DEF ScriptInv, PlaceInv, At, PidPlaces
    <3>2. CASE inv[d].pid = p
      BY <1>1, <1>2, <2>2, <2>3, <2>6, <3>2
    <3>3. CASE inv[d].pid # p
      BY <1>1, <1>2, <2>2, <2>6, <3>1, <3>3
    <3>4. QED
      BY <3>2, <3>3
  <2>7. QED
    BY <1>1, <2>4, <2>5, <2>6 DEF StrangerInv, At
<1>8. QED
  BY <1>3, <1>4, <1>5, <1>6, <1>7 DEF ScriptInv

LEMMA BindInv ==
  ASSUME ScriptInv, NEW p \in Pids, Bind(p)
  PROVE  ScriptInv'
<1>1. proc[p] = "build" /\ Alive(p)
  BY DEF Bind, Alive
<1>2. CASE Ends(p)
  BY <1>1, <1>2, EndsInv
<1>3. CASE /\ proc' = [proc EXCEPT ![p] = "serving"]
           /\ UNCHANGED <<pidfile, signal, inv, history>>
  <2>1. /\ ScriptTypeOK /\ pidfile' = pidfile /\ inv' = inv /\ signal' = signal
        /\ fell' = fell /\ past' = past
        /\ proc'[p] = "serving" /\ \A q \in Pids : q # p => proc'[q] = proc[q]
    BY <1>3 DEF ScriptInv, ScriptTypeOK, history
  <2>2. ScriptTypeOK'
    BY <1>3, <2>1 DEF ScriptTypeOK
  <2>3. SignalInv'
    BY <2>1 DEF ScriptInv, SignalInv
  <2>4. PlaceInv' /\ AloneInv' /\ ReadInv'
    BY <2>1, InvocationsKept
  <2>5. LooseInv'
    <3>1. \A q \in Pids : Loose(q)' => Loose(q)
      BY <1>1, <2>1 DEF Loose, Server
    <3>2. QED
      BY <2>1, <3>1, LooseKept DEF Orderly
  <2>6. StrangerInv'
    <3>1. \A d \in Cmds : At(d, "write") => inv[d].pid \in Pids
      BY DEF ScriptInv, PlaceInv, At, PidPlaces
    <3>2. \A q \in Pids : /\ proc'[q] = "other" <=> proc[q] = "other"
                         /\ proc'[q] = "none" <=> proc[q] = "none"
      BY <1>1, <2>1
    <3>3. QED
      BY <2>1, <3>1, <3>2 DEF ScriptInv, StrangerInv, At
  <2>7. QED
    BY <2>2, <2>3, <2>4, <2>5, <2>6 DEF ScriptInv
<1>4. QED
  BY <1>2, <1>3 DEF Bind

LEMMA RecycleInv ==
  ASSUME ScriptInv, NEW p \in Pids, Recycle(p)
  PROVE  ScriptInv'
<1>1. /\ ScriptTypeOK /\ pidfile' = pidfile /\ inv' = inv /\ signal' = signal /\ fell' = fell
      /\ proc[p] = "none" /\ proc' = [proc EXCEPT ![p] = "other"]
      /\ past \subseteq past' /\ past' \subseteq past \cup {"recycled"}
      /\ past' = {} => p \notin fell /\ \A c \in Cmds : ~Running(c)
  BY DEF ScriptInv, Recycle
<1>2. /\ proc'[p] = "other" /\ signal[p] = "no"
      /\ \A q \in Pids : q # p => proc'[q] = proc[q]
  BY <1>1 DEF ScriptInv, ScriptTypeOK, SignalInv
<1>3. ScriptTypeOK'
  BY <1>1 DEF ScriptTypeOK
<1>4. SignalInv'
  BY <1>1, <1>2 DEF ScriptInv, SignalInv
<1>5. PlaceInv' /\ AloneInv' /\ ReadInv'
  BY <1>1, InvocationsKept
<1>6. LooseInv'
  <2>1. \A q \in Pids : Loose(q)' => Loose(q)
    BY <1>1, <1>2 DEF Loose, Server
  <2>2. QED
    BY <1>1, <2>1, LooseKept DEF Orderly
<1>7. StrangerInv'
  <2>1. SUFFICES ASSUME past' = {} PROVE StrangerInv'
    BY DEF StrangerInv
  <2>2. past = {} /\ p \notin fell /\ \A c \in Cmds : inv[c] = Idle
    BY <1>1, <2>1 DEF ScriptInv, PlaceInv, Running, At
  <2>3. \A c \in Cmds : inv[c].pid = NoPid /\ inv[c].at = "idle"
    BY <2>2 DEF Idle
  <2>4. pidfile # p
    BY <1>1, <2>2, <2>3 DEF ScriptInv, StrangerInv
  <2>5. QED
    BY <1>1, <1>2, <2>2, <2>3, <2>4, ScriptsAssumption DEF ScriptInv, StrangerInv, At
<1>8. QED
  BY <1>3, <1>4, <1>5, <1>6, <1>7 DEF ScriptInv

LEMMA ScriptStepInv == ScriptInv /\ [ScriptNext]_scriptVars => ScriptInv'
<1> SUFFICES ASSUME ScriptInv, [ScriptNext]_scriptVars PROVE ScriptInv'
  OBVIOUS
<1>1. ASSUME NEW c \in Cmds, NEW op \in Ops, Invoke(c, op) PROVE ScriptInv'
  BY <1>1, InvokeInv
<1>2. ASSUME NEW c \in Cmds, Interrupt(c) PROVE ScriptInv'
  BY <1>2, InterruptInv
<1>3. ASSUME NEW c \in Cmds, Step(c) PROVE ScriptInv'
  <2>1. CASE Term(c)
    BY <2>1, Signals DEF Term, Goto, At
  <2>2. CASE StopKill(c)
    BY <2>2, Signals DEF StopKill, Goto, At
  <2>3. QED
    BY <1>3, <2>1, <2>2, QuietSteps, LaunchInv, WriteInv, RemoveInv DEF Step
<1>4. ASSUME NEW p \in Pids, Bind(p) \/ Exit(p) \/ Recycle(p) PROVE ScriptInv'
  BY <1>4, BindInv, EndsInv, RecycleInv DEF Exit
<1>5. CASE UNCHANGED scriptVars
  BY <1>5
     DEF scriptVars, procs, history, ScriptInv, ScriptTypeOK, PlaceInv, AloneInv, SignalInv,
         ReadInv, LooseInv, StrangerInv, Loose, Polled, Written, Orderly, At, Running
<1>6. QED
  BY <1>1, <1>2, <1>3, <1>4, <1>5 DEF ScriptNext

LEMMA ScriptInductive == ScriptSpec => []ScriptInv
BY ScriptInitInv, ScriptStepInv, PTL DEF ScriptSpec

-----------------------------------------------------------------------------
(* The scripts: theorems.                                                  *)

\* What the pid file, the processes and the invocations may be.
THEOREM ScriptTypes == ScriptSpec => []ScriptTypeOK
<1>1. ScriptInv => ScriptTypeOK
  BY DEF ScriptInv
<1>2. QED
  BY <1>1, ScriptInductive, PTL

\* No orphan: between orderly invocations every server that is alive, but for
\* one sent KILL and not gone yet, is the one the pid file names (server.sh
\* cmd_start, common.sh stop_by_pidfile).
THEOREM NoOrphan == ScriptSpec => []ServerNamed
<1>1. ScriptInv => ServerNamed
  BY DEF ScriptInv, LooseInv, ServerNamed, Loose, Polled, Written, Running, At
<1>2. QED
  BY <1>1, ScriptInductive, PTL

\* A process that is no server is signalled only if it was given the pid of a
\* server that ended by itself, or was given it while an invocation was running
\* (common.sh is_running).
THEOREM NoStrangerKilled == ScriptSpec => []StrangersSpared
<1>1. ScriptInv => StrangersSpared
  BY DEF ScriptInv, StrangerInv, StrangersSpared
<1>2. QED
  BY <1>1, ScriptInductive, PTL

\* "up" is said of the server this start launched, or of one that had been sent
\* KILL and not waited for (common.sh wait_for_health).
THEOREM UpIsMine == ScriptSpec => UpMeansMine
<1> DEFINE Mine == \A c \in Cmds :
                     Orderly /\ WaitPoll(c) /\ Up =>
                       \E p \in Pids : /\ proc[p] = "serving"
                                       /\ p = inv[c].pid \/ signal[p] = "kill"
<1>1. ScriptInv => Mine
  <2>1. SUFFICES ASSUME ScriptInv, NEW c \in Cmds, Orderly, WaitPoll(c), Up
                 PROVE  \E p \in Pids : /\ proc[p] = "serving"
                                        /\ p = inv[c].pid \/ signal[p] = "kill"
    OBVIOUS
  <2>2. inv[c].at = "wait" /\ Running(c)
    BY <2>1 DEF WaitPoll, Poll, At, Running
  <2>3. PICK p \in Pids : proc[p] = "serving"
    BY <2>1 DEF Up
  <2>4. CASE signal[p] = "kill"
    BY <2>3, <2>4
  <2>5. CASE signal[p] # "kill"
    <3>1. Loose(p)
      BY <2>3, <2>5 DEF Loose, Server
    <3>2. ~Polled(p)
      BY <2>1, <2>2, Beside DEF Polled, At, Running, StartPlaces
    <3>3. p = pidfile
      BY <2>1, <2>2, <3>1, <3>2, NobodyWrites DEF At
    <3>4. pidfile = inv[c].pid
      BY <2>1, <2>2 DEF ScriptInv, ReadInv, At
    <3>5. QED
      BY <2>3, <3>3, <3>4
  <2>6. QED
    BY <2>4, <2>5
<1>2. ScriptInv => [Mine]_scriptVars
  BY <1>1
<1> HIDE DEF Mine
<1>3. ScriptSpec => [][Mine]_scriptVars
  BY <1>2, ScriptInductive, PTL
<1>4. QED
  BY <1>3 DEF Mine, UpMeansMine
=============================================================================
