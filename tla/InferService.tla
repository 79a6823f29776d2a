---------------------------- MODULE InferService ----------------------------
(***************************************************************************)
(* What the inference handle promises its callers: accepted calls are      *)
(* answered one by one in the order they were accepted, each at most once; *)
(* after the service has stopped, every call is answered with an error.    *)
(***************************************************************************)
EXTENDS Sequences

CONSTANT Calls

VARIABLES
  status,  \* call -> "idle", "asked", "text" or "error"
  order,   \* accepted calls that have no answer yet
  down     \* the service has stopped

svars == <<status, order, down>>

InOrder(c) == \E i \in DOMAIN order : order[i] = c

Init ==
  /\ status = [c \in Calls |-> "idle"]
  /\ order = <<>>
  /\ down = FALSE

Ask(c) ==
  /\ status[c] = "idle"
  /\ status' = [status EXCEPT ![c] = "asked"]
  /\ UNCHANGED <<order, down>>

Accept(c) ==
  /\ status[c] = "asked"
  /\ ~InOrder(c)
  /\ ~down
  /\ order' = Append(order, c)
  /\ UNCHANGED <<status, down>>

Answer(kind) ==
  /\ order # <<>>
  /\ ~down
  /\ status' = [status EXCEPT ![Head(order)] = kind]
  /\ order' = Tail(order)
  /\ UNCHANGED down

Stop ==
  /\ ~down
  /\ down' = TRUE
  /\ status' = [c \in Calls |-> IF InOrder(c) THEN "error" ELSE status[c]]
  /\ order' = <<>>

\* An error, which a caller that has gone does not even see.
Refuse(c) ==
  /\ down
  /\ status[c] = "asked"
  /\ \E kind \in {"error", "idle"} : status' = [status EXCEPT ![c] = kind]
  /\ UNCHANGED <<order, down>>

\* The caller has taken the answer, or has gone away without it.
Release(c) ==
  /\ status[c] \in {"text", "error"}
  /\ status' = [status EXCEPT ![c] = "idle"]
  /\ UNCHANGED <<order, down>>

Next ==
  \/ \E c \in Calls : Ask(c) \/ Accept(c) \/ Refuse(c) \/ Release(c)
  \/ \E kind \in {"text", "error"} : Answer(kind)
  \/ Stop

Spec == Init /\ [][Next]_svars
=============================================================================
