------------------------------ MODULE LruOrder ------------------------------
(***************************************************************************)
(* A least-recently-used cache as the set of keys it holds and the order   *)
(* they were last used in.  Being served is a use, and so is being stored. *)
(***************************************************************************)
EXTENDS Naturals, FiniteSets

CONSTANTS
  Keys,
  Nothing,  \* no key was served
  Limit     \* keys there may be before one makes room for the next

VARIABLES
  cached,   \* the keys
  before,   \* pairs of keys, the first used longer ago than the second
  served    \* the key the last request was served from

lvars == <<cached, before, served>>

\* An order on the keys k does not belong to, and the same with k last.
Without(order, k) == {p \in order : p[1] # k /\ p[2] # k}
Last(order, keys, k) == Without(order, k) \cup {<<q, k>> : q \in keys \ {k}}

Oldest(order, keys) == {k \in keys : \A q \in keys \ {k} : <<k, q>> \in order}

Init ==
  /\ cached = {}
  /\ before = {}
  /\ served = Nothing

Used(k) == IF k = Nothing THEN before ELSE Last(before, cached, k)

\* A full cache gives up its oldest key, even for a key it already has.
Put(order, new) ==
  \/ /\ ~(Cardinality(cached) >= Limit /\ cached # {})
     /\ cached' = cached \cup {new}
     /\ before' = Last(order, cached, new)
  \/ /\ Cardinality(cached) >= Limit
     /\ \E k \in Oldest(order, cached) :
          /\ cached' = (cached \ {k}) \cup {new}
          /\ before' = Last(Without(order, k), cached \ {k}, new)

Serve(k) ==
  /\ k = Nothing \/ k \in cached
  /\ served' = k
  /\ \/ before' = Used(k) /\ UNCHANGED cached
     \/ \E new \in Keys : Put(Used(k), new)

Clear ==
  /\ cached' = {}
  /\ before' = {}
  /\ UNCHANGED served

Next == (\E k \in Keys \cup {Nothing} : Serve(k)) \/ Clear

Spec == Init /\ [][Next]_lvars
=============================================================================
