---------------------------- MODULE ClickLedger ----------------------------
(***************************************************************************)
(* What click counting promises, without the buffer, the batch and the     *)
(* worker that implement it (click.go).  A resolve request makes one click *)
(* event.  The event is either dropped at once or accepted; an accepted    *)
(* event waits until it is settled, which happens once, together with      *)
(* events of the same link; and a link's click total grows only by the     *)
(* number of events being settled, or not at all when the store refuses.   *)
(* So a total never counts an event twice and never counts a dropped one.  *)
(***************************************************************************)
EXTENDS Integers, FiniteSets

CONSTANTS Event,        \* click events, one per resolve request
          Link,         \* short IDs
          LinkOf,       \* the short ID each event is about
          StoreFaults   \* may a store call fail?

VARIABLES fate,    \* where each event stands
          total    \* the click counter of each link

vars == <<fate, total>>

Fates == {"new", "waiting", "dropped", "settled"}

TypeOK == /\ fate \in [Event -> Fates]
          /\ total \in [Link -> Nat]

Init == /\ fate = [e \in Event |-> "new"]
        /\ total = [l \in Link |-> 0]

Accept(e) == /\ fate[e] = "new"
             /\ fate' = [fate EXCEPT ![e] = "waiting"]
             /\ UNCHANGED total

Drop(e) == /\ fate[e] = "new"
           /\ fate' = [fate EXCEPT ![e] = "dropped"]
           /\ UNCHANGED total

\* All the events of S, which are about link l, leave the ledger together.
Settle(l, S) ==
    /\ \A e \in S : fate[e] = "waiting" /\ LinkOf[e] = l
    /\ fate' = [e \in Event |-> IF e \in S THEN "settled" ELSE fate[e]]
    /\ \/ total' = [total EXCEPT ![l] = @ + Cardinality(S)]
       \/ StoreFaults /\ UNCHANGED total

Next == \/ \E e \in Event : Accept(e) \/ Drop(e)
        \/ \E l \in Link, S \in SUBSET Event : Settle(l, S)

Spec == Init /\ [][Next]_vars

=============================================================================
