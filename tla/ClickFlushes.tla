---------------------------- MODULE ClickFlushes ----------------------------
(***************************************************************************)
(* The click tracker as the store sees it (click.go), without the channel, *)
(* the worker and stop: clicks wait, per link; a flush takes some of them, *)
(* makes one IncrClickBy per link it took a click of, in any order, then   *)
(* one RecordEvents, and only then may the next flush begin.               *)
(*                                                                         *)
(* It stands between two modules.  ClickTracker implements it step by      *)
(* step, and LinkService, where clicks wait while links are deleted,       *)
(* purged and saved again, has no other flushes than these.                *)
(***************************************************************************)
EXTENDS Integers

CONSTANTS Link,          \* short IDs
          StoreFaults,   \* may a store call fail, wholly or in part?
          StoreForgets   \* does the store purge links with their counters?

VARIABLES tracked,     \* accepted clicks no flush has taken yet, per link
          batch,       \* clicks of the flush in progress, per link
          uncounted,   \* links of the flush whose IncrClickBy is still due
          counted,     \* the store: the click counter of each link
          recorded     \* the store: the clicks in the breakdowns of each link

vars == <<tracked, batch, uncounted, counted, recorded>>

NoClicks == [l \in Link |-> 0]

Init == /\ tracked = NoClicks /\ batch = NoClicks /\ uncounted = {}
        /\ counted = NoClicks /\ recorded = NoClicks

Track(l) == /\ tracked' = [tracked EXCEPT ![l] = @ + 1]
            /\ UNCHANGED <<batch, uncounted, counted, recorded>>

\* The flush before this one is over.
StartFlush ==
    /\ batch = NoClicks
    /\ batch' \in [Link -> Nat] /\ batch' # NoClicks
    /\ uncounted' = {l \in Link : batch'[l] > 0}
    /\ tracked' \in [Link -> Nat]
    /\ \A l \in Link : tracked[l] = tracked'[l] + batch'[l]
    /\ UNCHANGED <<counted, recorded>>

IncrClickBy(l) ==
    /\ l \in uncounted
    /\ uncounted' = uncounted \ {l}
    /\ \/ counted' = [counted EXCEPT ![l] = @ + batch[l]]
       \/ StoreFaults /\ UNCHANGED counted
    /\ UNCHANGED <<tracked, batch, recorded>>

RecordEvents ==
    /\ batch # NoClicks /\ uncounted = {}
    /\ batch' = NoClicks
    /\ recorded' \in [Link -> Nat]
    /\ \A l \in Link : recorded'[l] - recorded[l] \in
         IF StoreFaults THEN 0 .. batch[l] ELSE {batch[l]}
    /\ UNCHANGED <<tracked, uncounted, counted>>

\* The links of S are purged: their counters and breakdowns go together.
Forget(S) ==
    /\ StoreForgets
    /\ counted' = [l \in Link |-> IF l \in S THEN 0 ELSE counted[l]]
    /\ recorded' = [l \in Link |-> IF l \in S THEN 0 ELSE recorded[l]]
    /\ UNCHANGED <<tracked, batch, uncounted>>

Next == \/ \E l \in Link : Track(l) \/ IncrClickBy(l)
        \/ StartFlush
        \/ RecordEvents
        \/ \E S \in SUBSET Link : Forget(S)

Spec == Init /\ [][Next]_vars

=============================================================================
