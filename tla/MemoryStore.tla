---------------------------- MODULE MemoryStore ----------------------------
(***************************************************************************)
(* The in-memory store of memory_store.go.  Every operation holds the      *)
(* store's mutex from beginning to end, so each is one atomic change of    *)
(* the four maps; LinkService composes them into request handlers.         *)
(*                                                                         *)
(* Time is counted in ticks, SecondLen of them to the second, because the  *)
(* code compares times exactly but writes them down in whole seconds       *)
(* (time.RFC3339).  A map entry that is absent and one that is zero mean   *)
(* the same for clicks and stats, as they do to the code's readers.        *)
(***************************************************************************)
EXTENDS Integers, Functions

CONSTANTS Id,         \* short IDs
          Field,      \* the fields of a link a request may set
          Val,        \* what a field may hold
          Never,      \* an empty time stamp
          Given,      \* the deleted_at of a create request's body, of which
                      \* no code asks more than whether it is empty
          Grace,      \* DeleteGracePeriod, in ticks
          SecondLen   \* ticks in a second

ASSUME StoreAssumption ==
    /\ Never \notin Nat
    /\ Given \notin Nat \cup {Never}
    /\ Grace \in Nat \ {0}
    /\ SecondLen \in Nat \ {0}

VARIABLES now,         \* the clock
          payload,     \* the links, by short ID
          deletedAt,   \* when each soft-deleted link was deleted
          clicks,      \* click counters
          stats        \* clicks in the breakdowns (byDay counts every event)

store == <<payload, deletedAt, clicks, stats>>

Time == Nat \cup {Never}

\* What the properties tell apart of a Link: its settable fields, ExpiresAt
\* and DeletedAt.
Links == [fields : [Field -> Val], exp : Time, deleted : Time \cup {Given}]

\* A bug for checking that a property can fail: the last whole second before
\* t, also when t is one itself.
SecondBefore(t) == t - 1 - ((t - 1) % SecondLen)

\* A time as time.RFC3339 writes it.
Stamp(t) == t - (t % SecondLen)

----------------------------------------------------------------------------
StoreInit == /\ payload = [i \in {} |-> Never]
             /\ deletedAt = [i \in {} |-> Never]
             /\ clicks = [i \in Id |-> 0]
             /\ stats = [i \in Id |-> 0]

\* f with its entry for i set to v, as a Go map assignment does.
Put(f, i, v) == [j \in DOMAIN f \cup {i} |-> IF j = i THEN v ELSE f[j]]

Without(f, S) == Restrict(f, DOMAIN f \ S)

\* Bugs, one per property, for checking that the property can fail.
SweptAtOnce(i) == i \in DOMAIN deletedAt

EvictAllDeleted(S) ==
    /\ payload' = Without(payload, S \cup DOMAIN deletedAt)
    /\ deletedAt' = [i \in {} |-> Never]
    /\ UNCHANGED <<clicks, stats>>

EvictKeepingStats(S) ==
    /\ payload' = Without(payload, S)
    /\ deletedAt' = Without(deletedAt, S)
    /\ clicks' = [i \in Id |-> IF i \in S THEN 0 ELSE clicks[i]]
    /\ UNCHANGED stats

SaveKeepingDeletedAt(i, link) ==
    /\ payload' = Put(payload, i, link)
    /\ UNCHANGED <<deletedAt, clicks, stats>>

SaveResettingClicks(i, link) ==
    /\ payload' = Put(payload, i, link)
    /\ deletedAt' = Without(deletedAt, {i})
    /\ clicks' = [clicks EXCEPT ![i] = 0]
    /\ UNCHANGED stats

----------------------------------------------------------------------------
LinkExpired(link) == link.exp # Never /\ link.exp <= now

\* sweepLocked finds the grace window of i over.
Swept(i) == i \in DOMAIN deletedAt /\ now - deletedAt[i] >= Grace

EvictLocked(S) == /\ payload' = Without(payload, S)
                  /\ deletedAt' = Without(deletedAt, S)
                  /\ clicks' = [i \in Id |-> IF i \in S THEN 0 ELSE clicks[i]]
                  /\ stats' = [i \in Id |-> IF i \in S THEN 0 ELSE stats[i]]

Save(i, link) == /\ payload' = Put(payload, i, link)
                 /\ deletedAt' = Without(deletedAt, {i})
                 /\ UNCHANGED <<clicks, stats>>

\* Does Get return the link?  A soft-deleted link is returned too.
Found(i) == i \in DOMAIN payload /\ ~Swept(i) /\ ~LinkExpired(payload[i])

\* Get also evicts a link past its grace window or its expiry.
Get(i) == IF Swept(i) \/ (i \in DOMAIN payload /\ LinkExpired(payload[i]))
          THEN EvictLocked({i})
          ELSE UNCHANGED store

\* Delete looks at the grace window but not at the expiry.
Delete(i) ==
    \/ Swept(i) /\ EvictLocked({i})
    \/ /\ ~Swept(i) /\ i \in DOMAIN payload /\ payload[i].deleted = Never
       /\ payload' = [payload EXCEPT ![i].deleted = Stamp(now)]
       /\ deletedAt' = Put(deletedAt, i, now)
       /\ UNCHANGED <<clicks, stats>>
    \/ /\ ~Swept(i) /\ (i \in DOMAIN payload => payload[i].deleted # Never)
       /\ UNCHANGED store

\* List, whatever the type and the page, sweeps all deleted links first.
SweepAll == EvictLocked({i \in DOMAIN deletedAt : Swept(i)})

IncrClickBy(i, n) == /\ clicks' = [clicks EXCEPT ![i] = @ + n]
                     /\ UNCHANGED <<payload, deletedAt, stats>>

\* n[i] events of each link i.
RecordEvents(n) == /\ stats' = [i \in Id |-> stats[i] + n[i]]
                   /\ UNCHANGED <<payload, deletedAt, clicks>>

----------------------------------------------------------------------------
StoreTypeOK ==
    /\ DOMAIN payload \subseteq Id /\ payload \in [DOMAIN payload -> Links]
    /\ DOMAIN deletedAt \subseteq Id
    /\ deletedAt \in [DOMAIN deletedAt -> Nat]
    /\ clicks \in [Id -> Nat] /\ stats \in [Id -> Nat]

=============================================================================
