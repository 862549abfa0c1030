--------------------------- MODULE LinkLifecycle ---------------------------
(***************************************************************************)
(* What a store of links promises about one link (store.go, model.go): it  *)
(* is saved, rewritten, soft-deleted and perhaps saved again; its expiry   *)
(* never moves; and it leaves the store only past its expiry or at the end *)
(* of the grace window that its deletion opened.  A link that is created   *)
(* with a deleted_at (POST /shorten stores that of the body) has no grace  *)
(* window: it stays as it was created until it expires.                    *)
(***************************************************************************)
EXTENDS Integers

CONSTANTS Never,   \* an empty time stamp
          Given,   \* the deleted_at of a link created as deleted
          None,    \* no link
          Grace    \* DeleteGracePeriod

VARIABLES now, link

vars == <<now, link>>

Expired(l, t) == l.exp # Never /\ l.exp <= t
GraceOver(l, t) == l.deleted \in Nat /\ l.deleted + Grace <= t

Init == now = 0 /\ link = None

\* Saved for the first time, or by a PATCH after the link was purged.
Appear == link = None /\ link' # None /\ link'.deleted \in {Never, Given}

\* Saved or soft-deleted while it is in the store; neither PATCH nor DELETE
\* finds a link that was created as deleted.
Rewrite == /\ link # None /\ link' # None
           /\ link'.exp = link.exp
           /\ link.deleted # Given /\ link'.deleted # Given
           /\ link'.deleted \in Nat => link'.deleted <= now

Due(l, t) == Expired(l, t) \/ GraceOver(l, t)

\* A DELETE that found the link may write after the link was purged; what it
\* leaves behind is hidden as deleted, and was due to go before.
Bury == /\ link = None /\ link' # None
        /\ link'.deleted \in Nat /\ Due(link', now)

\* Purged by an operation or by the passing of time.
Purge == link # None /\ link' = None /\ Due(link, now')

Next == /\ Appear \/ Rewrite \/ Bury \/ Purge \/ UNCHANGED link
        /\ now' \in {now, now + 1}

Spec == Init /\ [][Next]_vars

=============================================================================
