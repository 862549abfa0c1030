---------------------------- MODULE SqliteStore ----------------------------
(***************************************************************************)
(* The SQLite store of sqlitestore/sqlite.go, for one short ID: its row in *)
(* the table links, its rows in click_events, and requests whose store     *)
(* calls are several statements each.  One statement, or the transaction   *)
(* of RecordEvents, is atomic; between two statements of one request those *)
(* of any other may run, and a statement may fail.                         *)
(*                                                                         *)
(* Time is counted in ticks, SecondLen of them to the second, in which the *)
(* table holds its times.                                                  *)
(***************************************************************************)
EXTENDS Integers

CONSTANTS Client,      \* requests that may be in progress at a time
          Never,       \* NULL, or an empty time stamp
          Given,       \* the deleted_at of a create request's body, of which
                       \* no code asks more than whether it is empty
          Gone,        \* no such row
          Grace,       \* DeleteGracePeriod, in ticks
          SecondLen,   \* ticks in a second
          Patience,    \* a request ends within this many ticks (the server's
                       \* timeouts are seconds, the grace window is hours)
          Faults,      \* may a statement fail, and the process be killed?
          MaxTime,     \* bound: the clock stops here
          MaxClicks    \* bound: clicks resolved

ASSUME SqliteAssumption ==
    /\ Never \notin Nat
    /\ Given \notin Nat \cup {Never}
    /\ SecondLen \in Nat \ {0}
    /\ Grace \in Nat \ {0}
    /\ Patience \in Nat /\ 2 * Patience + SecondLen <= Grace
    /\ Faults \in BOOLEAN
    /\ MaxTime \in Nat /\ MaxClicks \in Nat

VARIABLES now,
          row,         \* the row of links
          events,      \* how many rows of click_events
          client,      \* what each request does next
          created,     \* has the ID been generated?
          resolved,    \* clicks resolved
          waiting,     \* of these, with the tracker and not counted yet
          unrecorded   \* counted, and the events still to be inserted

flusher == <<resolved, waiting, unrecorded>>
vars == <<now, row, events, client, created, flusher>>

Time == Nat \cup {Never}
\* ExpiresAt and DeletedAt of a payload.
Payload == [exp : Time, deleted : Time \cup {Given}]
\* The columns payload, expires_at, deleted_at and clicks.
Row == [payload : Payload, expires_at : Time, deleted_at : Time, clicks : Nat]

ASSUME GoneAssumption == Gone \notin Row \cup Payload

Idle == [pc |-> "idle"]
Busy == [pc : {"save", "mark"}, payload : Payload, since : Nat]
        \cup [pc : {"purge", "prune"}, since : Nat]

\* A bug for checking that a property can fail: the last whole second before
\* t, also when t is one itself.
SecondBefore(t) == t - 1 - ((t - 1) % SecondLen)

\* A time as nowUTC writes it.
Stamp(t) == t - (t % SecondLen)

Goto(c, state) == client' = [client EXCEPT ![c] = state]

----------------------------------------------------------------------------
Init == /\ now = 0 /\ row = Gone /\ events = 0
        /\ client = [c \in Client |-> Idle] /\ created = FALSE
        /\ resolved = 0 /\ waiting = 0 /\ unrecorded = 0

\* Bugs, one per property, for checking that the property can fail.
UpsertKeepingDeletedAt(payload) ==
    IF row = Gone
    THEN [payload |-> payload, expires_at |-> payload.exp,
          deleted_at |-> Never, clicks |-> 0]
    ELSE [row EXCEPT !.payload = payload, !.expires_at = payload.exp]

Replace(payload) == [payload |-> payload, expires_at |-> payload.exp,
                     deleted_at |-> Never, clicks |-> 0]

PurgeDeleted(r) == r.deleted_at # Never

MarkAndPrune(c) ==
    /\ client[c].pc = "mark"
    /\ row' = IF row = Gone THEN Gone
              ELSE [row EXCEPT !.payload = client[c].payload,
                               !.deleted_at = client[c].payload.deleted]
    /\ events' = 0
    /\ Goto(c, Idle)
    /\ UNCHANGED <<now, created, flusher>>

----------------------------------------------------------------------------
(* Get's SELECT, and what follows for the caller: both conditions under     *)
(* which Get purges make it return not found.                               *)

PurgeDue(r) == \/ r.expires_at # Never /\ r.expires_at <= now
               \/ r.deleted_at # Never /\ now - r.deleted_at >= Grace

Select(c) == client[c] = Idle /\ row # Gone

Found == ~PurgeDue(row) /\ row.payload.deleted = Never

GetAndPurge(c) ==
    /\ Select(c) /\ PurgeDue(row)
    /\ Goto(c, [pc |-> "purge", since |-> now])
    /\ UNCHANGED <<now, row, events, created, flusher>>

\* A resolve; the handler hides a soft-deleted link.
GetToResolve(c) ==
    /\ Select(c) /\ Found /\ resolved < MaxClicks
    /\ resolved' = resolved + 1 /\ waiting' = waiting + 1
    /\ UNCHANGED <<now, row, events, client, created, unrecorded>>

GetForUpdate(c) ==
    /\ Select(c) /\ Found
    /\ Goto(c, [pc |-> "save", payload |-> row.payload, since |-> now])
    /\ UNCHANGED <<now, row, events, created, flusher>>

GetForDelete(c) ==
    /\ Select(c) /\ Found
    /\ Goto(c, [pc |-> "mark", since |-> now,
                payload |-> [row.payload EXCEPT !.deleted = Stamp(now)]])
    /\ UNCHANGED <<now, row, events, created, flusher>>

(* purge: two statements, whose errors it ignores.                          *)

PurgeLink(c) ==
    /\ client[c].pc = "purge"
    /\ row' \in IF Faults THEN {Gone, row} ELSE {Gone}
    /\ Goto(c, [client[c] EXCEPT !.pc = "prune"])
    /\ UNCHANGED <<now, events, created, flusher>>

PurgeEvents(c) ==
    /\ client[c].pc = "prune"
    /\ events' \in IF Faults THEN {0, events} ELSE {0}
    /\ Goto(c, Idle)
    /\ UNCHANGED <<now, row, created, flusher>>

(* Save: one upsert, with a new link, whose deleted_at is the one of the    *)
(* request's body, or with the copy a PATCH read.                           *)

BodyDeletedAt == {Never, Given}

Create(c, exp, deleted) ==
    /\ client[c] = Idle /\ ~created
    /\ exp # Never => exp > now
    /\ created' = TRUE
    /\ Goto(c, [pc |-> "save", since |-> now,
                payload |-> [exp |-> IF exp = Never THEN Never ELSE Stamp(exp),
                             deleted |-> deleted]])
    /\ UNCHANGED <<now, row, events, flusher>>

Upsert(payload) ==
    IF row = Gone
    THEN [payload |-> payload, expires_at |-> payload.exp,
          deleted_at |-> Never, clicks |-> 0]
    ELSE [row EXCEPT !.payload = payload, !.expires_at = payload.exp,
                     !.deleted_at = Never]

Save(c) ==
    /\ client[c].pc = "save"
    /\ row' = Upsert(client[c].payload)
    /\ Goto(c, Idle)
    /\ UNCHANGED <<now, events, created, flusher>>

(* Delete's UPDATE, which matches no row if the link was purged meanwhile.  *)

Mark(c) ==
    /\ client[c].pc = "mark"
    /\ row' = IF row = Gone THEN Gone
              ELSE [row EXCEPT !.payload = client[c].payload,
                               !.deleted_at = client[c].payload.deleted]
    /\ Goto(c, Idle)
    /\ UNCHANGED <<now, events, created, flusher>>

\* The statement of Save or Delete fails, and the caller is told.
Fail(c) ==
    /\ Faults /\ client[c].pc \in {"save", "mark"}
    /\ Goto(c, Idle)
    /\ UNCHANGED <<now, row, events, created, flusher>>

(* A flush: the UPDATE of the counter, which matches no row if the link is  *)
(* gone, then the events in one transaction.                                *)

IncrClickBy ==
    /\ waiting > 0 /\ unrecorded = 0
    /\ \E took \in (IF Faults THEN BOOLEAN ELSE {TRUE}) :
         row' = IF took /\ row # Gone
                THEN [row EXCEPT !.clicks = @ + waiting] ELSE row
    /\ waiting' = 0 /\ unrecorded' = waiting
    /\ UNCHANGED <<now, events, client, created, resolved>>

RecordEvents ==
    /\ unrecorded > 0
    /\ events' \in {events + unrecorded}
                   \cup (IF Faults THEN {events} ELSE {})
    /\ unrecorded' = 0
    /\ UNCHANGED <<now, row, client, created, resolved, waiting>>

\* The process is killed and started again: requests and clicks in memory are
\* gone, the tables are as the last statement left them.
Crash ==
    /\ Faults
    /\ client' = [c \in Client |-> Idle]
    /\ waiting' = 0 /\ unrecorded' = 0
    /\ UNCHANGED <<now, row, events, created, resolved>>

\* Time passes, though no request lasts longer than Patience.
Tick ==
    /\ now < MaxTime
    /\ \A c \in Client : client[c] # Idle => now - client[c].since < Patience
    /\ now' = now + 1
    /\ UNCHANGED <<row, events, client, created, flusher>>

Next == \/ \E c \in Client :
             \/ GetAndPurge(c)
             \/ GetToResolve(c)
             \/ GetForUpdate(c)
             \/ GetForDelete(c)
             \/ PurgeLink(c)
             \/ PurgeEvents(c)
             \/ \E exp \in {Never} \cup 1 .. MaxTime,
                   deleted \in BodyDeletedAt : Create(c, exp, deleted)
             \/ Save(c)
             \/ Mark(c)
             \/ Fail(c)
        \/ IncrClickBy
        \/ RecordEvents
        \/ Crash
        \/ Tick

Spec == Init /\ [][Next]_vars

----------------------------------------------------------------------------
(* The table, the requests in progress and the flusher have their types. *)
TypeOK ==
    /\ now \in Nat /\ events \in Nat
    /\ row \in Row \cup {Gone}
    /\ client \in [Client -> Busy \cup {Idle}]
    /\ created \in BOOLEAN
    /\ resolved \in Nat /\ waiting \in Nat /\ unrecorded \in Nat

(* The columns by which List and Get select a link agree with the payload  *)
(* by which the handlers hide it, however the statements of PATCH and      *)
(* DELETE interleave: each writes its column and its payload together.     *)
(* Only of a link created with a deleted_at does the column say nothing:   *)
(* the upsert of Save sets it to NULL, and List shows what the others hide. *)
ColumnsAgree ==
    row # Gone =>
      /\ row.expires_at = row.payload.exp
      /\ row.deleted_at =
           IF row.payload.deleted = Given THEN Never ELSE row.payload.deleted

(* "a re-save ... preserving ... the accumulated click count" (Save), and   *)
(* so does every other statement that leaves the row.                       *)
ClicksKept ==
    [][row # Gone /\ row' # Gone => row'.clicks >= row.clicks]_vars

(* click_events is "append-only, pruned only when its link expires or is    *)
(* purged": a link that is not due loses no event, although purge decides   *)
(* by a row it read before and deletes in two statements.                   *)
EventsKept ==
    [][row # Gone /\ ~PurgeDue(row) => events' >= events]_vars

Lifecycle == INSTANCE LinkLifecycle
    WITH None <- Gone, link <- IF row = Gone THEN Gone ELSE row.payload

(* The store keeps its promises about one link, because a grace window is  *)
(* longer than two requests and the rounding of a time stamp: a PATCH that *)
(* read the link before a DELETE marked it has ended when Get finds the    *)
(* link due, so nothing saves it again before purge deletes it.             *)
ImplementsLifecycle == Lifecycle!Spec

----------------------------------------------------------------------------
(* What makes ColumnsAgree, EventsKept and the refinement inductive.        *)

\* Requests about to write a payload, and requests about to purge.
Writers == {c \in Client : client[c].pc \in {"save", "mark"}}
Purgers == {c \in Client : client[c].pc \in {"purge", "prune"}}

(* A request that will write holds what it read not long ago: the expiry    *)
(* all payloads of the link have, and of a link deleted by now, a copy read *)
(* before the deletion, hence at most Patience and a rounded second earlier *)
(* than the stamp.  A create is alone with a link created as deleted, and   *)
(* nobody has read one to write it.                                         *)
WritersSound ==
    /\ ~created => row = Gone /\ \A c \in Client : client[c] = Idle
    /\ \A c \in Writers :
         /\ client[c].since <= now /\ now <= client[c].since + Patience
         /\ IF client[c].pc = "save"
            THEN client[c].payload.deleted \in BodyDeletedAt
            ELSE client[c].payload.deleted = Stamp(client[c].since)
         /\ client[c].payload.deleted = Given =>
              row = Gone /\ Writers = {c}
         /\ \A d \in Writers : client[d].payload.exp = client[c].payload.exp
         /\ row # Gone =>
              /\ row.payload.exp = client[c].payload.exp
              /\ row.payload.deleted # Given
              /\ row.deleted_at # Never =>
                   client[c].since < row.deleted_at + Patience + SecondLen

(* What a request is about to purge is still due, and nobody is about to    *)
(* bring back anything that is not.                                         *)
PurgesSound ==
    \A c \in Purgers :
      /\ row # Gone => PurgeDue(row)
      /\ \A d \in Writers : /\ client[d].payload.exp # Never
                            /\ client[d].payload.exp <= now

IInv == TypeOK /\ ColumnsAgree /\ WritersSound /\ PurgesSound

=============================================================================
