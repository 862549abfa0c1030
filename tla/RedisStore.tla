----------------------------- MODULE RedisStore -----------------------------
(***************************************************************************)
(* The Redis store of redisstore/redis.go, for one short ID: its three     *)
(* keys, each with a time to live of its own, and the clients (request     *)
(* handlers, the flusher) whose operations are several commands each.  The *)
(* server runs commands one at a time; between two commands of one client  *)
(* those of any other may run, and any command may fail.  Operations on    *)
(* different IDs share no key.                                             *)
(*                                                                         *)
(* Time is counted in ticks, SecondLen of them to the second: SET takes    *)
(* milliseconds, EXPIRE and the time stamps whole seconds.                 *)
(***************************************************************************)
EXTENDS Integers

CONSTANTS Client,      \* requests that may be in progress at a time
          Never,       \* no time, no expiry
          Given,       \* the deleted_at of a create request's body, of which
                       \* no code asks more than whether it is empty
          Gone,        \* no such key
          Grace,       \* DeleteGracePeriod, in ticks
          SecondLen,   \* ticks in a second
          Faults,      \* may a command fail, and the process be killed?
          MaxTime,     \* bound: the clock stops here
          MaxClicks    \* bound: clicks resolved

ASSUME RedisAssumption ==
    /\ Never \notin Nat
    /\ Given \notin Nat \cup {Never}
    /\ SecondLen \in Nat \ {0}
    /\ Grace \in Nat \ {0} /\ Grace % SecondLen = 0
    /\ Faults \in BOOLEAN
    /\ MaxTime \in Nat /\ MaxClicks \in Nat

VARIABLES now,
          link,        \* "dl:{id}": ExpiresAt and DeletedAt of the payload
          clicks,      \* "dl:{id}:clicks"
          stats,       \* "dl:{id}:stats" (the day field counts every event)
          client,      \* what each client's operation does next
          disturbed,   \* history: did a PATCH and a DELETE ever overlap, or
                       \* the EXPIREs of a DELETE follow a SET that failed?
          created,     \* has the ID been generated?
          resolved,    \* clicks resolved
          waiting,     \* of these, with the tracker and not counted yet
          unrecorded,  \* counted, and the HINCRBY still due
          counted,     \* history: counted since the link last appeared
          recorded     \* history: recorded since the link last appeared

keys == <<link, clicks, stats>>
flusher == <<resolved, waiting, unrecorded, counted, recorded>>
requests == <<client, disturbed, created>>
vars == <<now, keys, requests, flusher>>

Time == Nat \cup {Never}
Payload == [exp : Time, deleted : Time \cup {Given}]
Entry(Value) == [val : Value, until : Time]
Key(Value) == Entry(Value) \cup {Gone}

ASSUME GoneAssumption ==
    Gone \notin Payload \cup Entry(Payload) \cup Entry(Nat)

Idle == [pc |-> "idle"]
\* With the payload to SET next, or at the side keys with the time to live.
Busy == [pc : {"set"}, op : {"save", "delete"}, payload : Payload]
        \cup [pc : {"clicks", "stats"}, op : {"save", "delete"}, ttl : Nat]

\* A time as time.RFC3339 writes it.
Stamp(t) == t - (t % SecondLen)

----------------------------------------------------------------------------
(* The commands (external: Redis and go-redis). *)

SET(val, ttl) == [val |-> val, until |-> IF ttl = 0 THEN Never ELSE now + ttl]

PERSIST(key) == IF key = Gone THEN Gone ELSE [key EXCEPT !.until = Never]

\* go-redis sends whole seconds, and one second for less than one.
EXPIRE(key, ttl) ==
    IF key = Gone THEN Gone
    ELSE [key EXCEPT !.until =
            now + IF ttl < SecondLen THEN SecondLen ELSE Stamp(ttl)]

\* What n increments leave; none leaves the key as it is.
INCRBY(key, n) == IF n = 0 THEN key
                  ELSE IF key = Gone THEN [val |-> n, until |-> Never]
                  ELSE [key EXCEPT !.val = @ + n]

\* The key as it is at time t.
At(key, t) == IF key # Gone /\ key.until # Never /\ key.until <= t
              THEN Gone ELSE key

----------------------------------------------------------------------------
Init == /\ now = 0
        /\ link = Gone /\ clicks = Gone /\ stats = Gone
        /\ client = [c \in Client |-> Idle] /\ disturbed = FALSE
        /\ created = FALSE
        /\ resolved = 0 /\ waiting = 0 /\ unrecorded = 0
        /\ counted = 0 /\ recorded = 0

Live == link # Gone /\ link.val.deleted = Never

\* Are a save and a delete in progress at the same time?
Overlap(ops) == \E c, d \in Client :
    ops[c] # Idle /\ ops[d] # Idle /\ ops[c].op # ops[d].op

Goto(c, state) == /\ client' = [client EXCEPT ![c] = state]
                  /\ disturbed' = (disturbed \/ Overlap(client'))

\* Bugs, one per property, for checking that the property can fail.
DeleteWithoutTTL(c) ==
    /\ client[c].pc = "set" /\ client[c].op = "delete"
    /\ link' = SET(client[c].payload, 0)
    /\ Goto(c, [pc |-> "clicks", op |-> "delete", ttl |-> Grace])
    /\ UNCHANGED <<now, clicks, stats, created, flusher>>

SetKeepingTTL(c) ==
    /\ client[c].pc = "set" /\ client[c].op = "save"
    /\ link' = IF link = Gone THEN SET(client[c].payload, 0)
               ELSE [link EXCEPT !.val = client[c].payload]
    /\ Goto(c, [pc |-> "clicks", op |-> "save", ttl |-> 0])
    /\ UNCHANGED <<now, clicks, stats, created, flusher>>

GraceForSideKeys(key, ttl) == IF ttl > 0 THEN EXPIRE(key, Grace)
                              ELSE PERSIST(key)

NegativeTTL(payload) == IF payload.exp = Never THEN 0 ELSE payload.exp - now

----------------------------------------------------------------------------
payloadTTL(payload) ==
    IF payload.exp = Never \/ payload.exp <= now THEN 0 ELSE payload.exp - now

(* Save, from create with a new link, whose deleted_at is the one of the    *)
(* request's body, or from PATCH with the copy its Get returned: SET, then  *)
(* EXPIRE or PERSIST of each side key.                                      *)

BodyDeletedAt == {Never, Given}

Create(c, exp, deleted) ==
    /\ client[c] = Idle /\ ~created
    /\ exp # Never => exp > now
    /\ created' = TRUE
    /\ Goto(c, [pc |-> "set", op |-> "save",
                payload |-> [exp |-> IF exp = Never THEN Never ELSE Stamp(exp),
                             deleted |-> deleted]])
    /\ UNCHANGED <<now, keys, flusher>>

GetForUpdate(c) ==
    /\ client[c] = Idle /\ Live
    /\ Goto(c, [pc |-> "set", op |-> "save", payload |-> link.val])
    /\ UNCHANGED <<now, keys, created, flusher>>

SaveSet(c) ==
    /\ client[c].pc = "set" /\ client[c].op = "save"
    /\ LET ttl == payloadTTL(client[c].payload)
       IN  /\ link' = SET(client[c].payload, ttl)
           /\ Goto(c, [pc |-> "clicks", op |-> "save", ttl |-> ttl])
    /\ UNCHANGED <<now, clicks, stats, created, flusher>>

(* Delete: Get, then a pipeline of SET and two EXPIREs.                     *)

GetForDelete(c) ==
    /\ client[c] = Idle /\ Live
    /\ Goto(c, [pc |-> "set", op |-> "delete",
                payload |-> [link.val EXCEPT !.deleted = Stamp(now)]])
    /\ UNCHANGED <<now, keys, created, flusher>>

DeleteSet(c) ==
    /\ client[c].pc = "set" /\ client[c].op = "delete"
    /\ link' = SET(client[c].payload, Grace)
    /\ Goto(c, [pc |-> "clicks", op |-> "delete", ttl |-> Grace])
    /\ UNCHANGED <<now, clicks, stats, created, flusher>>

(* The side keys, after either SET.                                         *)

SideKey(key, ttl) == IF ttl > 0 THEN EXPIRE(key, ttl) ELSE PERSIST(key)

SideClicks(c) ==
    /\ client[c].pc = "clicks"
    /\ clicks' = SideKey(clicks, client[c].ttl)
    /\ Goto(c, [client[c] EXCEPT !.pc = "stats"])
    /\ UNCHANGED <<now, link, stats, created, flusher>>

SideStats(c) ==
    /\ client[c].pc = "stats"
    /\ stats' = SideKey(stats, client[c].ttl)
    /\ Goto(c, Idle)
    /\ UNCHANGED <<now, link, clicks, created, flusher>>

(* A command fails.  Save gives up after a failed SET, which the server may *)
(* have run all the same, and ignores what happens to the side keys.  The   *)
(* pipeline of Delete has been sent as a whole: the server runs what comes  *)
(* after a command it refuses, unless the connection breaks.                *)

SaveGivesUp(c) ==
    /\ client[c].pc = "set" /\ client[c].op = "save"
    /\ link' \in {link, SET(client[c].payload, payloadTTL(client[c].payload))}
    /\ Goto(c, Idle)

DeleteSetRefused(c) ==
    /\ client[c].pc = "set" /\ client[c].op = "delete"
    /\ client' = [client EXCEPT ![c] =
                    [pc |-> "clicks", op |-> "delete", ttl |-> Grace]]
    /\ disturbed' = TRUE
    /\ UNCHANGED link

SideKeyFails(c) ==
    /\ client[c].pc \in {"clicks", "stats"}
    /\ Goto(c, IF client[c].pc = "clicks"
               THEN [client[c] EXCEPT !.pc = "stats"] ELSE Idle)
    /\ UNCHANGED link

PipelineBreaks(c) ==
    /\ client[c] # Idle /\ client[c].op = "delete"
    /\ Goto(c, Idle)
    /\ UNCHANGED link

Fail(c) ==
    /\ Faults
    /\ \/ SaveGivesUp(c)
       \/ DeleteSetRefused(c)
       \/ SideKeyFails(c)
       \/ PipelineBreaks(c)
    /\ UNCHANGED <<now, clicks, stats, created, flusher>>

(* Clicks: resolved by a handler that finds the link, counted and recorded  *)
(* by the flusher some time later, whatever has become of the link; of a    *)
(* call that fails all, nothing or, of the events, a part may take effect.  *)

Resolve ==
    /\ Live /\ resolved < MaxClicks
    /\ resolved' = resolved + 1 /\ waiting' = waiting + 1
    /\ UNCHANGED <<now, keys, requests, unrecorded, counted, recorded>>

IncrClickBy ==
    /\ waiting > 0 /\ unrecorded = 0
    /\ \E n \in {waiting} \cup (IF Faults THEN {0} ELSE {}) :
         /\ clicks' = INCRBY(clicks, n)
         /\ counted' = IF link = Gone THEN 0 ELSE counted + n
    /\ waiting' = 0 /\ unrecorded' = waiting
    /\ UNCHANGED <<now, link, stats, requests, resolved, recorded>>

RecordEvents ==
    /\ unrecorded > 0
    /\ \E n \in (IF Faults THEN 0 ELSE unrecorded) .. unrecorded :
         /\ stats' = INCRBY(stats, n)
         /\ recorded' = IF link = Gone THEN 0 ELSE recorded + n
    /\ unrecorded' = 0
    /\ UNCHANGED <<now, link, clicks, requests, resolved, waiting, counted>>

(* The process is killed and started again: its requests and the clicks in  *)
(* its memory are gone, the keys are as the last command left them.         *)

Crash ==
    /\ Faults
    /\ client' = [c \in Client |-> Idle]
    /\ waiting' = 0 /\ unrecorded' = 0
    /\ UNCHANGED <<now, keys, disturbed, created, resolved, counted, recorded>>

(* Time passes, and Redis drops the keys whose time to live is over.        *)

Tick ==
    /\ now < MaxTime
    /\ now' = now + 1
    /\ link' = At(link, now') /\ clicks' = At(clicks, now')
    /\ stats' = At(stats, now')
    /\ counted' = IF link' = Gone THEN 0 ELSE counted
    /\ recorded' = IF link' = Gone THEN 0 ELSE recorded
    /\ UNCHANGED <<requests, resolved, waiting, unrecorded>>

Next == \/ \E c \in Client :
             \/ \E exp \in {Never} \cup 1 .. MaxTime,
                   deleted \in BodyDeletedAt : Create(c, exp, deleted)
             \/ GetForUpdate(c)
             \/ SaveSet(c)
             \/ GetForDelete(c)
             \/ DeleteSet(c)
             \/ SideClicks(c)
             \/ SideStats(c)
             \/ Fail(c)
        \/ Resolve
        \/ IncrClickBy
        \/ RecordEvents
        \/ Crash
        \/ Tick

Spec == Init /\ [][Next]_vars

----------------------------------------------------------------------------
(* The keys and the operations in progress have their shapes; in particular *)
(* no time to live is negative.                                             *)
TypeOK ==
    /\ now \in Nat
    /\ link \in Key(Payload) /\ clicks \in Key(Nat) /\ stats \in Key(Nat)
    /\ client \in [Client -> Busy \cup {Idle}]
    /\ created \in BOOLEAN /\ disturbed \in BOOLEAN
    /\ resolved \in Nat /\ waiting \in Nat /\ unrecorded \in Nat
    /\ counted \in Nat /\ recorded \in Nat

(* A link that a DELETE marked is never permanent, whatever PATCHes and    *)
(* DELETEs raced and whichever of their commands failed: its key goes by   *)
(* itself, and not before the grace window its payload shows is over       *)
(* (Delete).  One that was created with a deleted_at has no such window:   *)
(* Save gives it the time to live of any new link, or none.                *)
DeletedIsTemporary ==
    link # Gone /\ link.val.deleted \in Nat =>
      link.until # Never /\ link.until >= link.val.deleted + Grace

Lifecycle == INSTANCE LinkLifecycle
    WITH None <- Gone, link <- IF link = Gone THEN Gone ELSE link.val

(* The time to live that Save and Delete give the link's key, replaced at  *)
(* every SET, makes Redis keep the promises of a store about one link: it  *)
(* never vanishes while it should be there, and its expiry never moves.    *)
ImplementsLifecycle == Lifecycle!Spec

\* Are the counters there, with all that was counted since the link came?
CountersThere == /\ counted > 0 => clicks # Gone /\ clicks.val >= counted
                 /\ recorded > 0 => stats # Gone /\ stats.val >= recorded

\* EXPIRE is given whole seconds, so side keys may go that much early.
LastSecond == link.val.exp # Never /\ link.val.exp - now < SecondLen

(* The counters do not vanish while the link lives, although their times to *)
(* live are set one by one and clicks are counted in between (Save, Delete, *)
(* IncrClickBy): however PATCHes overlap PATCHes and DELETEs overlap        *)
(* DELETEs, whichever commands fail, ignored or not, and whenever a kill    *)
(* cuts an operation off, as long as no PATCH overlaps a DELETE and no      *)
(* EXPIREs of a DELETE are run after its SET was refused.                   *)
CountersKept == Live /\ ~LastSecond /\ ~disturbed => CountersThere

----------------------------------------------------------------------------
(* What makes these inductive. *)

AtSet(op) == {c \in Client : client[c].pc = "set" /\ client[c].op = op}
AtSideKeys(op) ==
    {c \in Client : client[c].pc \in {"clicks", "stats"} /\ client[c].op = op}

\* Nothing was ever saved or counted.
Fresh == /\ link = Gone /\ clicks = Gone /\ stats = Gone
         /\ waiting = 0 /\ unrecorded = 0 /\ counted = 0 /\ recorded = 0

\* The link and all copies of it expire at e, and so will the side keys.
OneExpiry(e) ==
    /\ link # Gone => link.val.exp = e
    /\ \A c \in AtSet("save") \cup AtSet("delete") : client[c].payload.exp = e
    /\ \A c \in AtSideKeys("save") :
         client[c].ttl > 0 => e # Never /\ e <= now + client[c].ttl

(* A copy about to be saved is not deleted, or is that of a create, alone   *)
(* with its link, and nobody is about to write to a link that was created   *)
(* as deleted.  A copy about to be marked was read before now: a link that  *)
(* is gone since then went because it was due by the expiry or the mark of  *)
(* that copy.                                                               *)
CopiesSound ==
    /\ ~created => Fresh /\ \A c \in Client : client[c] = Idle
    /\ \E e \in {Never} \cup 0 .. MaxTime : OneExpiry(e)
    /\ \A c \in AtSet("save") :
         \/ client[c].payload.deleted = Never
         \/ /\ client[c].payload.deleted = Given
            /\ link = Gone /\ AtSet("save") \cup AtSet("delete") = {c}
    /\ link # Gone /\ link.val.deleted = Given =>
         AtSet("save") \cup AtSet("delete") = {}
    /\ \A c \in AtSet("delete") :
         LET copy == client[c].payload
             DueAt(t) == \/ copy.exp # Never /\ copy.exp <= t
                         \/ copy.deleted + Grace <= t
         IN  /\ copy.deleted \in Nat /\ copy.deleted <= now
             /\ link = Gone => DueAt(now)
             /\ link # Gone /\ link.until # Never => DueAt(link.until)

(* What no DELETE has marked goes when it expires, if it ever goes. *)
LiveUntilExpiry ==
    link # Gone /\ link.val.deleted \notin Nat /\ link.until # Never =>
      link.val.exp # Never /\ link.val.exp <= link.until

IInv == TypeOK /\ DeletedIsTemporary /\ CopiesSound /\ LiveUntilExpiry

\* A side key that is there outlives the link but for the last second.
Outlives(key) == key # Gone /\ key.until # Never =>
    link.val.exp # Never /\ key.until > link.val.exp - SecondLen

(* A DELETE at the side keys has hidden the link, no PATCH is about to save *)
(* a hidden link, and one that would save a link that is gone saves either  *)
(* the first time or what has expired.                                      *)
StaysHidden ==
    /\ AtSideKeys("delete") # {} => ~Live
    /\ link # Gone /\ ~Live => AtSet("save") = {}
    /\ \A c \in AtSet("save") : link = Gone =>
         \/ client[c].payload.exp # Never /\ client[c].payload.exp <= now
         \/ Fresh

SideKeysSound == Live /\ ~LastSecond =>
    CountersThere /\ Outlives(clicks) /\ Outlives(stats)

(* As long as no PATCH overlaps a DELETE and no SET of a DELETE is refused, *)
(* the side keys get the grace window only when the link is no longer live, *)
(* and nothing brings it back.                                              *)
Undisturbed == ~disturbed => ~Overlap(client) /\ StaysHidden /\ SideKeysSound

----------------------------------------------------------------------------
(* What the documentation says and the code does not keep. *)

(* "All three keys share the link's TTL and soft-delete grace" (redis.go):  *)
(* when no operation is in progress, either all of them go or none.         *)
SideKeysShareTTL ==
    link # Gone /\ (\A c \in Client : client[c] = Idle) =>
      \A key \in {clicks, stats} :
        key # Gone => ((key.until = Never) <=> (link.until = Never))

(* "Once past, the link resolves as not found and is purged" (ExpiresAt,    *)
(* model.go).                                                               *)
ExpiredNotFound == Live /\ link.val.exp # Never => link.val.exp > now

(* Save keeps "the side keys' TTL in lock-step with the link ... or clear a *)
(* leftover grace TTL on resurrect" (redis.go): a live link has its         *)
(* counters, also when a PATCH and a DELETE overlapped.                     *)
CountersInLockStep == Live /\ ~LastSecond => CountersThere

=============================================================================
