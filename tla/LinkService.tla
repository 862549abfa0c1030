---------------------------- MODULE LinkService ----------------------------
(***************************************************************************)
(* The request handlers of server.go, link.go and url.go over the memory   *)
(* store, and the flushes of the click tracker.  A handler makes several   *)
(* store calls with nothing held in between: create picks an ID and checks *)
(* the expiry before it saves, PATCH reads the link, applies the patch to  *)
(* its copy and saves the copy, and a click is counted and recorded long   *)
(* after the link was resolved.  Everything else may happen in between.    *)
(***************************************************************************)
EXTENDS MemoryStore

CONSTANTS Req,         \* slots for create and PATCH requests in progress
          SkipPath,    \* IDs that match Config.SkipPaths
          Expiry,      \* the expiries a request may ask for
          MaxTime,     \* bound: the clock stops here
          MaxClicks    \* bound: clicks tracked

ASSUME ServiceAssumption ==
    /\ SkipPath \subseteq Id /\ Expiry \subseteq Time
    /\ MaxTime \in Nat /\ MaxClicks \in Nat

VARIABLES inflight,   \* create and PATCH requests between their store calls
          used,       \* IDs generated so far
          overtaken,  \* history: PATCHes whose link a DELETE marked after
                      \* they read it
          outdated,   \* history: PATCHes whose link another one saved after
                      \* they read it
          tracked,    \* clicks waiting in the tracker, per link
          batch,      \* clicks in the flush in progress, per link
          uncounted,  \* links of the batch whose counter is still due
          resolved    \* history: clicks the tracker accepted, per link

requests == <<inflight, used, overtaken, outdated>>
tracker == <<tracked, batch, uncounted, resolved>>
vars == <<now, store, requests, tracker>>

Idle == [op |-> "idle"]
\* In progress: what is to be saved, and which of its fields were given.
Pending == [op : {"create", "update"}, id : Id, link : Links,
            set : SUBSET Field]

\* Requests in progress of one kind on one link.
On(op, i) == {r \in Req : inflight[r].op = op /\ inflight[r].id = i}

\* What a store shows of a link, and of one that is not there.
Shown(i) == [exp |-> payload[i].exp, deleted |-> payload[i].deleted]
Gone == [op |-> "gone"]

NoClicks == [i \in Id |-> 0]

Init == /\ now = 0 /\ StoreInit
        /\ inflight = [r \in Req |-> Idle] /\ used = {} /\ overtaken = {}
        /\ outdated = {}
        /\ tracked = NoClicks /\ batch = NoClicks /\ resolved = NoClicks
        /\ uncounted = {}

\* Bugs, one per property, for checking that the property can fail.
UpdateReviving(r, i, patch) ==
    /\ inflight[r] = Idle /\ i \notin SkipPath
    /\ Get(i)
    /\ inflight' =
         IF ~Found(i) THEN inflight
         ELSE [inflight EXCEPT ![r] =
                 [op |-> "update", id |-> i,
                  link |-> [payload[i] EXCEPT !.deleted = Never],
                  set |-> DOMAIN patch]]
    /\ UNCHANGED <<now, used, overtaken, outdated, tracker>>

DrawOnce(r, fields, exp, deleted) ==
    /\ inflight[r] = Idle
    /\ exp # Never => exp > now
    /\ \E i \in Id \ used :
         /\ used' = used \cup {i}
         /\ inflight' = [inflight EXCEPT ![r] =
              [op |-> "create", id |-> i, set |-> Field,
               link |-> [fields |-> fields, deleted |-> deleted,
                         exp |-> IF exp = Never THEN Never ELSE Stamp(exp)]]]
    /\ UNCHANGED <<now, store, overtaken, outdated, tracker>>

\* A patch without pointers: what it does not name is the zero value.
ApplyZero(link, patch) ==
    [link EXCEPT !.fields =
       [f \in Field |-> IF f \in DOMAIN patch THEN patch[f]
                        ELSE CHOOSE v \in Val : TRUE]]

FlushTwice(i) ==
    /\ i \in uncounted
    /\ IncrClickBy(i, batch[i])
    /\ UNCHANGED <<now, requests, tracker>>

----------------------------------------------------------------------------
(* POST /shorten: shortenURL generates an ID that no skip path matches      *)
(* (external: nanoid.New never repeats one), accepts an expiry that lies in *)
(* the future, writes it down in whole seconds, and saves the link.  The    *)
(* deleted_at of the body, which handleGenerate decodes into the link like  *)
(* its other fields, is saved as it came.                                   *)

BodyDeletedAt == {Never, Given}

shortenURL(r, fields, exp, deleted) ==
    /\ inflight[r] = Idle
    /\ exp # Never => exp > now
    /\ \E i \in Id \ (used \cup SkipPath) :
         /\ used' = used \cup {i}
         /\ inflight' = [inflight EXCEPT ![r] =
              [op |-> "create", id |-> i, set |-> Field,
               link |-> [fields |-> fields, deleted |-> deleted,
                         exp |-> IF exp = Never THEN Never ELSE Stamp(exp)]]]
    /\ UNCHANGED <<now, store, overtaken, outdated, tracker>>

saveCreated(r) ==
    /\ inflight[r].op = "create"
    /\ Save(inflight[r].id, inflight[r].link)
    /\ inflight' = [inflight EXCEPT ![r] = Idle]
    /\ UNCHANGED <<now, used, overtaken, outdated, tracker>>

(* PATCH: a patch maps the fields it names to values (linkPatch has pointers *)
(* to tell them from the others); applyTo sets them on the copy that Get    *)
(* returned, and the whole copy is saved.                                   *)

linkPatch == UNION {[S -> Val] : S \in SUBSET Field}

applyTo(link, patch) ==
    [link EXCEPT !.fields =
       [f \in Field |-> IF f \in DOMAIN patch THEN patch[f] ELSE @[f]]]

updateRead(r, i, patch) ==
    /\ inflight[r] = Idle /\ i \notin SkipPath
    /\ Get(i)
    /\ inflight' =
         IF ~Found(i) \/ payload[i].deleted # Never THEN inflight
         ELSE [inflight EXCEPT ![r] =
                 [op |-> "update", id |-> i, set |-> DOMAIN patch,
                  link |-> applyTo(payload[i], patch)]]
    /\ UNCHANGED <<now, used, overtaken, outdated, tracker>>

updateSave(r) ==
    /\ inflight[r].op = "update"
    /\ Save(inflight[r].id, inflight[r].link)
    /\ inflight' = [inflight EXCEPT ![r] = Idle]
    /\ overtaken' = overtaken \ {r}
    /\ outdated' = (outdated \cup On("update", inflight[r].id)) \ {r}
    /\ UNCHANGED <<now, used, tracker>>

(* Deleting a link, by the MCP tool delete_link or by a DELETE request,      *)
(* which the skip paths filter; what finds no link only sweeps.             *)

deleteLink(i) ==
    /\ Delete(i)
    /\ overtaken' = IF payload' # payload THEN overtaken \cup On("update", i)
                    ELSE overtaken
    /\ UNCHANGED <<now, inflight, used, outdated, tracker>>

handleDelete(i) == i \notin SkipPath /\ deleteLink(i)

(* GET of a short link, redirecting or as a static page: a link that is     *)
(* there and not soft-deleted is a click for the tracker.  (A click that a   *)
(* full tracker drops is the same step as getLink.)                          *)

BelowBound == FoldFunction(+, 0, resolved) < MaxClicks

handlePreview(i) ==
    /\ Get(i)
    /\ IF Found(i) /\ payload[i].deleted = Never
       THEN /\ BelowBound
            /\ tracked' = [tracked EXCEPT ![i] = @ + 1]
            /\ resolved' = [resolved EXCEPT ![i] = @ + 1]
       ELSE UNCHANGED <<tracked, resolved>>
    /\ UNCHANGED <<now, requests, batch, uncounted>>

(* The API's look at one link (Service.Get, Service.Stats) and at a list.   *)

getLink(i) == Get(i) /\ UNCHANGED <<now, requests, tracker>>

list == SweepAll /\ UNCHANGED <<now, requests, tracker>>

(* A flush of the tracker: of the clicks taken from the channel, a store     *)
(* call per link, then one for all events (memory store calls do not fail).  *)

startFlush ==
    /\ batch = NoClicks
    /\ \E taken \in [Id -> 0 .. MaxClicks] :
         /\ taken # NoClicks /\ \A i \in Id : taken[i] <= tracked[i]
         /\ batch' = taken
         /\ uncounted' = {i \in Id : taken[i] > 0}
         /\ tracked' = [i \in Id |-> tracked[i] - taken[i]]
    /\ UNCHANGED <<now, store, requests, resolved>>

flushClicks(i) ==
    /\ i \in uncounted
    /\ IncrClickBy(i, batch[i])
    /\ uncounted' = uncounted \ {i}
    /\ UNCHANGED <<now, requests, tracked, batch, resolved>>

flushEvents ==
    /\ batch # NoClicks /\ uncounted = {}
    /\ RecordEvents(batch)
    /\ batch' = NoClicks
    /\ UNCHANGED <<now, requests, tracked, uncounted, resolved>>

Tick == /\ now < MaxTime
        /\ now' = now + 1
        /\ UNCHANGED <<store, requests, tracker>>

Fields == [Field -> Val]

Next == \/ \E r \in Req :
             \/ \E fields \in Fields, exp \in Expiry,
                   deleted \in BodyDeletedAt :
                  shortenURL(r, fields, exp, deleted)
             \/ saveCreated(r)
             \/ \E i \in Id, patch \in linkPatch : updateRead(r, i, patch)
             \/ updateSave(r)
        \/ \E i \in Id : \/ handleDelete(i)
                         \/ deleteLink(i)
                         \/ handlePreview(i)
                         \/ getLink(i)
                         \/ flushClicks(i)
        \/ startFlush
        \/ flushEvents
        \/ list
        \/ Tick

Spec == Init /\ [][Next]_vars

----------------------------------------------------------------------------
TypeOK ==
    /\ StoreTypeOK
    /\ now \in Nat
    /\ inflight \in [Req -> Pending \cup {Idle}]
    /\ used \subseteq Id
    /\ overtaken \subseteq Req /\ outdated \subseteq Req
    /\ tracked \in [Id -> Nat] /\ batch \in [Id -> Nat]
    /\ uncounted \subseteq Id /\ resolved \in [Id -> Nat]

(* The two records of a deletion agree: deletedAt, which decides when a    *)
(* link is purged, has an entry exactly for the links whose payload a      *)
(* DELETE has marked, which hides them; and the mark in the payload is     *)
(* that time in whole seconds.  Save drops the entry whatever payload it   *)
(* is given, so this rests on no handler saving a marked one.  A link      *)
(* created with a deleted_at is as hidden, and has no entry.               *)
DeletionRecordsAgree ==
    /\ DOMAIN deletedAt = {i \in DOMAIN payload : payload[i].deleted \in Nat}
    /\ \A i \in DOMAIN deletedAt : payload[i].deleted = Stamp(deletedAt[i])

(* A created link can be reached: its ID was generated for it alone and no *)
(* skip path hides it (shortenURL draws again), and no other create is     *)
(* about to overwrite it.                                                  *)
Reachable ==
    /\ DOMAIN payload \subseteq used \ SkipPath
    /\ \A i \in DOMAIN payload : On("create", i) = {}

(* A link leaves the store only when it is past its expiry, or marked by a  *)
(* DELETE and past the grace window counted from the mark in its payload.   *)
NoEarlyPurge ==
    [][\A i \in DOMAIN payload \ DOMAIN payload' :
         \/ LinkExpired(payload[i])
         \/ /\ payload[i].deleted \in Nat
            /\ now - payload[i].deleted >= Grace]_vars

(* A soft-deleted link comes back only through a PATCH that read it before  *)
(* it was deleted and saves its copy afterwards.  The handlers refuse every *)
(* other way (handleUpdate answers 404 for a link it finds deleted).        *)
BackOnlyByStalePatch ==
    [][\A i \in DOMAIN payload \cap DOMAIN payload' :
         payload[i].deleted # Never /\ payload'[i].deleted = Never
           => \E r \in overtaken \cap On("update", i) : updateSave(r)]_vars

(* A field of a link changes only through a PATCH that names it, or through *)
(* one that another PATCH overtook between its read and its save: then the  *)
(* copy saved writes back the old value of a field it does not name         *)
(* (handleUpdate has nothing to notice it by).                              *)
OmittedFieldsKept ==
    [][\A i \in DOMAIN payload \cap DOMAIN payload', f \in Field :
         payload'[i].fields[f] # payload[i].fields[f]
           => \E r \in On("update", i) :
                updateSave(r) /\ (f \in inflight[r].set \/ r \in outdated)]_vars

(* No PATCH, deletion or resurrection loses clicks or moves the expiry of a *)
(* link that stays in the store.                                            *)
KeepsClicksAndExpiry ==
    [][\A i \in DOMAIN payload \cap DOMAIN payload' :
         /\ payload'[i].exp = payload[i].exp
         /\ clicks'[i] >= clicks[i] /\ stats'[i] >= stats[i]]_vars

(* The counters never exceed the clicks that resolved the link, even when   *)
(* it is purged while its clicks wait in the tracker.                       *)
CountersBounded ==
    \A i \in Id :
      /\ clicks[i] + tracked[i] + (IF i \in uncounted THEN batch[i] ELSE 0)
           <= resolved[i]
      /\ stats[i] + tracked[i] + batch[i] <= resolved[i]

----------------------------------------------------------------------------
(* Each link by itself, whatever happens to the others.                     *)

Lifecycle(i) == INSTANCE LinkLifecycle
    WITH None <- Gone, link <- IF i \in DOMAIN payload THEN Shown(i) ELSE Gone

(* The store keeps its promises about every single link: requests for one   *)
(* and the sweeps of List never touch another, an expiry does not move, and *)
(* what leaves was due.                                                     *)
ImplementsLifecycle ==
    [][\A i \in Id : [Lifecycle(i)!Next]_(Lifecycle(i)!vars)]_vars

----------------------------------------------------------------------------
(* The flushes, between everything else that happens to the links.          *)

Flushes == INSTANCE ClickFlushes
             WITH Link <- Id, StoreFaults <- FALSE, StoreForgets <- TRUE,
                  counted <- clicks, recorded <- stats

(* The counters of a link change only by the calls of a flush, each with    *)
(* the clicks the flush took and each made once, or go together when the    *)
(* link is purged: no save, patch, deletion or look at a link touches them. *)
(* ClickTracker implements the same flushes.                                *)
FollowsFlushes == Flushes!Spec

----------------------------------------------------------------------------
(* What makes DeletionRecordsAgree and Reachable inductive: a request in    *)
(* progress holds a copy that no DELETE has marked, of a link whose ID was  *)
(* generated, and a create is alone with its ID.                            *)
InflightSound ==
    \A r \in Req : inflight[r] # Idle =>
      /\ inflight[r].link.deleted \in BodyDeletedAt
      /\ inflight[r].id \in used \ SkipPath
      /\ inflight[r].op = "create" =>
           /\ inflight[r].id \notin DOMAIN payload
           /\ \A q \in Req \ {r} :
                inflight[q] # Idle => inflight[q].id # inflight[r].id

(* What makes the properties of PATCH inductive: the copy of a PATCH in     *)
(* progress is not deleted; of the link it has read, as long as it is       *)
(* there, it has the expiry, and that link was not created as deleted; a    *)
(* deletion since then and another PATCH's save have left their mark; and   *)
(* without the latter the copy agrees in the fields the PATCH does not name.*)
PatchSound ==
    \A i \in Id : \A r \in On("update", i) :
      /\ inflight[r].link.deleted = Never
      /\ \A q \in On("update", i) :
           inflight[q].link.exp = inflight[r].link.exp
      /\ i \in DOMAIN payload =>
           /\ payload[i].exp = inflight[r].link.exp
           /\ payload[i].deleted # Given
           /\ payload[i].deleted # Never => r \in overtaken
           /\ r \notin outdated =>
                \A f \in Field \ inflight[r].set :
                  payload[i].fields[f] = inflight[r].link.fields[f]

IInv == /\ TypeOK /\ DeletionRecordsAgree /\ InflightSound
        /\ DOMAIN payload \subseteq used \ SkipPath

----------------------------------------------------------------------------
(* What the documentation says and the code does not keep. *)

(* A deleted link "stops resolving at once and is purged after a grace     *)
(* period" (mcpserver/server.go): once deleted, always deleted.            *)
DeletedStaysDeleted ==
    [][\A i \in DOMAIN payload \cap DOMAIN payload' :
         payload[i].deleted # Never => payload'[i].deleted # Never]_vars

=============================================================================
