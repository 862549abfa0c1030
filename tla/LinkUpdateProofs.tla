-------------------------- MODULE LinkUpdateProofs --------------------------
(***************************************************************************)
(* Proofs about PATCH and about each link by itself: what a save by a      *)
(* handler that read its link earlier can do to it, for any number of      *)
(* requests, and that every link goes through the life LinkLifecycle gives *)
(* it.  They rest on PatchSound, proved on top of LinkServiceProofs.       *)
(***************************************************************************)
EXTENDS LinkServiceProofs

----------------------------------------------------------------------------
(* What the store's operations do to a link.                                *)

(* Everything a step may do to the links, except saving one: drop some that *)
(* are due, or mark one.                                                    *)
Dropped(S) == /\ DOMAIN payload' = DOMAIN payload \ S
              /\ \A i \in DOMAIN payload' : payload'[i] = payload[i]
              /\ \A i \in DOMAIN payload' : i \in Id =>
                   clicks'[i] = clicks[i] /\ stats'[i] = stats[i]
              /\ \A i \in S : Swept(i) \/ (i \in DOMAIN payload /\ LinkExpired(payload[i]))

LEMMA EvictDrops ==
    ASSUME NEW S, EvictLocked(S),
           \A i \in S : Swept(i) \/ (i \in DOMAIN payload /\ LinkExpired(payload[i]))
    PROVE  Dropped(S)
<1>1. /\ DOMAIN payload' = DOMAIN payload \ S
      /\ \A i \in DOMAIN payload \ S : payload'[i] = payload[i]
  BY WithoutMap DEF EvictLocked
<1>2. \A i \in Id \ S : clicks'[i] = clicks[i] /\ stats'[i] = stats[i]
  BY DEF EvictLocked
<1> QED
  BY <1>1, <1>2 DEF Dropped

LEMMA GetDrops ==
    ASSUME NEW i \in Id, Get(i)
    PROVE  \E S : Dropped(S) /\ (Found(i) => i \in DOMAIN payload /\ i \notin S)
<1>1. CASE Swept(i) \/ (i \in DOMAIN payload /\ LinkExpired(payload[i]))
  <2>1. Dropped({i})
    BY <1>1, EvictDrops DEF Get
  <2> QED
    BY <1>1, <2>1 DEF Found
<1>2. CASE ~(Swept(i) \/ (i \in DOMAIN payload /\ LinkExpired(payload[i])))
  <2>1. Dropped({})
    BY <1>2 DEF Get, store, Dropped
  <2> QED
    BY <2>1 DEF Found
<1> QED
  BY <1>1, <1>2

LEMMA SweepDrops ==
    ASSUME SweepAll
    PROVE  \E S : Dropped(S)
BY EvictDrops DEF SweepAll

LEMMA DeleteDropsOrMarks ==
    ASSUME NEW i \in Id, Delete(i)
    PROVE  Mark(i) \/ \E S : Dropped(S)
<1>1. CASE Swept(i) /\ EvictLocked({i})
  BY <1>1, EvictDrops
<1>2. CASE UNCHANGED store
  <2>1. Dropped({})
    BY <1>2 DEF store, Dropped
  <2> QED
    BY <2>1
<1> QED
  BY <1>1, <1>2 DEF Delete, Mark

----------------------------------------------------------------------------
(* The steps of the service, by what they do to the links.                  *)

\* A step that leaves the requests and the clock alone but may drop links.
Quiet == /\ UNCHANGED <<now, inflight>>
         /\ overtaken \subseteq overtaken' /\ outdated' = outdated
         /\ \E S : Dropped(S)

\* A step that saves what request r holds.
Saved(r, op) == /\ inflight[r].op = op
                /\ Save(inflight[r].id, inflight[r].link)
                /\ inflight' = [inflight EXCEPT ![r] = Idle]
                /\ now' = now

LEMMA UnchangedDrops ==
    ASSUME payload' = payload,
           \A i \in Id : clicks'[i] = clicks[i] /\ stats'[i] = stats[i]
    PROVE  \E S : Dropped(S)
<1>1. Dropped({})
  BY DEF Dropped
<1> QED
  BY <1>1

(* Counters grow in a flush and in nothing else.                            *)
Flush == /\ UNCHANGED <<now, inflight, overtaken, outdated, payload>>
         /\ \A i \in Id : clicks'[i] >= clicks[i] /\ stats'[i] >= stats[i]

LEMMA FlushGrows ==
    ASSUME IInv,
           startFlush \/ (\E i \in Id : flushClicks(i)) \/ flushEvents
    PROVE  Flush
<1>1. /\ clicks \in [Id -> Nat] /\ stats \in [Id -> Nat]
      /\ batch \in [Id -> Nat]
  BY DEF IInv, TypeOK, StoreTypeOK
<1>2. CASE startFlush
  BY <1>1, <1>2 DEF startFlush, store, requests, Flush
<1>3. CASE \E i \in Id : flushClicks(i)
  BY <1>1, <1>3 DEF flushClicks, IncrClickBy, requests, Flush
<1>4. CASE flushEvents
  BY <1>1, <1>4 DEF flushEvents, RecordEvents, requests, Flush
<1> QED
  BY <1>2, <1>3, <1>4

(* Every step is one of these.                                              *)
LEMMA StepKinds ==
    ASSUME IInv, [Next]_vars
    PROVE  \/ Quiet
           \/ Flush
           \/ \E i \in Id : Mark(i) /\ deleteLink(i)
           \/ \E r \in Req, fields \in Fields, exp \in Expiry,
                 deleted \in BodyDeletedAt :
                shortenURL(r, fields, exp, deleted)
           \/ \E r \in Req, i \in Id, patch \in linkPatch :
                /\ updateRead(r, i, patch) /\ Found(i)
                /\ payload[i].deleted = Never
           \/ \E r \in Req : Saved(r, "create") /\ saveCreated(r)
           \/ \E r \in Req : Saved(r, "update") /\ updateSave(r)
           \/ Tick
<1>1. ASSUME NEW r \in Req, saveCreated(r)
      PROVE  Saved(r, "create")
  BY <1>1 DEF saveCreated, Saved
<1>2. ASSUME NEW r \in Req, updateSave(r)
      PROVE  Saved(r, "update")
  BY <1>2 DEF updateSave, Saved
<1>3. ASSUME NEW r \in Req, NEW i \in Id, NEW patch \in linkPatch,
             updateRead(r, i, patch), ~Found(i) \/ payload[i].deleted # Never
      PROVE  Quiet
  <2>1. \E S : Dropped(S)
    BY <1>3, GetDrops DEF updateRead
  <2>2. UNCHANGED <<now, inflight, overtaken, outdated>>
    BY <1>3 DEF updateRead
  <2> QED
    BY <2>1, <2>2 DEF Quiet
<1>4. ASSUME NEW i \in Id, deleteLink(i)
      PROVE  Mark(i) \/ Quiet
  <2>1. Mark(i) \/ \E S : Dropped(S)
    BY <1>4, DeleteDropsOrMarks DEF deleteLink
  <2>2. UNCHANGED <<now, inflight, outdated>> /\ overtaken \subseteq overtaken'
    BY <1>4 DEF deleteLink
  <2> QED
    BY <2>1, <2>2 DEF Quiet
<1>5. ASSUME NEW i \in Id, handlePreview(i) \/ getLink(i)
      PROVE  Quiet
  <2>1. \E S : Dropped(S)
    BY <1>5, GetDrops DEF handlePreview, getLink
  <2>2. UNCHANGED <<now, inflight, overtaken, outdated>>
    BY <1>5 DEF handlePreview, getLink, requests
  <2> QED
    BY <2>1, <2>2 DEF Quiet
<1>6. CASE list
  BY <1>6, SweepDrops DEF list, requests, Quiet
<1>7. CASE UNCHANGED vars
  <2>1. \E S : Dropped(S)
    BY <1>7, UnchangedDrops DEF vars, store
  <2> QED
    BY <1>7, <2>1 DEF vars, requests, Quiet
<1>8. CASE startFlush \/ (\E i \in Id : flushClicks(i)) \/ flushEvents
  BY <1>8, FlushGrows
<1> QED
  BY <1>1, <1>2, <1>3, <1>4, <1>5, <1>6, <1>7, <1>8 DEF Next, handleDelete
----------------------------------------------------------------------------
(* PatchSound is an invariant.                                              *)

(* It is kept by a step that adds no PATCH, and changes of the links that   *)
(* are still being patched at most that some are marked.                    *)
LEMMA PatchSoundKept ==
    ASSUME PatchSound,
           \A i \in Id : On("update", i)' \subseteq On("update", i),
           \A i \in Id : \A r \in On("update", i)' :
             /\ inflight'[r] = inflight[r]
             /\ r \notin outdated' => r \notin outdated
             /\ r \in overtaken => r \in overtaken'
             /\ i \in DOMAIN payload' =>
                  /\ i \in DOMAIN payload
                  /\ payload'[i].exp = payload[i].exp
                  /\ payload'[i].fields = payload[i].fields
                  /\ \/ payload'[i].deleted = payload[i].deleted
                     \/ payload'[i].deleted # Given /\ r \in overtaken'
    PROVE  PatchSound'
<1> SUFFICES ASSUME NEW i \in Id, NEW r \in On("update", i)'
             PROVE  /\ inflight'[r].link.deleted = Never
                    /\ \A q \in On("update", i)' :
                         inflight'[q].link.exp = inflight'[r].link.exp
                    /\ i \in DOMAIN payload' =>
                         /\ payload'[i].exp = inflight'[r].link.exp
                         /\ payload'[i].deleted # Given
                         /\ payload'[i].deleted # Never => r \in overtaken'
                         /\ r \notin outdated' =>
                              \A f \in Field \ inflight'[r].set :
                                payload'[i].fields[f] = inflight'[r].link.fields[f]
  BY DEF PatchSound
<1>1. r \in On("update", i)
  OBVIOUS
<1>2. /\ inflight[r].link.deleted = Never
      /\ \A q \in On("update", i) :
           inflight[q].link.exp = inflight[r].link.exp
      /\ i \in DOMAIN payload =>
           /\ payload[i].exp = inflight[r].link.exp
           /\ payload[i].deleted # Given
           /\ payload[i].deleted # Never => r \in overtaken
           /\ r \notin outdated =>
                \A f \in Field \ inflight[r].set :
                  payload[i].fields[f] = inflight[r].link.fields[f]
  BY <1>1 DEF PatchSound
<1> QED
  BY <1>1, <1>2

LEMMA MarkPatchSound ==
    ASSUME IInv, PatchSound, NEW i \in Id, Mark(i), deleteLink(i)
    PROVE  PatchSound'
<1>1. /\ DOMAIN payload' = DOMAIN payload
      /\ \A j \in DOMAIN payload \ {i} : payload'[j] = payload[j]
      /\ payload'[i] = [payload[i] EXCEPT !.deleted = Stamp(now)]
      /\ payload[i] \in Links
  BY DEF Mark, IInv, TypeOK, StoreTypeOK
<1>2. payload' # payload
  <2>1. payload[i].deleted = Never /\ Stamp(now) # Never
    BY StampType DEF Mark, IInv, TypeOK
  <2>2. payload'[i].deleted = Stamp(now)
    BY <1>1 DEF Links
  <2> QED
    BY <2>1, <2>2
<1>3. /\ overtaken' = overtaken \cup On("update", i)
      /\ inflight' = inflight /\ outdated' = outdated
  BY <1>2 DEF deleteLink
<1>4. \A j \in Id : On("update", j)' = On("update", j)
  BY <1>3 DEF On
<1>5. payload'[i].exp = payload[i].exp /\ payload'[i].fields = payload[i].fields
  BY <1>1 DEF Links
<1>6. payload'[i].deleted # Given
  <2>1. Stamp(now) # Given
    BY StampType, StoreAssumption DEF IInv, TypeOK
  <2> QED
    BY <1>1, <2>1 DEF Links
<1> QED
  BY <1>1, <1>3, <1>4, <1>5, <1>6, PatchSoundKept

LEMMA ShortenPatchSound ==
    ASSUME IInv, PatchSound, NEW r \in Req, NEW fields \in Fields,
           NEW exp \in Expiry, NEW deleted \in BodyDeletedAt,
           shortenURL(r, fields, exp, deleted)
    PROVE  PatchSound'
<1>1. /\ inflight'[r].op = "create"
      /\ \A q \in Req \ {r} : inflight'[q] = inflight[q]
  BY DEF shortenURL, IInv, TypeOK
<1>2. \A i \in Id : /\ On("update", i)' \subseteq On("update", i)
                    /\ \A q \in On("update", i)' : inflight'[q] = inflight[q]
  BY <1>1 DEF On
<1>3. UNCHANGED <<payload, overtaken, outdated>>
  BY DEF shortenURL, store
<1> QED
  BY <1>2, <1>3, PatchSoundKept

LEMMA CreatePatchSound ==
    ASSUME IInv, PatchSound, NEW r \in Req, Saved(r, "create"), saveCreated(r)
    PROVE  PatchSound'
<1> DEFINE i == inflight[r].id
<1>1. inflight[r] # Idle
  BY PendingShape DEF Saved
<1>2. \A q \in Req \ {r} : inflight[q] # Idle => inflight[q].id # i
  BY <1>1 DEF Saved, IInv, InflightSound
<1>3. On("update", i) = {}
  BY <1>1, <1>2 DEF On, Saved, Idle
<1>4. /\ inflight'[r] = Idle
      /\ \A q \in Req \ {r} : inflight'[q] = inflight[q]
  BY DEF Saved, IInv, TypeOK
<1>5. \A j \in Id : /\ On("update", j)' \subseteq On("update", j)
                    /\ \A q \in On("update", j)' : inflight'[q] = inflight[q]
  BY <1>4 DEF On, Idle
<1>6. /\ DOMAIN payload' = DOMAIN payload \cup {i}
      /\ \A j \in DOMAIN payload \ {i} : payload'[j] = payload[j]
  BY DEF Saved, Save, Put
<1>7. UNCHANGED <<overtaken, outdated>>
  BY DEF saveCreated
<1> QED
  BY <1>3, <1>5, <1>6, <1>7, PatchSoundKept

(* The PATCH that saves brings its copy, which has the expiry of all other  *)
(* copies; those are outdated from now on.                                  *)
LEMMA UpdateSavePatchSound ==
    ASSUME IInv, PatchSound, NEW r \in Req, Saved(r, "update"), updateSave(r)
    PROVE  PatchSound'
<1> DEFINE i == inflight[r].id
<1>1. /\ inflight'[r] = Idle
      /\ \A q \in Req \ {r} : inflight'[q] = inflight[q]
  BY DEF Saved, IInv, TypeOK
<1>2. \A j \in Id : On("update", j)' = On("update", j) \ {r}
  BY <1>1 DEF On, Idle
<1>3. /\ DOMAIN payload' = DOMAIN payload \cup {i}
      /\ payload'[i] = inflight[r].link
      /\ \A j \in DOMAIN payload \ {i} : payload'[j] = payload[j]
  BY DEF Saved, Save, Put
<1>4. /\ overtaken' = overtaken \ {r}
      /\ outdated' = (outdated \cup On("update", i)) \ {r}
  BY DEF updateSave
<1>5. r \in On("update", i) /\ i \in Id /\ inflight[r].link.deleted = Never
  BY PendingShape DEF On, Saved, PatchSound
<1> SUFFICES ASSUME NEW j \in Id, NEW q \in On("update", j)'
             PROVE  /\ inflight'[q].link.deleted = Never
                    /\ \A p \in On("update", j)' :
                         inflight'[p].link.exp = inflight'[q].link.exp
                    /\ j \in DOMAIN payload' =>
                         /\ payload'[j].exp = inflight'[q].link.exp
                         /\ payload'[j].deleted # Given
                         /\ payload'[j].deleted # Never => q \in overtaken'
                         /\ q \notin outdated' =>
                              \A f \in Field \ inflight'[q].set :
                                payload'[j].fields[f] = inflight'[q].link.fields[f]
  BY DEF PatchSound
<1>6. q \in On("update", j) /\ q # r /\ q \in Req
  BY <1>2 DEF On
<1>7. /\ inflight'[q] = inflight[q]
      /\ \A p \in On("update", j)' : /\ p \in On("update", j)
                                     /\ inflight'[p] = inflight[p]
  BY <1>1, <1>2, <1>6 DEF On
<1>8. /\ inflight[q].link.deleted = Never
      /\ \A p \in On("update", j) :
           inflight[p].link.exp = inflight[q].link.exp
      /\ j \in DOMAIN payload =>
           /\ payload[j].exp = inflight[q].link.exp
           /\ payload[j].deleted # Given
           /\ payload[j].deleted # Never => q \in overtaken
           /\ q \notin outdated =>
                \A f \in Field \ inflight[q].set :
                  payload[j].fields[f] = inflight[q].link.fields[f]
  BY <1>6 DEF PatchSound
<1>9. CASE j = i
  <2>1. q \in outdated' /\ inflight[r].link.exp = inflight[q].link.exp
    BY <1>4, <1>5, <1>6, <1>8, <1>9
  <2> QED
    BY <1>3, <1>5, <1>7, <1>8, <1>9, <2>1, StoreAssumption
<1>10. CASE j # i
  BY <1>3, <1>4, <1>6, <1>7, <1>8, <1>10
<1> QED
  BY <1>9, <1>10

(* The PATCH that reads takes a copy of a link that is not deleted.         *)
LEMMA UpdateReadPatchSound ==
    ASSUME IInv, PatchSound, NEW r \in Req, NEW i \in Id,
           NEW patch \in linkPatch, updateRead(r, i, patch), Found(i),
           payload[i].deleted = Never
    PROVE  PatchSound'
<1>1. /\ DOMAIN payload' \subseteq DOMAIN payload /\ i \in DOMAIN payload
      /\ \A j \in DOMAIN payload' : payload'[j] = payload[j]
  BY GetDrops DEF updateRead, Dropped
<1> DEFINE new == [op |-> "update", id |-> i, set |-> DOMAIN patch,
                   link |-> applyTo(payload[i], patch)]
<1>2. inflight[r] = Idle /\ inflight' = [inflight EXCEPT ![r] = new]
  BY DEF updateRead
<1>3. payload[i] \in Links
  BY <1>1 DEF IInv, TypeOK, StoreTypeOK
<1>4. /\ new.op = "update" /\ new.id = i /\ new.set = DOMAIN patch
      /\ new.link.exp = payload[i].exp /\ new.link.deleted = Never
      /\ \A f \in Field \ new.set : new.link.fields[f] = payload[i].fields[f]
  BY <1>3 DEF applyTo, Links
<1> HIDE DEF new
<1>5. /\ inflight'[r] = new
      /\ \A q \in Req \ {r} : inflight'[q] = inflight[q]
  BY <1>2 DEF IInv, TypeOK
<1>6. UNCHANGED <<overtaken, outdated>>
  BY DEF updateRead
<1>7. \A j \in Id : On("update", j)' =
                      IF j = i THEN On("update", j) \cup {r} ELSE On("update", j)
  BY <1>2, <1>4, <1>5 DEF On, Idle
<1>8. \A q \in On("update", i) : inflight[q].link.exp = payload[i].exp
  BY <1>1 DEF PatchSound
<1>9. \A j \in Id : r \notin On("update", j)
  BY <1>2 DEF On, Idle
<1>10. ASSUME NEW j \in Id, NEW q \in On("update", j)
       PROVE  /\ inflight'[q] = inflight[q]
              /\ inflight'[q].link.deleted = Never
              /\ \A p \in On("update", j) :
                   inflight'[p].link.exp = inflight'[q].link.exp
              /\ j \in DOMAIN payload' =>
                   /\ payload'[j].exp = inflight'[q].link.exp
                   /\ payload'[j].deleted # Given
                   /\ payload'[j].deleted # Never => q \in overtaken'
                   /\ q \notin outdated' =>
                        \A f \in Field \ inflight'[q].set :
                          payload'[j].fields[f] = inflight'[q].link.fields[f]
  <2>1. \A p \in On("update", j) : inflight'[p] = inflight[p]
    BY <1>5, <1>9 DEF On
  <2> QED
    BY <1>1, <1>6, <2>1 DEF PatchSound
<1> SUFFICES ASSUME NEW j \in Id, NEW q \in On("update", j)'
             PROVE  /\ inflight'[q].link.deleted = Never
                    /\ \A p \in On("update", j)' :
                         inflight'[p].link.exp = inflight'[q].link.exp
                    /\ j \in DOMAIN payload' =>
                         /\ payload'[j].exp = inflight'[q].link.exp
                         /\ payload'[j].deleted # Given
                         /\ payload'[j].deleted # Never => q \in overtaken'
                         /\ q \notin outdated' =>
                              \A f \in Field \ inflight'[q].set :
                                payload'[j].fields[f] = inflight'[q].link.fields[f]
  BY DEF PatchSound
<1>11. CASE j # i
  BY <1>7, <1>10, <1>11
<1>12. CASE j = i /\ q = r
  <2>1. \A p \in On("update", i)' : inflight'[p].link.exp = payload[i].exp
    BY <1>4, <1>5, <1>7, <1>8, <1>10
  <2> QED
    BY <1>1, <1>4, <1>5, <1>12, <2>1, StoreAssumption
<1>13. CASE j = i /\ q # r
  <2>1. q \in On("update", i)
    BY <1>7, <1>13
  <2>2. \A p \in On("update", i)' : inflight'[p].link.exp = payload[i].exp
    BY <1>4, <1>5, <1>7, <1>8, <1>10
  <2> QED
    BY <1>8, <1>10, <1>13, <2>1, <2>2
<1> QED
  BY <1>11, <1>12, <1>13

LEMMA PatchSoundNext ==
    ASSUME IInv, PatchSound, [Next]_vars
    PROVE  PatchSound'
<1>1. ASSUME UNCHANGED <<inflight, outdated>>, overtaken \subseteq overtaken',
             DOMAIN payload' \subseteq DOMAIN payload,
             \A i \in DOMAIN payload' : payload'[i] = payload[i]
      PROVE  PatchSound'
  <2>1. \A i \in Id : On("update", i)' = On("update", i)
    BY <1>1 DEF On
  <2> QED
    BY <1>1, <2>1, PatchSoundKept
<1>2. CASE Quiet
  BY <1>1, <1>2 DEF Quiet, Dropped
<1>3. CASE Flush
  BY <1>1, <1>3 DEF Flush
<1>4. CASE Tick
  BY <1>1, <1>4 DEF Tick, requests, store
<1> QED
  BY <1>2, <1>3, <1>4, StepKinds, MarkPatchSound, ShortenPatchSound,
     UpdateReadPatchSound, CreatePatchSound, UpdateSavePatchSound

LEMMA PatchesSound == Spec => [](IInv /\ PatchSound)
<1>1. Init => PatchSound
  BY DEF Init, PatchSound, On, Idle
<1>2. IInv /\ PatchSound /\ [Next]_vars => PatchSound'
  BY PatchSoundNext
<1> QED
  BY <1>1, <1>2, Inductive, PTL DEF Spec
----------------------------------------------------------------------------
(* What a step may do to a link that stays in the store.                    *)

LEMMA LinkSteps ==
    ASSUME IInv, PatchSound, [Next]_vars, NEW i \in Id,
           i \in DOMAIN payload, i \in DOMAIN payload'
    PROVE  \/ payload'[i] = payload[i]
           \/ Mark(i) /\ now' = now
           \/ \E r \in On("update", i) :
                updateSave(r) /\ payload'[i] = inflight[r].link /\ now' = now
<1>1. CASE Quiet
  BY <1>1 DEF Quiet, Dropped
<1>2. CASE Flush \/ Tick
  BY <1>2 DEF Flush, Tick, store
<1>3. ASSUME NEW j \in Id, Mark(j), deleteLink(j)
      PROVE  payload'[i] = payload[i] \/ (Mark(i) /\ now' = now)
  BY <1>3 DEF Mark, deleteLink
<1>4. ASSUME NEW r \in Req, NEW fields \in Fields, NEW exp \in Expiry,
             NEW deleted \in BodyDeletedAt, shortenURL(r, fields, exp, deleted)
      PROVE  payload'[i] = payload[i]
  BY <1>4 DEF shortenURL, store
<1>5. ASSUME NEW r \in Req, NEW j \in Id, NEW patch \in linkPatch,
             updateRead(r, j, patch)
      PROVE  payload'[i] = payload[i]
  BY <1>5, GetDrops DEF updateRead, Dropped
<1>6. ASSUME NEW r \in Req, Saved(r, "create")
      PROVE  payload'[i] = payload[i]
  <2>1. inflight[r].id \notin DOMAIN payload
    BY <1>6, PendingShape DEF Saved, IInv, InflightSound
  <2> QED
    BY <1>6, <2>1 DEF Saved, Save, Put
<1>7. ASSUME NEW r \in Req, Saved(r, "update"), updateSave(r)
      PROVE  \/ payload'[i] = payload[i]
             \/ r \in On("update", i) /\ payload'[i] = inflight[r].link /\ now' = now
  BY <1>7 DEF Saved, Save, Put, On
<1> QED
  BY <1>1, <1>2, <1>3, <1>4, <1>5, <1>6, <1>7, StepKinds

(* A soft-deleted link comes back only through a PATCH that a DELETE        *)
(* overtook, for any number of requests on any number of links.             *)
THEOREM BackOnlyByOvertaken == Spec => BackOnlyByStalePatch
<1> DEFINE Back(i) == payload[i].deleted # Never /\ payload'[i].deleted = Never
<1>1. ASSUME IInv, PatchSound, [Next]_vars,
             NEW i \in DOMAIN payload \cap DOMAIN payload', Back(i)
      PROVE  \E r \in overtaken \cap On("update", i) : updateSave(r)
  <2>1. i \in Id
    BY <1>1 DEF IInv, TypeOK, StoreTypeOK
  <2>2. ~Mark(i)
    BY <1>1 DEF Mark
  <2>3. PICK r \in On("update", i) : updateSave(r)
    BY <1>1, <2>1, <2>2, LinkSteps
  <2>4. r \in overtaken
    BY <1>1, <2>1, <2>3 DEF PatchSound
  <2> QED
    BY <2>3, <2>4
<1>2. IInv /\ PatchSound /\ [Next]_vars =>
        [\A i \in DOMAIN payload \cap DOMAIN payload' :
           Back(i) => \E r \in overtaken \cap On("update", i) : updateSave(r)]_vars
  BY <1>1
<1> QED
  BY <1>2, PatchesSound, PTL DEF Spec, BackOnlyByStalePatch

(* A field changes only through a PATCH that names it or that another PATCH *)
(* of the link overtook.                                                    *)
THEOREM OmittedKept == Spec => OmittedFieldsKept
<1> DEFINE Ok(i, f) ==
      payload'[i].fields[f] # payload[i].fields[f]
        => \E r \in On("update", i) :
             updateSave(r) /\ (f \in inflight[r].set \/ r \in outdated)
<1>1. ASSUME IInv, PatchSound, [Next]_vars, NEW f \in Field,
             NEW i \in DOMAIN payload \cap DOMAIN payload'
      PROVE  Ok(i, f)
  <2>1. i \in Id /\ payload[i] \in Links
    BY <1>1 DEF IInv, TypeOK, StoreTypeOK
  <2>2. CASE payload'[i] = payload[i]
    BY <2>2
  <2>3. CASE Mark(i)
    BY <2>1, <2>3 DEF Mark, Links
  <2>4. ASSUME NEW r \in On("update", i), updateSave(r),
               payload'[i] = inflight[r].link
        PROVE  Ok(i, f)
    BY <1>1, <2>1, <2>4 DEF PatchSound
  <2> QED
    BY <1>1, <2>1, <2>2, <2>3, <2>4, LinkSteps
<1>2. IInv /\ PatchSound /\ [Next]_vars =>
        [\A i \in DOMAIN payload \cap DOMAIN payload', f \in Field : Ok(i, f)]_vars
  BY <1>1
<1> QED
  BY <1>2, PatchesSound, PTL DEF Spec, OmittedFieldsKept

(* No step loses clicks of a link that stays in the store, or moves its     *)
(* expiry.                                                                  *)
THEOREM ClicksAndExpiryKept == Spec => KeepsClicksAndExpiry
<1> DEFINE Keeps(i) == /\ payload'[i].exp = payload[i].exp
                       /\ clicks'[i] >= clicks[i] /\ stats'[i] >= stats[i]
<1>1. ASSUME IInv, PatchSound, [Next]_vars, NEW i \in Id,
             i \in DOMAIN payload, i \in DOMAIN payload'
      PROVE  payload'[i].exp = payload[i].exp
  <2>1. payload[i] \in Links
    BY <1>1 DEF IInv, TypeOK, StoreTypeOK
  <2>2. CASE Mark(i)
    BY <2>1, <2>2 DEF Mark, Links
  <2>3. ASSUME NEW r \in On("update", i), payload'[i] = inflight[r].link
        PROVE  payload'[i].exp = payload[i].exp
    BY <1>1, <2>3 DEF PatchSound
  <2> QED
    BY <1>1, <2>2, <2>3, LinkSteps
<1>2. ASSUME IInv, [Next]_vars, NEW i \in Id, i \in DOMAIN payload'
      PROVE  clicks'[i] >= clicks[i] /\ stats'[i] >= stats[i]
  <2>1. clicks[i] \in Nat /\ stats[i] \in Nat
    BY <1>2 DEF IInv, TypeOK, StoreTypeOK
  <2>2. ASSUME clicks' = clicks /\ stats' = stats
        PROVE  clicks'[i] >= clicks[i] /\ stats'[i] >= stats[i]
    BY <2>1, <2>2
  <2>3. CASE Quiet
    BY <1>2, <2>1, <2>3 DEF Quiet, Dropped
  <2>4. CASE Flush
    BY <2>4 DEF Flush
  <2>5. ASSUME NEW r \in Req, NEW j \in Id, NEW patch \in linkPatch,
               updateRead(r, j, patch)
        PROVE  clicks'[i] >= clicks[i] /\ stats'[i] >= stats[i]
    <3>1. PICK S : Dropped(S)
      BY <2>5, GetDrops DEF updateRead
    <3> QED
      BY <1>2, <2>1, <3>1 DEF Dropped
  <2>6. ASSUME \/ \E j \in Id : Mark(j)
               \/ \E r \in Req : Saved(r, "create") \/ Saved(r, "update")
               \/ \E r \in Req, fields \in Fields, exp \in Expiry,
                     deleted \in BodyDeletedAt :
                    shortenURL(r, fields, exp, deleted)
               \/ Tick
        PROVE  clicks' = clicks /\ stats' = stats
    BY <2>6 DEF Mark, Saved, Save, shortenURL, Tick, store
  <2> QED
    BY <1>2, <2>2, <2>3, <2>4, <2>5, <2>6, StepKinds
<1>3. IInv /\ PatchSound /\ [Next]_vars =>
        [\A i \in DOMAIN payload \cap DOMAIN payload' : Keeps(i)]_vars
  BY <1>1, <1>2 DEF IInv, TypeOK, StoreTypeOK
<1> QED
  BY <1>3, PatchesSound, PTL DEF Spec, KeepsClicksAndExpiry

----------------------------------------------------------------------------
(* Each link lives the life of LinkLifecycle.                               *)

LEMMA ShownNotGone ==
    ASSUME NEW i
    PROVE  Shown(i) # Gone
<1>1. "exp" \in DOMAIN Shown(i) /\ "exp" \notin DOMAIN Gone
  BY DEF Shown, Gone
<1> QED
  BY <1>1

(* A link that is swept or found expired was due.                           *)
LEMMA DroppedIsDue ==
    ASSUME IInv, NEW i \in DOMAIN payload, Swept(i) \/ LinkExpired(payload[i])
    PROVE  Lifecycle(i)!Due(Shown(i), now)
<1>1. CASE LinkExpired(payload[i])
  BY <1>1 DEF LinkExpired, Shown, Lifecycle!Due, Lifecycle!Expired
<1>2. CASE Swept(i)
  <2>1. /\ i \in DOMAIN deletedAt /\ now - deletedAt[i] >= Grace
        /\ payload[i].deleted = Stamp(deletedAt[i]) /\ payload[i].deleted \in Nat
    BY <1>2 DEF Swept, IInv, DeletionRecordsAgree
  <2>2. deletedAt[i] \in Nat /\ now \in Nat
    BY <2>1 DEF IInv, TypeOK, StoreTypeOK
  <2>3. Stamp(deletedAt[i]) \in Nat /\ Stamp(deletedAt[i]) <= deletedAt[i]
    <3>1. deletedAt[i] % SecondLen \in 0 .. deletedAt[i]
      BY <2>2, StoreAssumption
    <3> QED
      BY <2>2, <3>1 DEF Stamp
  <2>4. Stamp(deletedAt[i]) + Grace <= now
    BY <2>1, <2>2, <2>3, StoreAssumption
  <2> QED
    BY <2>1, <2>4 DEF Shown, Lifecycle!Due, Lifecycle!GraceOver
<1> QED
  BY <1>1, <1>2
(* The clock stands still or ticks.                                         *)
LEMMA ClockSteps ==
    ASSUME IInv, [Next]_vars
    PROVE  now' \in {now, now + 1}
<1>1. CASE Quiet \/ Flush
  BY <1>1 DEF Quiet, Flush
<1>2. ASSUME NEW i \in Id, deleteLink(i)
      PROVE  now' = now
  BY <1>2 DEF deleteLink
<1>3. ASSUME NEW r \in Req, NEW fields \in Fields, NEW exp \in Expiry,
             NEW deleted \in BodyDeletedAt, shortenURL(r, fields, exp, deleted)
      PROVE  now' = now
  BY <1>3 DEF shortenURL
<1>4. ASSUME NEW r \in Req, NEW i \in Id, NEW patch \in linkPatch,
             updateRead(r, i, patch)
      PROVE  now' = now
  BY <1>4 DEF updateRead
<1>5. ASSUME NEW r \in Req, NEW op, Saved(r, op)
      PROVE  now' = now
  BY <1>5 DEF Saved
<1>6. CASE Tick
  BY <1>6 DEF Tick
<1> QED
  BY <1>1, <1>2, <1>3, <1>4, <1>5, <1>6, StepKinds

(* A link that leaves the store was due at that moment.                     *)
LEMMA LeavesWhenDue ==
    ASSUME IInv, [Next]_vars, NEW i \in Id, i \in DOMAIN payload,
           i \notin DOMAIN payload'
    PROVE  now' = now /\ (Swept(i) \/ LinkExpired(payload[i]))
<1>1. CASE Quiet
  BY <1>1 DEF Quiet, Dropped
<1>2. CASE Flush \/ Tick
  BY <1>2 DEF Flush, Tick, store
<1>3. ASSUME NEW j \in Id, Mark(j)
      PROVE  FALSE
  BY <1>3 DEF Mark
<1>4. ASSUME NEW r \in Req, NEW fields \in Fields, NEW exp \in Expiry,
             NEW deleted \in BodyDeletedAt, shortenURL(r, fields, exp, deleted)
      PROVE  FALSE
  BY <1>4 DEF shortenURL, store
<1>5. ASSUME NEW r \in Req, NEW j \in Id, NEW patch \in linkPatch,
             updateRead(r, j, patch)
      PROVE  now' = now /\ (Swept(i) \/ LinkExpired(payload[i]))
  BY <1>5, GetDrops DEF updateRead, Dropped
<1>6. ASSUME NEW r \in Req, NEW op, Saved(r, op)
      PROVE  FALSE
  BY <1>6 DEF Saved, Save, Put
<1> QED
  BY <1>1, <1>2, <1>3, <1>4, <1>5, <1>6, StepKinds

(* A link appears by a save, and no DELETE has marked it then.              *)
LEMMA AppearsUnmarked ==
    ASSUME IInv, [Next]_vars, NEW i \in Id, i \notin DOMAIN payload,
           i \in DOMAIN payload'
    PROVE  payload'[i].deleted \in BodyDeletedAt
<1>1. CASE Quiet
  BY <1>1 DEF Quiet, Dropped
<1>2. CASE Flush \/ Tick
  BY <1>2 DEF Flush, Tick, store
<1>3. ASSUME NEW j \in Id, Mark(j)
      PROVE  FALSE
  BY <1>3 DEF Mark
<1>4. ASSUME NEW r \in Req, NEW fields \in Fields, NEW exp \in Expiry,
             NEW deleted \in BodyDeletedAt, shortenURL(r, fields, exp, deleted)
      PROVE  FALSE
  BY <1>4 DEF shortenURL, store
<1>5. ASSUME NEW r \in Req, NEW j \in Id, NEW patch \in linkPatch,
             updateRead(r, j, patch)
      PROVE  FALSE
  BY <1>5, GetDrops DEF updateRead, Dropped
<1>6. ASSUME NEW r \in Req, Saved(r, "create") \/ Saved(r, "update")
      PROVE  payload'[i].deleted \in BodyDeletedAt
  BY <1>6, PendingShape DEF Saved, Save, Put
<1> QED
  BY <1>1, <1>2, <1>3, <1>4, <1>5, <1>6, StepKinds

LEMMA LifecycleSteps ==
    ASSUME IInv, PatchSound, [Next]_vars, NEW i \in Id
    PROVE  Lifecycle(i)!Next
<1> DEFINE before == IF i \in DOMAIN payload THEN Shown(i) ELSE Gone
           after == IF i \in DOMAIN payload' THEN Shown(i)' ELSE Gone
<1>1. now' \in {now, now + 1}
  BY ClockSteps
<1>2. ASSUME \/ after = before
             \/ before = Gone /\ after # Gone
                /\ after.deleted \in {Never, Given}
             \/ /\ before # Gone /\ after # Gone /\ after.exp = before.exp
                /\ before.deleted # Given /\ after.deleted # Given
                /\ after.deleted \in Nat => after.deleted <= now
             \/ /\ before # Gone /\ after = Gone
                /\ Lifecycle(i)!Due(before, now')
      PROVE  Lifecycle(i)!Next
  BY <1>1, <1>2 DEF Lifecycle!Next, Lifecycle!Appear, Lifecycle!Rewrite,
     Lifecycle!Purge, Gone
<1>3. CASE i \notin DOMAIN payload /\ i \notin DOMAIN payload'
  BY <1>2, <1>3
<1>4. CASE i \notin DOMAIN payload /\ i \in DOMAIN payload'
  <2>1. payload'[i].deleted \in {Never, Given}
    BY <1>4, AppearsUnmarked DEF BodyDeletedAt
  <2>2. Shown(i)' # Gone
    <3>1. "exp" \in DOMAIN Shown(i)' /\ "exp" \notin DOMAIN Gone
      BY DEF Shown, Gone
    <3> QED
      BY <3>1
  <2> QED
    BY <1>2, <1>4, <2>1, <2>2 DEF Shown
<1>5. CASE i \in DOMAIN payload /\ i \notin DOMAIN payload'
  <2>1. now' = now /\ (Swept(i) \/ LinkExpired(payload[i]))
    BY <1>5, LeavesWhenDue
  <2>2. Lifecycle(i)!Due(Shown(i), now)
    BY <1>5, <2>1, DroppedIsDue
  <2>3. Lifecycle(i)!Due(Shown(i), now')
    BY <2>1, <2>2 DEF Lifecycle!Due, Lifecycle!Expired, Lifecycle!GraceOver
  <2> QED
    BY <1>2, <1>5, <2>3, ShownNotGone
<1>6. CASE i \in DOMAIN payload /\ i \in DOMAIN payload'
  <2>1. Shown(i)' # Gone
    <3>1. "exp" \in DOMAIN Shown(i)' /\ "exp" \notin DOMAIN Gone
      BY DEF Shown, Gone
    <3> QED
      BY <3>1
  <2>2. CASE payload'[i] = payload[i]
    BY <1>2, <1>6, <2>2 DEF Shown
  <2>3. CASE Mark(i)
    <3>1. payload[i] \in Links /\ now \in Nat
      BY <1>6 DEF IInv, TypeOK, StoreTypeOK
    <3>2. /\ payload'[i].exp = payload[i].exp /\ payload'[i].deleted = Stamp(now)
          /\ payload[i].deleted = Never
      BY <2>3, <3>1 DEF Mark, Links
    <3>3. Stamp(now) <= now /\ Stamp(now) # Given /\ Never # Given
      <4>1. now % SecondLen \in 0 .. now
        BY <3>1, StoreAssumption
      <4> QED
        BY <3>1, <4>1, StampType, StoreAssumption DEF Stamp
    <3> QED
      BY <1>2, <1>6, <2>1, <3>2, <3>3, ShownNotGone DEF Shown
  <2>4. ASSUME NEW r \in On("update", i), payload'[i] = inflight[r].link
        PROVE  Lifecycle(i)!Next
    <3>1. payload'[i].exp = payload[i].exp
      BY <1>6, <2>4 DEF PatchSound
    <3>2. payload'[i].deleted = Never /\ payload[i].deleted # Given
      BY <1>6, <2>4 DEF PatchSound
    <3> QED
      BY <1>2, <1>6, <2>1, <3>1, <3>2, ShownNotGone, StoreAssumption DEF Shown
  <2> QED
    BY <1>6, <2>2, <2>3, <2>4, LinkSteps
<1> QED
  BY <1>3, <1>4, <1>5, <1>6

(* However many requests interleave on however many links, every step keeps *)
(* the promises about each of them.                                         *)
THEOREM EachLinkPromised == Spec => ImplementsLifecycle
<1>1. IInv /\ PatchSound /\ [Next]_vars =>
        [\A i \in Id : [Lifecycle(i)!Next]_(Lifecycle(i)!vars)]_vars
  BY LifecycleSteps
<1> QED
  BY <1>1, PatchesSound, PTL DEF Spec, ImplementsLifecycle

(* The service over the memory store implements LinkLifecycle for any one   *)
(* of its links.                                                            *)
THEOREM ServiceImplementsLifecycle ==
    ASSUME NEW i \in Id
    PROVE  Spec => Lifecycle(i)!Spec
<1>1. Init => Lifecycle(i)!Init
  BY DEF Init, StoreInit, Lifecycle!Init
<1>2. IInv /\ PatchSound /\ [Next]_vars => [Lifecycle(i)!Next]_(Lifecycle(i)!vars)
  BY LifecycleSteps
<1> QED
  BY <1>1, <1>2, PatchesSound, PTL DEF Spec, Lifecycle!Spec
----------------------------------------------------------------------------
(* The counters and the clicks that wait.                                   *)

\* The store forgets counters at most.
Forgets == \A i \in Id : clicks'[i] \in 0 .. clicks[i] /\ stats'[i] \in 0 .. stats[i]

LEMMA StoreForgets ==
    ASSUME IInv,
           \/ UNCHANGED <<clicks, stats>>
           \/ \E S : EvictLocked(S)
    PROVE  Forgets
<1>1. clicks \in [Id -> Nat] /\ stats \in [Id -> Nat]
  BY DEF IInv, TypeOK, StoreTypeOK
<1> QED
  BY <1>1 DEF EvictLocked, Forgets

LEMMA ForgettingKeepsBound ==
    ASSUME IInv, CountersBounded, Forgets, UNCHANGED tracker
    PROVE  CountersBounded'
<1>1. /\ clicks \in [Id -> Nat] /\ stats \in [Id -> Nat]
      /\ tracked \in [Id -> Nat] /\ batch \in [Id -> Nat]
      /\ resolved \in [Id -> Nat]
  BY DEF IInv, TypeOK, StoreTypeOK
<1> SUFFICES ASSUME NEW i \in Id
             PROVE  /\ clicks'[i] + tracked'[i]
                         + (IF i \in uncounted' THEN batch'[i] ELSE 0) <= resolved'[i]
                    /\ stats'[i] + tracked'[i] + batch'[i] <= resolved'[i]
  BY DEF CountersBounded
<1>2. /\ clicks[i] + tracked[i] + (IF i \in uncounted THEN batch[i] ELSE 0)
           <= resolved[i]
      /\ stats[i] + tracked[i] + batch[i] <= resolved[i]
  BY DEF CountersBounded
<1> QED
  BY <1>1, <1>2 DEF Forgets, tracker

LEMMA PreviewKeepsBound ==
    ASSUME IInv, CountersBounded, NEW i \in Id, handlePreview(i)
    PROVE  CountersBounded'
<1>1. Forgets
  BY StoreForgets DEF handlePreview, Get, store
<1>2. CASE UNCHANGED <<tracked, resolved>>
  BY <1>1, <1>2, ForgettingKeepsBound DEF handlePreview, tracker
<1>3. CASE /\ tracked' = [tracked EXCEPT ![i] = @ + 1]
           /\ resolved' = [resolved EXCEPT ![i] = @ + 1]
  <2>1. /\ clicks \in [Id -> Nat] /\ stats \in [Id -> Nat]
        /\ tracked \in [Id -> Nat] /\ batch \in [Id -> Nat]
        /\ resolved \in [Id -> Nat]
    BY DEF IInv, TypeOK, StoreTypeOK
  <2>2. batch' = batch /\ uncounted' = uncounted
    BY DEF handlePreview
  <2> SUFFICES ASSUME NEW j \in Id
               PROVE  /\ clicks'[j] + tracked'[j]
                           + (IF j \in uncounted' THEN batch'[j] ELSE 0) <= resolved'[j]
                      /\ stats'[j] + tracked'[j] + batch'[j] <= resolved'[j]
    BY DEF CountersBounded
  <2>3. /\ clicks[j] + tracked[j] + (IF j \in uncounted THEN batch[j] ELSE 0)
             <= resolved[j]
        /\ stats[j] + tracked[j] + batch[j] <= resolved[j]
    BY DEF CountersBounded
  <2> QED
    BY <1>1, <1>3, <2>1, <2>2, <2>3 DEF Forgets
<1> QED
  BY <1>2, <1>3 DEF handlePreview

LEMMA FlushKeepsBound ==
    ASSUME IInv, CountersBounded,
           startFlush \/ (\E i \in Id : flushClicks(i)) \/ flushEvents
    PROVE  CountersBounded'
<1>1. /\ clicks \in [Id -> Nat] /\ stats \in [Id -> Nat]
      /\ tracked \in [Id -> Nat] /\ batch \in [Id -> Nat]
      /\ resolved \in [Id -> Nat]
  BY DEF IInv, TypeOK, StoreTypeOK
<1> SUFFICES ASSUME NEW j \in Id
             PROVE  /\ clicks'[j] + tracked'[j]
                         + (IF j \in uncounted' THEN batch'[j] ELSE 0) <= resolved'[j]
                    /\ stats'[j] + tracked'[j] + batch'[j] <= resolved'[j]
  BY DEF CountersBounded
<1>2. /\ clicks[j] + tracked[j] + (IF j \in uncounted THEN batch[j] ELSE 0)
           <= resolved[j]
      /\ stats[j] + tracked[j] + batch[j] <= resolved[j]
  BY DEF CountersBounded
<1>3. CASE startFlush
  <2>1. PICK taken \in [Id -> 0 .. MaxClicks] :
          /\ \A i \in Id : taken[i] <= tracked[i]
          /\ batch' = taken
          /\ tracked' = [i \in Id |-> tracked[i] - taken[i]]
    BY <1>3 DEF startFlush
  <2>2. UNCHANGED <<clicks, stats, resolved>>
    BY <1>3 DEF startFlush, store
  <2>3. taken[j] \in Nat /\ batch[j] = 0
    BY <1>3, <2>1, ServiceAssumption DEF startFlush, NoClicks
  <2> QED
    BY <1>1, <1>2, <2>1, <2>2, <2>3
<1>4. ASSUME NEW i \in Id, flushClicks(i)
      PROVE  /\ clicks'[j] + tracked'[j]
                  + (IF j \in uncounted' THEN batch'[j] ELSE 0) <= resolved'[j]
             /\ stats'[j] + tracked'[j] + batch'[j] <= resolved'[j]
  <2>1. /\ i \in uncounted /\ uncounted' = uncounted \ {i}
        /\ clicks' = [clicks EXCEPT ![i] = @ + batch[i]]
        /\ UNCHANGED <<stats, tracked, batch, resolved>>
    BY <1>4 DEF flushClicks, IncrClickBy
  <2>2. CASE j = i
    BY <1>1, <1>2, <2>1, <2>2
  <2>3. CASE j # i
    BY <1>1, <1>2, <2>1, <2>3
  <2> QED
    BY <2>2, <2>3
<1>5. CASE flushEvents
  <2>1. /\ uncounted = {} /\ uncounted' = {} /\ batch'[j] = 0
        /\ stats'[j] = stats[j] + batch[j]
        /\ UNCHANGED <<clicks, tracked, resolved>>
    BY <1>5 DEF flushEvents, RecordEvents, NoClicks
  <2> QED
    BY <1>1, <1>2, <2>1
<1> QED
  BY <1>3, <1>4, <1>5

(* However purges, flushes and resolves interleave, no counter of a link is *)
(* above the clicks that resolved it.                                       *)
THEOREM NeverOvercounted == Spec => []CountersBounded
<1>1. Init => CountersBounded
  BY DEF Init, StoreInit, NoClicks, CountersBounded
<1>2. ASSUME IInv, CountersBounded, [Next]_vars
      PROVE  CountersBounded'
  <2>1. ASSUME \/ UNCHANGED <<clicks, stats>>
               \/ \E S : EvictLocked(S),
               UNCHANGED tracker
        PROVE  CountersBounded'
    BY <1>2, <2>1, StoreForgets, ForgettingKeepsBound
  <2>2. ASSUME NEW r \in Req, NEW fields \in Fields, NEW exp \in Expiry,
               NEW deleted \in BodyDeletedAt, shortenURL(r, fields, exp, deleted)
        PROVE  CountersBounded'
    BY <2>1, <2>2 DEF shortenURL, store
  <2>3. ASSUME NEW r \in Req, saveCreated(r) \/ updateSave(r)
        PROVE  CountersBounded'
    BY <2>1, <2>3 DEF saveCreated, updateSave, Save
  <2>4. ASSUME NEW r \in Req, NEW i \in Id, NEW patch \in linkPatch,
               updateRead(r, i, patch)
        PROVE  CountersBounded'
    BY <2>1, <2>4 DEF updateRead, Get, store
  <2>5. ASSUME NEW i \in Id, deleteLink(i) \/ getLink(i)
        PROVE  CountersBounded'
    BY <2>1, <2>5 DEF deleteLink, Delete, getLink, Get, store
  <2>6. ASSUME NEW i \in Id, handlePreview(i)
        PROVE  CountersBounded'
    BY <1>2, <2>6, PreviewKeepsBound
  <2>7. CASE list \/ Tick \/ UNCHANGED vars
    BY <2>1, <2>7 DEF list, SweepAll, Tick, vars, store
  <2>8. CASE startFlush \/ (\E i \in Id : flushClicks(i)) \/ flushEvents
    BY <1>2, <2>8, FlushKeepsBound
  <2> QED
    BY <1>2, <2>2, <2>3, <2>4, <2>5, <2>6, <2>7, <2>8 DEF Next, handleDelete
<1> QED
  BY <1>1, <1>2, Inductive, PTL DEF Spec

----------------------------------------------------------------------------
(* The flushes.                                                             *)

\* A step that is none of a flush: the store purges some links, or none.
LEMMA PurgeIsSeen ==
    ASSUME IInv, UNCHANGED tracker,
           \/ UNCHANGED <<clicks, stats>>
           \/ \E S : EvictLocked(S)
    PROVE  Flushes!Next \/ UNCHANGED Flushes!vars
<1>1. CASE UNCHANGED <<clicks, stats>>
  BY <1>1 DEF tracker, Flushes!vars
<1>2. CASE \E S : EvictLocked(S)
  <2>1. PICK S : EvictLocked(S)
    BY <1>2
  <2>2. S \cap Id \in SUBSET Id /\ Flushes!Forget(S \cap Id)
    BY <2>1 DEF EvictLocked, tracker, Flushes!Forget
  <2> QED
    BY <2>2 DEF Flushes!Next
<1> QED
  BY <1>1, <1>2

LEMMA PreviewIsSeen ==
    ASSUME IInv, NEW i \in Id, handlePreview(i)
    PROVE  Flushes!Next \/ UNCHANGED Flushes!vars
<1>1. CASE UNCHANGED <<tracked, resolved>>
  <2>1. \/ UNCHANGED <<clicks, stats>>
        \/ \E S : EvictLocked(S)
    BY DEF handlePreview, Get, store
  <2>2. UNCHANGED tracker
    BY <1>1 DEF handlePreview, tracker
  <2> QED
    BY <2>1, <2>2, PurgeIsSeen
<1>2. CASE Found(i) /\ tracked' = [tracked EXCEPT ![i] = @ + 1]
  <2>1. UNCHANGED <<clicks, stats>>
    BY <1>2 DEF handlePreview, Get, Found, store
  <2>2. Flushes!Track(i)
    BY <1>2, <2>1 DEF handlePreview, Flushes!Track
  <2> QED
    BY <2>2 DEF Flushes!Next
<1> QED
  BY <1>1, <1>2 DEF handlePreview

LEMMA StartIsSeen ==
    ASSUME IInv, startFlush
    PROVE  Flushes!StartFlush
<1>1. PICK taken \in [Id -> 0 .. MaxClicks] :
        /\ taken # NoClicks /\ \A i \in Id : taken[i] <= tracked[i]
        /\ batch' = taken
        /\ uncounted' = {i \in Id : taken[i] > 0}
        /\ tracked' = [i \in Id |-> tracked[i] - taken[i]]
  BY DEF startFlush
<1>2. tracked \in [Id -> Nat]
  BY DEF IInv, TypeOK
<1>3. \A i \in Id : taken[i] \in Nat
  BY ServiceAssumption
<1>4. batch' \in [Id -> Nat]
  BY <1>1, <1>3
<1>5. tracked' \in [Id -> Nat] /\ \A i \in Id : tracked[i] = tracked'[i] + batch'[i]
  BY <1>1, <1>2, <1>3
<1>6. batch = NoClicks /\ UNCHANGED <<clicks, stats>>
  BY DEF startFlush, store
<1> QED
  BY <1>1, <1>4, <1>5, <1>6 DEF Flushes!StartFlush, Flushes!NoClicks, NoClicks

LEMMA EventsAreSeen ==
    ASSUME IInv, flushEvents
    PROVE  Flushes!RecordEvents
<1>1. /\ batch # NoClicks /\ uncounted = {} /\ batch' = NoClicks
      /\ stats' = [i \in Id |-> stats[i] + batch[i]]
      /\ UNCHANGED <<tracked, uncounted, clicks>>
  BY DEF flushEvents, RecordEvents
<1>2. stats \in [Id -> Nat] /\ batch \in [Id -> Nat]
  BY DEF IInv, TypeOK, StoreTypeOK
<1>3. stats' \in [Id -> Nat] /\ \A i \in Id : stats'[i] - stats[i] = batch[i]
  BY <1>1, <1>2
<1> QED
  BY <1>1, <1>3 DEF Flushes!RecordEvents, Flushes!NoClicks, NoClicks

(* Whatever requests do to the links meanwhile, the counters of the memory  *)
(* store change by the calls of whole flushes and by purges only: the       *)
(* flushes that ClickTracker is proved to implement.                        *)
THEOREM ServiceFollowsFlushes == Spec => FollowsFlushes
<1>1. Init => Flushes!Init
  BY DEF Init, StoreInit, NoClicks, Flushes!Init, Flushes!NoClicks
<1>2. IInv /\ [Next]_vars => [Flushes!Next]_(Flushes!vars)
  <2> SUFFICES ASSUME IInv, [Next]_vars
               PROVE  Flushes!Next \/ UNCHANGED Flushes!vars
    OBVIOUS
  <2>1. ASSUME \/ UNCHANGED <<clicks, stats>>
               \/ \E S : EvictLocked(S),
               UNCHANGED tracker
        PROVE  Flushes!Next \/ UNCHANGED Flushes!vars
    BY <2>1, PurgeIsSeen
  <2>2. ASSUME NEW r \in Req, NEW fields \in Fields, NEW exp \in Expiry,
               NEW deleted \in BodyDeletedAt, shortenURL(r, fields, exp, deleted)
        PROVE  Flushes!Next \/ UNCHANGED Flushes!vars
    BY <2>1, <2>2 DEF shortenURL, store
  <2>3. ASSUME NEW r \in Req, saveCreated(r) \/ updateSave(r)
        PROVE  Flushes!Next \/ UNCHANGED Flushes!vars
    BY <2>1, <2>3 DEF saveCreated, updateSave, Save
  <2>4. ASSUME NEW r \in Req, NEW i \in Id, NEW patch \in linkPatch,
               updateRead(r, i, patch)
        PROVE  Flushes!Next \/ UNCHANGED Flushes!vars
    BY <2>1, <2>4 DEF updateRead, Get, store
  <2>5. ASSUME NEW i \in Id, deleteLink(i) \/ getLink(i)
        PROVE  Flushes!Next \/ UNCHANGED Flushes!vars
    BY <2>1, <2>5 DEF deleteLink, Delete, getLink, Get, store
  <2>6. ASSUME NEW i \in Id, handlePreview(i)
        PROVE  Flushes!Next \/ UNCHANGED Flushes!vars
    BY <2>6, PreviewIsSeen
  <2>7. CASE list \/ Tick \/ UNCHANGED vars
    BY <2>1, <2>7 DEF list, SweepAll, Tick, vars, store
  <2>8. CASE startFlush
    BY <2>8, StartIsSeen DEF Flushes!Next
  <2>9. ASSUME NEW i \in Id, flushClicks(i)
        PROVE  Flushes!Next
    <3>1. Flushes!IncrClickBy(i)
      BY <2>9 DEF flushClicks, IncrClickBy, Flushes!IncrClickBy
    <3> QED
      BY <3>1 DEF Flushes!Next
  <2>10. CASE flushEvents
    BY <2>10, EventsAreSeen DEF Flushes!Next
  <2> QED
    BY <2>2, <2>3, <2>4, <2>5, <2>6, <2>7, <2>8, <2>9, <2>10 DEF Next, handleDelete
<1> QED
  BY <1>1, <1>2, Inductive, PTL DEF Spec, FollowsFlushes, Flushes!Spec

=============================================================================
